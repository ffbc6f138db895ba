---------------------------- MODULE AuditProofs ----------------------------
(***************************************************************************)
(* What the audit trace of a run tells, proved for any orders, runs,       *)
(* prices, scripts and clocks, and for edits that leave the version alone; *)
(* and what becomes of a run under the counters of its failure injector,   *)
(* which only restricts it.                                                *)
(*                                                                         *)
(* The trace only grows, so what an event tells has to be true when it is  *)
(* written.  A mutation_committed event is written by a call that is about *)
(* to respond: the story so far must already explain the permit of that    *)
(* call.  It may stop doing so when a new attempt begins; a permit that is *)
(* left behind like that is Gone, and execute() commits nothing for it.    *)
(***************************************************************************)
EXTENDS Scenario, RunnerProofs

IsTrace(s) == s \in Seq({ s[i] : i \in DOMAIN s })

(* The events after which an earlier decision explains nothing any more.   *)
Resets == {"proposal_created", "policy_denied", "proposal_rejected"}

(* The decision of the attempt that the run is at.                         *)
DecidedAt(r, d) ==
    /\ trace[r][d].type = "policy_allowed"
    /\ \A k \in d..Len(trace[r]) : trace[r][k].type \notin Resets

(* The permit was issued after it, for the version that was decided on.    *)
Backed(r, p) ==
    \E d, i \in DOMAIN trace[r] :
        /\ d < i
        /\ DecidedAt(r, d)
        /\ trace[r][i].type = "permit_issued"
        /\ trace[r][i].permit = p
        /\ permits[p].action # "create_support_ticket" =>
                trace[r][i].version = trace[r][d].version

(* execute() writes nothing more for the permit of the last attempt: it is *)
(* spent, or its row has moved on.                                         *)
Gone(r) ==
    LET last == agent[r].last
    IN  \/ permits[last.permit].used
        \/ VersionOf(last.proposal.action, last.proposal.order) > permits[last.permit].version

LastGone(r) == agent[r].last # NULL => Gone(r)

(* A call for such a permit will not get as far as the commit.             *)
CallFails(r) ==
    /\ phase[r] \notin {"commit", "respond"}
    /\ phase[r] = "lookup" =>
          \/ permits[call[r].permit].used
          \/ FirstFailedCheck(call[r].row, call[r].proposal, call[r].target) # NULL

(* What the trace explains at each step of the run.                        *)
Story(r) ==
    LET a == agent[r]
    IN  /\ a.step \in Before \cup Ticketing => LastGone(r)
        /\ a.step = "issue" =>
              \E d \in DOMAIN trace[r] :
                  DecidedAt(r, d) /\ trace[r][d].version = a.verdict.version
        /\ a.step = "escalate" => \E d \in DOMAIN trace[r] : DecidedAt(r, d)
        /\ a.step \in Spending => Backed(r, a.last.permit)
        /\ a.step \in Ticketing => Backed(r, <<r, sequence[r]>>)
        /\ a.step \in {"replay", "replaying"} =>
              Backed(r, a.last.permit) \/ (Gone(r) /\ CallFails(r))

(* A call was announced last; a stale one is known to be.                  *)
Announced(r) ==
    LET n == Len(trace[r])
    IN  /\ phase[r] # "idle" =>
              /\ n > 0
              /\ trace[r][n].type = "mutation_attempted"
              /\ trace[r][n].permit = call[r].permit
        /\ agent[r].step = "executing" /\ answer[r] # NULL
              /\ answer[r].reason = "stale_resource_version" => Gone(r)

(* What the two properties say of one event.                               *)
ExplainedBy(r, i, issued, decided) ==
    /\ trace[r][issued].type = "permit_issued"
    /\ trace[r][issued].permit = trace[r][i].permit
    /\ trace[r][decided].type = "policy_allowed"
    /\ permits[trace[r][i].permit].action # "create_support_ticket" =>
            trace[r][issued].version = trace[r][decided].version
    /\ trace[r][i - 1].type = "mutation_attempted"
    /\ trace[r][i - 1].permit = trace[r][i].permit
    /\ \A k \in decided..i : trace[r][k].type \notin Resets

Explained(r, i) ==
    \E issued \in 1..(i - 1) : \E decided \in 1..(issued - 1) :
        ExplainedBy(r, i, issued, decided)

ShowsTheMove(e) ==
    e.reason = "stale_resource_version" => e.version > permits[e.permit].version

(* An event that names a permit names one that was issued.                 *)
EventTells(r, i) ==
    LET e == trace[r][i]
    IN  /\ e.type \in {"mutation_committed", "mutation_rejected"} => e.permit \in DOMAIN permits
        /\ e.type = "mutation_committed" => Explained(r, i)
        /\ e.type = "mutation_rejected" => ShowsTheMove(e)

RunTells(r) ==
    /\ IsTrace(trace[r])
    /\ Story(r)
    /\ Announced(r)
    /\ \A i \in DOMAIN trace[r] : EventTells(r, i)

StoryInv ==
    /\ DOMAIN trace = Runs
    /\ \A r \in Runs : CallDates(r) /\ RunTells(r)

-----------------------------------------------------------------------------
(* How a trace grows.                                                      *)

(* The trace of r goes on, those of the others stay.                       *)
Longer(r) ==
    LET m == Len(trace[r])  n == Len(trace'[r])
    IN  /\ IsTrace(trace'[r])
        /\ m \in Nat /\ n \in Nat /\ m <= n
        /\ DOMAIN trace[r] = 1..m
        /\ DOMAIN trace'[r] = 1..n
        /\ \A i \in 1..m : trace'[r][i] = trace[r][i]

Grown(r) ==
    /\ DOMAIN trace' = Runs
    /\ \A q \in Runs \ {r} : trace'[q] = trace[q]
    /\ Longer(r)

News(r) == (Len(trace[r]) + 1)..Len(trace'[r])

LEMMA TraceIs ==
    ASSUME NEW s, IsTrace(s)
    PROVE  Len(s) \in Nat /\ DOMAIN s = 1..Len(s)
    BY DEF IsTrace

(* The trace of r is longer by the events.                                 *)
TraceGains(r, events) ==
    /\ Grown(r)
    /\ Len(trace'[r]) = Len(trace[r]) + Len(events)
    /\ \A i \in 1..Len(events) : trace'[r][Len(trace[r]) + i] = events[i]

LEMMA EmitDoes ==
    ASSUME DOMAIN trace = Runs, NEW r \in Runs, IsTrace(trace[r]),
           NEW T, NEW events \in Seq(T), Emit(r, events)
    PROVE  TraceGains(r, events)
<1> DEFINE s == trace[r]
           S == { s[i] : i \in DOMAIN s } \cup T
           t == s \o events
<1>1. /\ DOMAIN trace' = Runs
      /\ \A q \in Runs \ {r} : trace'[q] = trace[q]
      /\ trace'[r] = t
    BY DEF Emit
<1>2. Len(s) \in Nat /\ DOMAIN s = 1..Len(s)
    BY TraceIs
<1>3. s \in Seq(S) /\ events \in Seq(S)
  <2>1. s \in Seq({ s[i] : i \in DOMAIN s })
    BY DEF IsTrace
  <2> QED
    BY <2>1
<1> HIDE DEF s, S
<1>4. /\ t \in Seq(S)
      /\ Len(t) = Len(s) + Len(events)
      /\ \A i \in 1..(Len(s) + Len(events)) :
            t[i] = IF i <= Len(s) THEN s[i] ELSE events[i - Len(s)]
    BY <1>3, ConcatProperties
<1> HIDE DEF t
<1>5. Len(events) \in Nat /\ DOMAIN t = 1..Len(t)
    BY <1>3, <1>4
<1>6. IsTrace(t)
  <2>1. t \in [1..Len(t) -> S] /\ Len(t) \in Nat
    BY <1>4, LenProperties
  <2>2. t \in [1..Len(t) -> { t[j] : j \in DOMAIN t }]
    BY <1>5, <2>1
  <2> QED
    BY <2>1, <2>2, SeqDef DEF IsTrace
<1>7. \A i \in 1..Len(s) : t[i] = s[i]
    BY <1>2, <1>4, <1>5
<1>8. \A i \in 1..Len(events) : t[Len(s) + i] = events[i]
    BY <1>2, <1>4, <1>5
<1> QED
    BY <1>1, <1>2, <1>4, <1>5, <1>6, <1>7, <1>8 DEF TraceGains, Grown, Longer, s

(* No event, one or two.                                                   *)
LEMMA EmitNone ==
    ASSUME DOMAIN trace = Runs, NEW r \in Runs, IsTrace(trace[r]),
           Emit(r, << >>) \/ UNCHANGED trace
    PROVE  Grown(r) /\ trace'[r] = trace[r]
<1>1. Len(trace[r]) \in Nat /\ DOMAIN trace[r] = 1..Len(trace[r])
    BY TraceIs
<1>2. CASE UNCHANGED trace
    BY <1>1, <1>2 DEF Grown, Longer
<1>3. CASE Emit(r, << >>)
  <2>1. trace[r] \in Seq({ trace[r][i] : i \in DOMAIN trace[r] })
    BY DEF IsTrace
  <2>2. trace[r] \o << >> = trace[r]
    BY <2>1
  <2>3. trace' = [trace EXCEPT ![r] = trace[r]]
    BY <1>3, <2>2 DEF Emit
  <2> QED
    BY <1>1, <2>3 DEF Grown, Longer
<1> QED
    BY <1>2, <1>3

LEMMA OneOf == ASSUME NEW T, NEW e \in T PROVE <<e>> \in Seq(T)
    OBVIOUS

LEMMA TwoOf == ASSUME NEW T, NEW e \in T, NEW f \in T PROVE <<e, f>> \in Seq(T)
    OBVIOUS

LEMMA EmitOne ==
    ASSUME DOMAIN trace = Runs, NEW r \in Runs, IsTrace(trace[r]), NEW e, Emit(r, <<e>>)
    PROVE  /\ Grown(r)
           /\ Len(trace'[r]) = Len(trace[r]) + 1
           /\ trace'[r][Len(trace[r]) + 1] = e
<1>1. PICK events : events = <<e>>
    OBVIOUS
<1>2. PICK T : e \in T
    BY e \in {e}
<1>3. Len(events) = 1 /\ events[1] = e
    BY <1>1
<1>4. events \in Seq(T)
    BY <1>1, <1>2, OneOf
<1>5. Emit(r, events)
    BY <1>1
<1>6. TraceGains(r, events)
    BY <1>4, <1>5, EmitDoes
<1> QED
    BY <1>3, <1>6 DEF TraceGains

LEMMA EmitTwo ==
    ASSUME DOMAIN trace = Runs, NEW r \in Runs, IsTrace(trace[r]), NEW e, NEW f,
           Emit(r, <<e, f>>)
    PROVE  /\ Grown(r)
           /\ Len(trace'[r]) = Len(trace[r]) + 2
           /\ trace'[r][Len(trace[r]) + 1] = e
           /\ trace'[r][Len(trace[r]) + 2] = f
<1>1. PICK events : events = <<e, f>>
    OBVIOUS
<1>2. PICK T : e \in T /\ f \in T
    BY e \in {e, f} /\ f \in {e, f}
<1>3. Len(events) = 2 /\ events[1] = e /\ events[2] = f
    BY <1>1
<1>4. events \in Seq(T)
    BY <1>1, <1>2, TwoOf
<1>5. Emit(r, events)
    BY <1>1
<1>6. TraceGains(r, events)
    BY <1>4, <1>5, EmitDoes
<1> QED
    BY <1>3, <1>6 DEF TraceGains

-----------------------------------------------------------------------------
(* What the trace told stays told.                                         *)

(* Nothing is started over, or nothing that names a permit's write.        *)
NoReset(r) == \A i \in News(r) : trace'[r][i].type \notin Resets
Quiet(r) ==
    \A i \in News(r) : trace'[r][i].type \notin {"mutation_committed", "mutation_rejected"}

LEMMA StepKeeps ==
    ASSUME Base, [RunnerNext]_runnerVars
    PROVE  TypeOK /\ LedgerInv /\ AgentInv /\ PinInv /\ PermitsStay /\ VersionsGrow
<1>1. TypeOK /\ LedgerInv /\ AgentInv /\ PinInv /\ PermitsStay
    BY AgentInvNext DEF Base, Kept
<1>2. [ClientNext]_vars
    BY <1>1, RunnerIsClient
<1> QED
    BY <1>1, <1>2, RowsMoveOn

LEMMA DecisionStands ==
    ASSUME NEW r \in Runs, Longer(r), NoReset(r), NEW d \in DOMAIN trace[r], DecidedAt(r, d)
    PROVE  d \in DOMAIN trace'[r] /\ trace'[r][d] = trace[r][d] /\ DecidedAt(r, d)'
<1> DEFINE m == Len(trace[r])
           n == Len(trace'[r])
<1>1. /\ m \in Nat /\ n \in Nat /\ m <= n
      /\ DOMAIN trace[r] = 1..m
      /\ DOMAIN trace'[r] = 1..n
      /\ \A i \in 1..m : trace'[r][i] = trace[r][i]
    BY DEF Longer
<1>2. \A k \in d..m : trace[r][k].type \notin Resets
    BY DEF DecidedAt
<1>3. \A k \in (m + 1)..n : trace'[r][k].type \notin Resets
    BY DEF NoReset, News
<1> HIDE DEF m, n
<1>4. d \in 1..m /\ d \in 1..n /\ trace'[r][d] = trace[r][d]
    BY <1>1
<1>5. \A k \in d..n : trace'[r][k].type \notin Resets
  <2> SUFFICES ASSUME NEW k \in d..n PROVE trace'[r][k].type \notin Resets
    OBVIOUS
  <2>1. CASE k <= m
    <3>1. k \in 1..m /\ k \in d..m
      BY <1>1, <1>4, <2>1
    <3> QED
      BY <1>1, <1>2, <3>1
  <2>2. CASE ~(k <= m)
    <3>1. k \in (m + 1)..n
      BY <1>1, <1>4, <2>2
    <3> QED
      BY <1>3, <3>1
  <2> QED
    BY <2>1, <2>2
<1> QED
    BY <1>1, <1>4, <1>5 DEF DecidedAt, n

LEMMA BackedStays ==
    ASSUME NEW r \in Runs, Longer(r), NoReset(r), PermitsStay,
           NEW p \in DOMAIN permits, Backed(r, p)
    PROVE  Backed(r, p)'
<1>1. PICK d \in DOMAIN trace[r], i \in DOMAIN trace[r] :
        /\ d < i
        /\ DecidedAt(r, d)
        /\ trace[r][i].type = "permit_issued"
        /\ trace[r][i].permit = p
        /\ permits[p].action # "create_support_ticket" =>
                trace[r][i].version = trace[r][d].version
    BY DEF Backed
<1>2. d \in DOMAIN trace'[r] /\ trace'[r][d] = trace[r][d] /\ DecidedAt(r, d)'
    BY <1>1, DecisionStands
<1>3. i \in DOMAIN trace'[r] /\ trace'[r][i] = trace[r][i]
    BY DEF Longer
<1>4. permits'[p].action = permits[p].action
    BY DEF PermitsStay
<1> QED
    BY <1>1, <1>2, <1>3, <1>4 DEF Backed

LEMMA GoneStays ==
    ASSUME TypeOK, PinInv, VersionsGrow, PermitsStay, NEW r \in Runs, LastKnown(r), Gone(r),
           agent'[r].last = agent[r].last
    PROVE  Gone(r)'
<1>0. PICK p, proposal : p = agent[r].last.permit /\ proposal = agent[r].last.proposal
    OBVIOUS
<1>1. /\ p \in DOMAIN permits
      /\ permits[p].action = proposal.action
      /\ permits[p].resource = ResourceOf(proposal.action, proposal.order)
    BY <1>0 DEF LastKnown
<1>2. PermitPinned(p)
    BY <1>1 DEF PinInv
<1>3. permits'[p].version = permits[p].version /\ (permits[p].used => permits'[p].used)
    BY <1>1 DEF PermitsStay
<1>4. permits[p].used \/ VersionOf(proposal.action, proposal.order) > permits[p].version
    BY <1>0 DEF Gone
<1>5. VersionOf(proposal.action, proposal.order) > permits[p].version =>
            VersionOf(proposal.action, proposal.order)' > permits[p].version
    BY <1>1, <1>2, MovedOn
<1>6. permits'[p].used \/ VersionOf(proposal.action, proposal.order)' > permits'[p].version
    BY <1>3, <1>4, <1>5
<1>7. p = agent'[r].last.permit /\ proposal = agent'[r].last.proposal
    BY <1>0
<1> QED
    BY <1>6, <1>7 DEF Gone

(* An event is told again by every longer trace.                           *)
LEMMA EventStays ==
    ASSUME NEW r \in Runs, Longer(r), PermitsStay, NEW i \in DOMAIN trace[r], EventTells(r, i)
    PROVE  EventTells(r, i)'
<1> DEFINE m == Len(trace[r])
           e == trace[r][i]
<1>1. /\ m \in Nat /\ i \in 1..m
      /\ \A j \in 1..m : trace'[r][j] = trace[r][j]
    BY DEF Longer
<1>2. e.type \in {"mutation_committed", "mutation_rejected"} =>
        /\ e.permit \in DOMAIN permits'
        /\ permits'[e.permit].action = permits[e.permit].action
        /\ permits'[e.permit].version = permits[e.permit].version
    BY DEF EventTells, PermitsStay
<1> HIDE DEF m
<1>3. trace'[r][i] = e
    BY <1>1
<1>4. ASSUME e.type = "mutation_committed" PROVE Explained(r, i)'
  <2>1. Explained(r, i)
    BY <1>4 DEF EventTells
  <2>2. PICK issued \in 1..(i - 1) : \E decided \in 1..(issued - 1) :
            ExplainedBy(r, i, issued, decided)
    BY <2>1 DEF Explained
  <2>3. PICK decided \in 1..(issued - 1) : ExplainedBy(r, i, issued, decided)
    BY <2>2
  <2>4. issued \in 1..m /\ decided \in 1..m /\ (i - 1) \in 1..m /\ \A k \in decided..i : k \in 1..m
    BY <1>1
  <2>5. /\ trace'[r][issued] = trace[r][issued]
        /\ trace'[r][decided] = trace[r][decided]
        /\ trace'[r][i - 1] = trace[r][i - 1]
        /\ \A k \in decided..i : trace'[r][k] = trace[r][k]
    BY <1>1, <2>4
  <2>6. ExplainedBy(r, i, issued, decided)'
    BY <1>2, <1>3, <1>4, <2>3, <2>5, Zenon DEF ExplainedBy
  <2> QED
    BY <2>6 DEF Explained
<1>5. ASSUME e.type = "mutation_rejected" PROVE ShowsTheMove(e)'
    BY <1>2, <1>3, <1>5 DEF EventTells, ShowsTheMove
<1> QED
    BY <1>2, <1>3, <1>4, <1>5 DEF EventTells, ShowsTheMove

LEMMA TellsOn ==
    ASSUME NEW r \in Runs, Longer(r), PermitsStay,
           \A i \in DOMAIN trace[r] : EventTells(r, i),
           \A i \in News(r) : EventTells(r, i)'
    PROVE  (\A i \in DOMAIN trace[r] : EventTells(r, i))'
<1> SUFFICES ASSUME NEW i \in DOMAIN trace'[r] PROVE EventTells(r, i)'
    OBVIOUS
<1>1. i \in DOMAIN trace[r] \/ i \in News(r)
    BY DEF Longer, News
<1> QED
    BY <1>1, EventStays

LEMMA QuietTells ==
    ASSUME NEW r \in Runs, Quiet(r)
    PROVE  \A i \in News(r) : EventTells(r, i)'
    BY DEF Quiet, EventTells

LEMMA SameTrace ==
    ASSUME NEW r, IsTrace(trace[r]), trace'[r] = trace[r]
    PROVE  Longer(r) /\ NoReset(r) /\ Quiet(r)
<1>1. Len(trace[r]) \in Nat /\ DOMAIN trace[r] = 1..Len(trace[r])
    BY TraceIs
<1>2. News(r) = {}
    BY <1>1 DEF News
<1> QED
    BY <1>1, <1>2 DEF Longer, NoReset, Quiet

-----------------------------------------------------------------------------
(* Whoever does not move keeps its story.                                  *)

LEMMA KnowsLast ==
    ASSUME Base, NEW r \in Runs
    PROVE  /\ agent[r].last # NULL => LastKnown(r)
           /\ agent[r].step \in Spending \cup {"replay", "replaying"} => LastKnown(r)
           /\ agent[r].step \in Ticketing => TicketKnown(r)
           /\ phase[r] # "idle" => agent[r].step \in {"executing", "ticketing", "replaying"}
    BY HasPermit DEF Base, AgentInv, AgentKnown, CallOwned

LEMMA StoryGoesOn ==
    ASSUME Base, PermitsStay, VersionsGrow, NEW r \in Runs, Story(r), Longer(r), NoReset(r),
           agent'[r] = agent[r], sequence'[r] = sequence[r],
           agent[r].step \in {"replay", "replaying"} /\ Gone(r) /\ CallFails(r)
                => CallFails(r)'
    PROVE  Story(r)'
<1> DEFINE a == agent[r]
<1>1. LastKnown(r) /\ Gone(r) => Gone(r)'
    BY GoneStays DEF Base, Kept
<1>2. \A p \in DOMAIN permits : Backed(r, p) => Backed(r, p)'
    BY BackedStays
<1>3. /\ a.last # NULL => LastKnown(r)
      /\ a.step \in Spending \cup {"replay", "replaying"} => LastKnown(r)
      /\ a.step \in Ticketing => TicketKnown(r)
    BY KnowsLast
<1>4. /\ LastKnown(r) => a.last.permit \in DOMAIN permits
      /\ TicketKnown(r) => <<r, sequence[r]>> \in DOMAIN permits
    BY DEF LastKnown, TicketKnown
<1>5. \A d \in DOMAIN trace[r] : DecidedAt(r, d) =>
        d \in DOMAIN trace'[r] /\ trace'[r][d] = trace[r][d] /\ DecidedAt(r, d)'
    BY DecisionStands
<1> QED
    BY <1>1, <1>2, <1>3, <1>4, <1>5 DEF Story, LastGone

LEMMA StoryStays ==
    ASSUME Base, PermitsStay, VersionsGrow, NEW r \in Runs, RunTells(r),
           agent'[r] = agent[r], phase'[r] = phase[r], call'[r] = call[r],
           answer'[r] = answer[r], sequence'[r] = sequence[r], trace'[r] = trace[r]
    PROVE  RunTells(r)'
<1>1. Longer(r) /\ NoReset(r) /\ Quiet(r)
    BY SameTrace DEF RunTells
<1>2. LastKnown(r) /\ Gone(r) => Gone(r)'
    BY GoneStays DEF Base, Kept
<1>3. CallFails(r) => CallFails(r)'
  <2>1. phase[r] # "idle" => call[r].permit \in DOMAIN permits
    BY CallIs
  <2> QED
    BY <2>1 DEF CallFails, PermitsStay
<1>4. Story(r)'
    BY <1>1, <1>3, StoryGoesOn DEF RunTells
<1>5. Announced(r)'
    BY <1>2, KnowsLast DEF RunTells, Announced, Spending
<1>6. IsTrace(trace[r])' /\ (\A i \in DOMAIN trace[r] : EventTells(r, i))'
    BY <1>1, TellsOn, QuietTells DEF RunTells
<1> QED
    BY <1>4, <1>5, <1>6 DEF RunTells

-----------------------------------------------------------------------------
(* The steps of a run.                                                     *)

(* What a step of r has to show, besides what it leaves to the others.     *)
Goes(r) == Grown(r) /\ Quiet(r) /\ Story(r)' /\ Announced(r)'

(* While the world of the executor stands still, so does a permit.         *)
LEMMA StillGone ==
    ASSUME UNCHANGED vars, NEW r, agent'[r].last = agent[r].last
    PROVE  Gone(r)' <=> Gone(r)
<1>1. UNCHANGED permits /\ UNCHANGED orders /\ UNCHANGED payments
    BY DEF vars, storeVars
<1> QED
    BY <1>1 DEF Gone, VersionOf

(* Between calls nothing is announced.                                     *)
LEMMA NotCalling ==
    ASSUME NEW r, phase'[r] = "idle", agent'[r].step # "executing"
    PROVE  Announced(r)' /\ CallFails(r)'
    BY DEF Announced, CallFails

LEMMA ProposeStory ==
    ASSUME Base, StoryInv, NEW r \in Runs, Propose(r), Emit(r, ProposalEvents(r))
    PROVE  Goes(r)
<1> DEFINE a == agent[r]
           b == agent'[r]
<1>1. AgentInv /\ AgentKnown(r) /\ RunTells(r) /\ DOMAIN trace = Runs
    BY DEF Base, AgentInv, StoryInv
<1>2. /\ a.step = "propose" /\ UNCHANGED vars
      /\ b.last = a.last
      /\ b.step \in {"order", "replay", "verify"}
      /\ b.step = "replay" => a.last # NULL
    BY <1>1, ProposeDoes DEF AttemptEnds, SameScript
<1>3. PICK f : /\ Emit(r, <<Plain("proposal_created"), f>>)
               /\ f.type \in {"proposal_validated", "proposal_rejected"}
  <2>1. CASE b.step = "order"
    <3>1. Emit(r, <<Plain("proposal_created"), Plain("proposal_validated")>>)
      BY <2>1 DEF ProposalEvents
    <3> QED
      BY <3>1 DEF Plain, Event
  <2>2. CASE b.step # "order"
    <3>1. Emit(r, <<Plain("proposal_created"),
                    Event("proposal_rejected", -1, b.reason, NULL)>>)
      BY <2>2 DEF ProposalEvents
    <3> QED
      BY <3>1 DEF Event
  <2> QED
    BY <2>1, <2>2
<1>4. Plain("proposal_created").type = "proposal_created"
    BY DEF Plain, Event
<1>5. /\ Grown(r)
      /\ Len(trace'[r]) = Len(trace[r]) + 2
      /\ trace'[r][Len(trace[r]) + 1] = Plain("proposal_created")
      /\ trace'[r][Len(trace[r]) + 2] = f
    BY <1>1, <1>3, EmitTwo DEF RunTells
<1>6. Quiet(r)
  <2>1. \A i \in News(r) : i = Len(trace[r]) + 1 \/ i = Len(trace[r]) + 2
    BY <1>5 DEF News, Grown, Longer
  <2> QED
    BY <1>3, <1>4, <1>5, <2>1 DEF Quiet
<1>7. phase'[r] = "idle"
    BY <1>1, <1>2, NoCallOutside DEF vars, executorVars
<1>8. Announced(r)' /\ CallFails(r)'
    BY <1>2, <1>7, NotCalling
<1>9. LastGone(r) /\ (Gone(r)' <=> Gone(r))
    BY <1>1, <1>2, StillGone DEF RunTells, Story, Before
<1>10. Story(r)'
    BY <1>2, <1>8, <1>9 DEF Story, LastGone, Spending, Ticketing
<1> QED
    BY <1>5, <1>6, <1>8, <1>10 DEF Goes

LEMMA ReadStory ==
    ASSUME Base, StoryInv, NEW r \in Runs, ReadRecord(r), UNCHANGED trace
    PROVE  Goes(r)
<1> DEFINE a == agent[r]
           b == agent'[r]
<1>1. AgentInv /\ AgentKnown(r) /\ RunTells(r) /\ DOMAIN trace = Runs
    BY DEF Base, AgentInv, StoryInv
<1>2. /\ a.step \in ReadSteps /\ UNCHANGED vars
      /\ b.last = a.last
      /\ b.step \in Reading
    BY <1>1, ReadDoes DEF SameAttempt, SameScript
<1>3. Grown(r) /\ Quiet(r)
    BY <1>1, EmitNone, SameTrace DEF RunTells
<1>4. phase'[r] = "idle"
    BY <1>1, <1>2, NoCallOutside DEF vars, executorVars, ReadSteps
<1>5. Announced(r)'
    BY <1>2, <1>4, NotCalling DEF Reading
<1>6. LastGone(r) /\ (Gone(r)' <=> Gone(r))
    BY <1>1, <1>2, StillGone DEF RunTells, Story, Before, ReadSteps, Reading
<1>7. Story(r)'
    BY <1>2, <1>6 DEF Story, LastGone, Spending, Ticketing, Reading
<1> QED
    BY <1>3, <1>5, <1>7 DEF Goes

(* One event is added.                                                     *)
Adds(r, e) ==
    /\ Grown(r)
    /\ Len(trace'[r]) = Len(trace[r]) + 1
    /\ trace'[r][Len(trace[r]) + 1] = e

LEMMA OneEvent ==
    ASSUME NEW r, NEW e, Adds(r, e)
    PROVE  /\ News(r) = {Len(trace[r]) + 1}
           /\ Len(trace[r]) + 1 \in DOMAIN trace'[r]
           /\ e.type \notin {"mutation_committed", "mutation_rejected"} => Quiet(r)
           /\ e.type \notin Resets => NoReset(r)
<1>1. News(r) = {Len(trace[r]) + 1} /\ Len(trace[r]) + 1 \in DOMAIN trace'[r]
    BY DEF Adds, News, Grown, Longer
<1> QED
    BY <1>1 DEF Adds, Quiet, NoReset

LEMMA JustDecided ==
    ASSUME NEW r, NEW e, Adds(r, e), e.type = "policy_allowed"
    PROVE  \E d \in DOMAIN trace'[r] : DecidedAt(r, d)' /\ trace'[r][d] = e
<1>1. PICK d : d = Len(trace[r]) + 1
    OBVIOUS
<1>2. d \in DOMAIN trace'[r] /\ trace'[r][d] = e /\ Len(trace'[r]) = d /\ d \in Nat
    BY <1>1, OneEvent DEF Adds, Grown, Longer
<1>3. \A k \in d..Len(trace'[r]) : trace'[r][k].type \notin Resets
    BY <1>2 DEF Resets
<1>4. DecidedAt(r, d)'
    BY <1>2, <1>3 DEF DecidedAt
<1> QED
    BY <1>2, <1>4

(* A permit that is issued now, for what was decided before, is backed.    *)
LEMMA IssueBacks ==
    ASSUME NEW r \in Runs, NEW e, Adds(r, e), NEW p, NEW d \in DOMAIN trace[r], DecidedAt(r, d),
           e.type = "permit_issued", e.permit = p,
           permits'[p].action # "create_support_ticket" => e.version = trace[r][d].version
    PROVE  Backed(r, p)'
<1>1. PICK i : i = Len(trace[r]) + 1
    OBVIOUS
<1>2. i \in DOMAIN trace'[r] /\ trace'[r][i] = e /\ d < i /\ Longer(r)
    BY <1>1, OneEvent DEF Adds, Grown, Longer
<1>3. NoReset(r)
    BY OneEvent DEF Resets
<1>4. d \in DOMAIN trace'[r] /\ trace'[r][d] = trace[r][d] /\ DecidedAt(r, d)'
    BY <1>2, <1>3, DecisionStands
<1> QED
    BY <1>2, <1>4 DEF Backed

LEMMA DecideStory ==
    ASSUME Base, StoryInv, NEW r \in Runs, Decide(r), Emit(r, DecisionEvents(r))
    PROVE  Goes(r)
<1> DEFINE a == agent[r]
           b == agent'[r]
           verdict == Evaluate(a.proposal, [a.snapshot EXCEPT !.now = now])
<1>1. AgentInv /\ AgentKnown(r) /\ RunTells(r) /\ DOMAIN trace = Runs
    BY DEF Base, AgentInv, StoryInv
<1>2. /\ a.step = "decide" /\ UNCHANGED vars
      /\ b.last = a.last
      /\ \/ b.step \in {"replay", "verify"} /\ (b.step = "replay" => a.last # NULL)
         \/ b.step = "escalate" /\ verdict.decision = "escalate"
         \/ b.step = "issue" /\ verdict.decision = "allow" /\ b.verdict = verdict
    BY <1>1, DecideDoes DEF AttemptEnds, SameAttempt, SameScript
<1>3. PICK e : /\ Emit(r, <<e>>)
               /\ e.type \in {"policy_denied", "policy_allowed"}
               /\ verdict.decision # "deny" =>
                    e.type = "policy_allowed" /\ e.version = verdict.version
  <2>1. CASE verdict.decision = "deny"
    <3>1. Emit(r, << Event("policy_denied",
                           IF a.snapshot.order = NULL THEN -1 ELSE a.snapshot.order.version,
                           verdict.reason, NULL) >>)
      BY <2>1 DEF DecisionEvents
    <3> QED
      BY <2>1, <3>1 DEF Event
  <2>2. CASE verdict.decision # "deny"
    <3>1. PICK e : e = Event("policy_allowed", verdict.version, verdict.reason, NULL)
      OBVIOUS
    <3>2. Emit(r, <<e>>)
      BY <2>2, <3>1 DEF DecisionEvents
    <3>3. e.type = "policy_allowed" /\ e.version = verdict.version
      BY <3>1 DEF Event
    <3> QED
      BY <3>2, <3>3
  <2> QED
    BY <2>1, <2>2
<1> HIDE DEF verdict
<1>4. Adds(r, e)
    BY <1>1, <1>3, EmitOne DEF RunTells, Adds
<1>5. Grown(r) /\ Quiet(r)
    BY <1>3, <1>4, OneEvent DEF Adds
<1>6. phase'[r] = "idle"
    BY <1>1, <1>2, NoCallOutside DEF vars, executorVars
<1>7. Announced(r)' /\ CallFails(r)'
    BY <1>2, <1>6, NotCalling
<1>8. LastGone(r) /\ (Gone(r)' <=> Gone(r))
    BY <1>1, <1>2, StillGone DEF RunTells, Story, Before, Reading
<1>9. b.step \in {"escalate", "issue"} =>
            \E d \in DOMAIN trace'[r] :
                DecidedAt(r, d)' /\ trace'[r][d].version = verdict.version
    BY <1>2, <1>3, <1>4, JustDecided
<1>10. Story(r)'
    BY <1>2, <1>7, <1>8, <1>9 DEF Story, LastGone, Spending, Ticketing
<1> QED
    BY <1>5, <1>7, <1>10 DEF Goes

LEMMA AuthoriseStory ==
    ASSUME Base, StoryInv, NEW r \in Runs, Authorise(r), NEW reason, Emit(r, PermitEvents(r, reason))
    PROVE  Goes(r)
<1> DEFINE a == agent[r]
           b == agent'[r]
<1>1. AgentInv /\ AgentKnown(r) /\ RunTells(r) /\ DOMAIN trace = Runs /\ TypeOK /\ NumbersGrow
    BY DEF Base, Kept, AgentInv, StoryInv
<1>2. /\ a.step = "issue"
      /\ IssuePermit(r, a.proposal.action, a.proposal.order, a.verdict.version, a.verdict.max)
      /\ phase' = phase
      /\ b.step = "execute"
      /\ b.last = [permit |-> <<r, sequence[r] + 1>>, proposal |-> a.proposal]
    BY <1>1, AuthoriseDoes
<1>3. PICK p : p = <<r, sequence[r] + 1>>
    OBVIOUS
<1>4. sequence'[r] = sequence[r] + 1 /\ permits'[p].version = a.verdict.version
  <2>1. IssuePermit(r, a.proposal.action, a.proposal.order, a.verdict.version, a.verdict.max)
    BY <1>2
  <2>2. TypeOK /\ NumbersGrow
    BY <1>1
  <2> QED
    BY <1>3, <2>1, <2>2, IssuedAs
<1>5. PICK e : /\ Emit(r, <<e>>)
               /\ e.type = "permit_issued" /\ e.permit = p
               /\ e.version = a.verdict.version
  <2>1. PICK e : e = Event("permit_issued", permits'[p].version, reason, p)
    OBVIOUS
  <2>2. Emit(r, <<e>>)
    BY <1>3, <1>4, <2>1 DEF PermitEvents
  <2>3. e.type = "permit_issued" /\ e.permit = p /\ e.version = permits'[p].version
    BY <2>1 DEF Event
  <2> QED
    BY <1>4, <2>2, <2>3
<1>6. Adds(r, e)
    BY <1>1, <1>5, EmitOne DEF RunTells, Adds
<1>7. Grown(r) /\ Quiet(r)
    BY <1>5, <1>6, OneEvent DEF Adds
<1>8. PICK d \in DOMAIN trace[r] : DecidedAt(r, d) /\ trace[r][d].version = a.verdict.version
    BY <1>1, <1>2 DEF RunTells, Story
<1>9. Backed(r, p)'
    BY <1>5, <1>6, <1>8, IssueBacks
<1>10. phase'[r] = "idle"
    BY <1>1, <1>2, NoCallOutside
<1>11. Announced(r)'
    BY <1>2, <1>10, NotCalling
<1>12. p = b.last.permit
    BY <1>2, <1>3
<1>13. Story(r)'
    BY <1>2, <1>9, <1>12 DEF Story, Before, Reading, Ticketing
<1> QED
    BY <1>7, <1>11, <1>13 DEF Goes

LEMMA EscalateStory ==
    ASSUME Base, StoryInv, PermitsStay, VersionsGrow, NEW r \in Runs, BeginEscalation(r),
           NEW reason,
           Emit(r, IF agent'[r].step = "ticket" THEN PermitEvents(r, reason) ELSE << >>)
    PROVE  Goes(r)
<1> DEFINE a == agent[r]
           b == agent'[r]
           o == a.proposal.order
<1>1. /\ AgentInv /\ AgentKnown(r) /\ RunTells(r) /\ DOMAIN trace = Runs
      /\ TypeOK /\ NumbersGrow /\ PinInv
    BY DEF Base, Kept, AgentInv, StoryInv
<1>2. /\ a.step = "escalate"
      /\ b.last = a.last
      /\ \/ /\ IssuePermit(r, "create_support_ticket", o, orders[o].version, 0)
            /\ phase' = phase
            /\ b.step = "ticket"
         \/ UNCHANGED vars /\ b.step \in {"replay", "verify"} /\ (b.step = "replay" => a.last # NULL)
    BY <1>1, EscalateDoes DEF AttemptEnds, SameAttempt, SameScript
<1>3. LastGone(r) /\ (a.last # NULL => LastKnown(r))
    BY <1>1, <1>2, KnowsLast DEF RunTells, Story, Before
<1>4. LastGone(r)'
    BY <1>1, <1>2, <1>3, GoneStays DEF LastGone
<1>5. phase[r] = "idle"
    BY <1>1, <1>2, NoCallOutside
<1>6. CASE b.step = "ticket"
  <2>1. IssuePermit(r, "create_support_ticket", o, orders[o].version, 0) /\ phase' = phase
    BY <1>2, <1>6
  <2>2. PICK p : p = <<r, sequence[r] + 1>>
    OBVIOUS
  <2>3. p = <<r, sequence'[r]>> /\ permits'[p].action = "create_support_ticket"
    <3>1. TypeOK /\ NumbersGrow
      BY <1>1
    <3> QED
      BY <2>1, <2>2, <3>1, IssuedAs
  <2>4. PICK e : e = Event("permit_issued", permits'[p].version, reason, p)
    OBVIOUS
  <2>5. Emit(r, <<e>>)
    BY <1>6, <2>3, <2>4 DEF PermitEvents
  <2>6. e.type = "permit_issued" /\ e.permit = p
    BY <2>4 DEF Event
  <2>7. Adds(r, e)
    BY <1>1, <2>5, EmitOne DEF RunTells, Adds
  <2>8. Grown(r) /\ Quiet(r)
    BY <2>6, <2>7, OneEvent DEF Adds
  <2>9. PICK d \in DOMAIN trace[r] : DecidedAt(r, d)
    BY <1>1, <1>2 DEF RunTells, Story
  <2>10. Backed(r, p)'
    BY <2>3, <2>6, <2>7, <2>9, IssueBacks
  <2>11. Announced(r)'
    BY <1>5, <1>6, <2>1, NotCalling
  <2>12. Story(r)'
    BY <1>4, <1>6, <2>3, <2>10 DEF Story, Spending
  <2> QED
    BY <2>8, <2>11, <2>12 DEF Goes
<1>7. CASE b.step # "ticket"
  <2>1. UNCHANGED vars /\ b.step \in {"replay", "verify"} /\ (b.step = "replay" => a.last # NULL)
    BY <1>2, <1>7
  <2>2. Emit(r, << >>)
    BY <1>7
  <2>3. Grown(r) /\ Quiet(r)
    BY <1>1, <2>2, EmitNone, SameTrace DEF RunTells
  <2>4. phase'[r] = "idle"
    BY <1>5, <2>1 DEF vars, executorVars
  <2>5. Announced(r)' /\ CallFails(r)'
    BY <2>1, <2>4, NotCalling
  <2>6. Story(r)'
    BY <1>2, <1>4, <2>1, <2>5 DEF Story, LastGone, Before, Reading, Spending, Ticketing
  <2> QED
    BY <2>3, <2>5, <2>6 DEF Goes
<1> QED
    BY <1>6, <1>7

(* The call is announced before it is checked any further.                 *)
LEMMA PresentStory ==
    ASSUME Base, StoryInv, PermitsStay, VersionsGrow, NEW r \in Runs,
           \/ Present1(r) /\ Emit(r, CallEvents(r, agent[r].last.permit, agent[r].last.proposal))
           \/ Replay(r) /\ Emit(r, CallEvents(r, agent[r].last.permit, agent[r].last.proposal))
           \/ PresentTicket(r) /\ Emit(r, CallEvents(r, <<r, sequence[r]>>,
                                            TicketProposal(agent[r].proposal.order)))
    PROVE  Goes(r)
<1> DEFINE a == agent[r]
           b == agent'[r]
<1>1. /\ AgentInv /\ AgentKnown(r) /\ RunTells(r) /\ DOMAIN trace = Runs
      /\ TypeOK /\ PinInv
    BY DEF Base, Kept, AgentInv, StoryInv
<1>2. /\ b.last = a.last
      /\ sequence' = sequence
      /\ phase'[r] = "resolve"
      /\ answer'[r] = NULL
      /\ \/ a.step = "execute" /\ b.step = "executing"
         \/ a.step = "replay" /\ b.step = "replaying"
         \/ a.step = "ticket" /\ b.step = "ticketing"
    BY PresentDoes DEF SameAttempt, SameScript
<1>3. PICK p, proposal : /\ call'[r].permit = p
                         /\ Emit(r, CallEvents(r, p, proposal))
  <2>1. CASE Present1(r) /\ Emit(r, CallEvents(r, agent[r].last.permit, agent[r].last.proposal))
    <3>1. a.step = "execute"
      BY <2>1 DEF Present1
    <3> QED
      BY <2>1, <3>1, PresentDoes
  <2>2. CASE Replay(r) /\ Emit(r, CallEvents(r, agent[r].last.permit, agent[r].last.proposal))
    <3>1. a.step = "replay"
      BY <2>2 DEF Replay
    <3> QED
      BY <2>2, <3>1, PresentDoes
  <2>3. CASE PresentTicket(r) /\ Emit(r, CallEvents(r, <<r, sequence[r]>>,
                                            TicketProposal(agent[r].proposal.order)))
    <3>1. a.step = "ticket"
      BY <2>3 DEF PresentTicket
    <3> QED
      BY <2>3, <3>1, PresentDoes
  <2> QED
    BY <2>1, <2>2, <2>3
<1>4. PICK e : e = Event("mutation_attempted", VersionShown(p, proposal), NULL, p)
    OBVIOUS
<1>5. e.type = "mutation_attempted" /\ e.permit = p
    BY <1>4 DEF Event
<1>6. CallEvents(r, p, proposal) = <<e>>
  <2>1. AnswerEvents(r, proposal) = << >>
    BY <1>2 DEF AnswerEvents
  <2>2. CallEvents(r, p, proposal) = <<e>> \o << >>
    BY <1>4, <2>1 DEF CallEvents
  <2>3. <<e>> \in Seq({e})
    OBVIOUS
  <2> QED
    BY <2>2, <2>3, ConcatEmptySeq
<1>7. Adds(r, e)
  <2>1. Emit(r, <<e>>)
    BY <1>3, <1>6
  <2> QED
    BY <1>1, <2>1, EmitOne DEF RunTells, Adds
<1>8. Grown(r) /\ Quiet(r) /\ Longer(r) /\ NoReset(r)
    BY <1>5, <1>7, OneEvent DEF Adds, Grown, Resets
<1>9. Announced(r)'
    BY <1>2, <1>3, <1>5, <1>7 DEF Announced, Adds, Grown, Longer
<1>10. CallFails(r)'
    BY <1>2 DEF CallFails
<1>11. a.step \in Spending \cup {"replay"} => a.last.permit \in DOMAIN permits /\ LastKnown(r)
    BY KnowsLast DEF LastKnown
<1>12. a.step \in Ticketing => <<r, sequence[r]>> \in DOMAIN permits
    BY KnowsLast DEF TicketKnown
<1>13. Gone(r) /\ LastKnown(r) => Gone(r)'
    BY <1>1, <1>2, GoneStays
<1>14. \A q \in DOMAIN permits : Backed(r, q) => Backed(r, q)'
    BY <1>8, BackedStays
<1>15. Story(r)
    BY <1>1 DEF RunTells
<1>16. PICK last, ticket : last = a.last.permit /\ ticket = <<r, sequence[r]>>
    OBVIOUS
<1>17. last = b.last.permit /\ ticket = <<r, sequence'[r]>>
    BY <1>2, <1>16
<1>18. ASSUME a.step = "execute" /\ b.step = "executing" PROVE Story(r)'
  <2>1. Backed(r, last)
    BY <1>15, <1>16, <1>18 DEF Story, Spending
  <2>2. Backed(r, last)'
    BY <1>11, <1>14, <1>16, <1>18, <2>1 DEF Spending
  <2> QED
    BY <1>17, <1>18, <2>2 DEF Story, Before, Reading, Ticketing
<1>19. ASSUME a.step = "replay" /\ b.step = "replaying" PROVE Story(r)'
  <2>1. Backed(r, last) \/ Gone(r)
    BY <1>15, <1>16, <1>19 DEF Story
  <2>2. Backed(r, last)' \/ Gone(r)'
    BY <1>11, <1>13, <1>14, <1>16, <1>19, <2>1
  <2> QED
    BY <1>10, <1>17, <1>19, <2>2 DEF Story, Before, Reading, Spending, Ticketing
<1>20. ASSUME a.step = "ticket" /\ b.step = "ticketing" PROVE Story(r)'
  <2>1. Backed(r, ticket) /\ LastGone(r)
    BY <1>15, <1>16, <1>20 DEF Story, Ticketing
  <2>2. Backed(r, ticket)'
    BY <1>12, <1>14, <1>16, <1>20, <2>1 DEF Ticketing
  <2>3. LastGone(r)'
    BY <1>2, <1>13, <2>1, KnowsLast DEF LastGone
  <2> QED
    BY <1>17, <1>20, <2>2, <2>3 DEF Story, Spending
<1>21. Story(r)'
    BY <1>2, <1>18, <1>19, <1>20
<1> QED
    BY <1>8, <1>9, <1>21 DEF Goes

(* The call is over; what it answered decides where the run goes.          *)
LEMMA AfterExecuteStory ==
    ASSUME Base, CallInv, StoryInv, PermitsStay, NEW r \in Runs, AfterExecute(r), UNCHANGED trace
    PROVE  Goes(r)
<1> DEFINE a == agent[r]
           b == agent'[r]
           kind == answer[r].kind
<1>1. /\ AgentInv /\ AgentKnown(r) /\ RunTells(r) /\ DOMAIN trace = Runs /\ AnswerSound(r)
    BY DEF Base, AgentInv, StoryInv, CallInv
<1>2. /\ a.step = "executing" /\ phase[r] = "idle" /\ answer[r] # NULL
      /\ UNCHANGED vars
      /\ b.last = a.last
      /\ \/ b.step = "execute"
         \/ b.step = "crashed"
         \/ kind # "rejected" /\ b.step \in {"propose", "replay", "verify"}
         \/ b.step \in {"replay", "verify"}
         \/ answer[r].reason = "stale_resource_version" /\ b.step \in {"propose", "replay", "verify", "escalate"}
    BY <1>1, AfterExecuteDoes DEF AttemptEnds, StaleGoesOn, SameAttempt, SameScript
<1>3. Grown(r) /\ Quiet(r) /\ Longer(r) /\ NoReset(r)
    BY <1>1, EmitNone, SameTrace DEF RunTells
<1>4. phase'[r] = "idle"
    BY <1>2 DEF vars, executorVars
<1>5. Announced(r)' /\ CallFails(r)'
    BY <1>2, <1>4, NotCalling
<1>6. PICK p : p = a.last.permit /\ p = b.last.permit
    BY <1>2
<1>7. Backed(r, p) /\ p \in DOMAIN permits
    BY <1>1, <1>2, <1>6, KnowsLast DEF RunTells, Story, Spending, LastKnown
<1>8. Backed(r, p)'
    BY <1>3, <1>7, BackedStays
<1>9. \E d \in DOMAIN trace'[r] : DecidedAt(r, d)'
    BY <1>8 DEF Backed
<1>10. b.step \in {"propose", "escalate"} => Gone(r)
    BY <1>1, <1>2 DEF AnswerSound, Gone, RunTells, Announced
<1>11. b.step \in {"propose", "escalate"} => LastGone(r)'
    BY <1>2, <1>10, StillGone DEF LastGone
<1>12. Story(r)'
    BY <1>2, <1>6, <1>8, <1>9, <1>11 DEF Story, Before, Reading, Ticketing
<1> QED
    BY <1>3, <1>5, <1>12 DEF Goes

LEMMA AfterTicketStory ==
    ASSUME Base, StoryInv, NEW r \in Runs, AfterTicket(r), UNCHANGED trace
    PROVE  Goes(r)
<1> DEFINE a == agent[r]
           b == agent'[r]
<1>1. AgentInv /\ RunTells(r) /\ DOMAIN trace = Runs
    BY DEF Base, StoryInv
<1>2. /\ a.step = "ticketing" /\ phase[r] = "idle" /\ UNCHANGED vars
      /\ b.last = a.last
      /\ b.step \in {"crashed", "replay", "verify"}
      /\ b.step = "replay" => a.last # NULL
    BY <1>1, AfterTicketDoes DEF AttemptEnds, SameAttempt, SameScript
<1>3. Grown(r) /\ Quiet(r)
    BY <1>1, EmitNone, SameTrace DEF RunTells
<1>4. phase'[r] = "idle"
    BY <1>2 DEF vars, executorVars
<1>5. Announced(r)' /\ CallFails(r)'
    BY <1>2, <1>4, NotCalling
<1>6. LastGone(r) /\ (Gone(r)' <=> Gone(r))
    BY <1>1, <1>2, StillGone DEF RunTells, Story, Ticketing
<1>7. Story(r)'
    BY <1>2, <1>5, <1>6 DEF Story, LastGone, Before, Reading, Spending, Ticketing
<1> QED
    BY <1>3, <1>5, <1>7 DEF Goes

LEMMA AfterReplayStory ==
    ASSUME Base, StoryInv, NEW r \in Runs, AfterReplay(r), UNCHANGED trace
    PROVE  Goes(r)
<1>1. AgentInv /\ RunTells(r) /\ DOMAIN trace = Runs
    BY DEF Base, StoryInv
<1>2. phase[r] = "idle" /\ UNCHANGED vars /\ agent'[r].step \in {"crashed", "verify"}
    BY <1>1, AfterReplayDoes
<1>3. Grown(r) /\ Quiet(r)
    BY <1>1, EmitNone, SameTrace DEF RunTells
<1>4. phase'[r] = "idle"
    BY <1>2 DEF vars, executorVars
<1>5. Announced(r)'
    BY <1>2, <1>4, NotCalling
<1>6. Story(r)'
    BY <1>2 DEF Story, Before, Reading, Spending, Ticketing
<1> QED
    BY <1>3, <1>5, <1>6 DEF Goes

LEMMA VerifyStory ==
    ASSUME Base, StoryInv, NEW r \in Runs, Verify(r), Emit(r, FinalEvents(r))
    PROVE  Goes(r)
<1>1. AgentInv /\ AgentKnown(r) /\ RunTells(r) /\ DOMAIN trace = Runs
    BY DEF Base, AgentInv, StoryInv
<1>2. agent[r].step = "verify" /\ UNCHANGED vars /\ agent'[r].step = "finished"
    BY <1>1, VerifyDoes
<1>3. PICK e, f : /\ Emit(r, <<e, f>>)
                  /\ e.type = "state_verified" /\ f.type = "run_finished"
  <2>1. PICK version : version = IF agent[r].proposal # NULL
                                      /\ agent[r].proposal.order \in DOMAIN orders
                                   THEN orders[agent[r].proposal.order].version ELSE -1
    OBVIOUS
  <2>2. PICK e, f : /\ e = Event("state_verified", version, NULL, NULL)
                    /\ f = Event("run_finished", -1, agent[r].reason, NULL)
    OBVIOUS
  <2>3. Emit(r, <<e, f>>)
    BY <2>1, <2>2 DEF FinalEvents
  <2>4. e.type = "state_verified" /\ f.type = "run_finished"
    BY <2>2 DEF Event
  <2> QED
    BY <2>3, <2>4
<1>4. /\ Grown(r)
      /\ Len(trace'[r]) = Len(trace[r]) + 2
      /\ trace'[r][Len(trace[r]) + 1] = e
      /\ trace'[r][Len(trace[r]) + 2] = f
    BY <1>1, <1>3, EmitTwo DEF RunTells
<1>5. Quiet(r)
  <2>1. \A i \in News(r) : i = Len(trace[r]) + 1 \/ i = Len(trace[r]) + 2
    BY <1>4 DEF News, Grown, Longer
  <2> QED
    BY <1>3, <1>4, <2>1 DEF Quiet
<1>6. phase'[r] = "idle"
    BY <1>1, <1>2, NoCallOutside DEF vars, executorVars
<1>7. Announced(r)'
    BY <1>2, <1>6, NotCalling
<1>8. Story(r)'
    BY <1>2 DEF Story, Before, Reading, Spending, Ticketing
<1> QED
    BY <1>4, <1>5, <1>7, <1>8 DEF Goes

-----------------------------------------------------------------------------
(* The steps of a call.                                                    *)

(* A call that ends says so with one event.                                *)
CallOver(r) ==
    LET a == answer'[r]
    IN  /\ phase'[r] = "idle"
        /\ Answers(r)
        /\ a.permit = call[r].permit
        /\ a.kind \in {"committed", "lost", "replayed", "rejected"}
        /\ a.kind \in {"committed", "lost"} => phase[r] = "respond"

(* A call that goes on is one step further.                                *)
CallFurther(r) ==
    /\ answer'[r] = answer[r]
    /\ call'[r].permit = call[r].permit
    /\ \/ Resolve(r) /\ phase'[r] = "lookup"
       \/ /\ phase[r] = "lookup" /\ phase'[r] = "commit"
          /\ FirstFailedCheck(call[r].row, call[r].proposal, call[r].target) = NULL
          /\ call[r].row.key \notin DOMAIN records
       \/ phase[r] = "commit" /\ phase'[r] = "respond"

LEMMA CallTells ==
    ASSUME Base, NEW r \in Runs, CallSound(r), CallStep(r)
    PROVE  CallOver(r) \/ CallFurther(r)
<1>1. TypeOK /\ phase[r] # "idle"
    BY CallGoesOn DEF Base, Kept
<1>2. CASE Resolve(r)
  <2>1. \/ CallEnds(r, "rejected", "permit_resource_mismatch", NULL)
        \/ CallEnds(r, "rejected", "permit_expired", NULL)
        \/ /\ phase'[r] = "lookup" /\ call'[r].permit = call[r].permit
           /\ answer'[r] = answer[r]
    BY <1>1, <1>2, ResolveDoes
  <2>2. phase'[r] = "idle" => Answers(r)
    BY <1>2, ResolveAnswers
  <2>3. phase'[r] = "lookup" => CallFurther(r)
    BY <1>2, <2>1 DEF CallFurther, CallEnds
  <2> QED
    BY <2>1, <2>2, <2>3 DEF CallEnds, Answer, CallOver
<1>3. CASE Lookup(r)
  <2> DEFINE failed == FirstFailedCheck(call[r].row, call[r].proposal, call[r].target)
             result == records[call[r].row.key]
  <2>1. /\ phase[r] = "lookup"
        /\ \/ CallEnds(r, "replayed", "idempotent_replay", result)
           \/ CallEnds(r, "rejected", failed, NULL)
           \/ /\ failed = NULL
              /\ call[r].row.key \notin DOMAIN records
              /\ phase'[r] = "commit" /\ call'[r] = call[r] /\ answer'[r] = answer[r]
    BY <1>1, <1>3, LookupDoes
  <2>2. phase'[r] = "idle" => Answers(r)
    BY <1>3, LookupAnswersSound
  <2>3. phase'[r] = "commit" => CallFurther(r)
    BY <2>1 DEF CallFurther, CallEnds
  <2> HIDE DEF failed, result
  <2> QED
    BY <2>1, <2>2, <2>3 DEF CallEnds, Answer, CallOver
<1>4. CASE Commit(r)
  <2>1. phase[r] = "commit" /\ phase'[r] = "respond" /\ answer'[r] = answer[r]
    BY <1>4, CommitAnswers
  <2>2. call'[r].permit = call[r].permit
    BY <1>1, <2>1, CallGoesOn
  <2> QED
    BY <2>1, <2>2 DEF CallFurther
<1>5. CASE CommitStale(r)
  <2>1. CallEnds(r, "rejected", "stale_resource_version", NULL)
    BY <1>1, <1>5, FinishEnds DEF CommitStale, Reject
  <2> QED
    BY <1>5, <2>1, EndAnswers DEF CallEnds, Answer, CallOver
<1>6. CASE Respond(r)
  <2> DEFINE result == ResultOf(call[r].permit, call[r].row, call[r].proposal)
  <2>1. /\ phase[r] = "respond"
        /\ CallEnds(r, "committed", NULL, result) \/ CallEnds(r, "lost", NULL, result)
    BY <1>1, <1>6, FinishEnds DEF Respond
  <2> HIDE DEF result
  <2> QED
    BY <1>6, <2>1, EndAnswers DEF CallEnds, Answer, CallOver
<1>7. ~CommitConflict(r)
    BY NoKeyIsTaken
<1> QED
    BY <1>2, <1>3, <1>4, <1>5, <1>6, <1>7 DEF CallStep

(* The permit of a call is backed, unless it is a replay that fails.       *)
LEMMA CallIsBacked ==
    ASSUME Base, NEW r \in Runs, Story(r), phase[r] # "idle"
    PROVE  \/ Backed(r, call[r].permit)
           \/ agent[r].step = "replaying" /\ Gone(r) /\ CallFails(r)
<1>1. CallOwned(r)
    BY DEF Base, AgentInv, AgentKnown
<1> QED
    BY <1>1 DEF CallOwned, Story, Spending, Ticketing

(* One that is refused as stale has been left behind.                      *)
LEMMA StaleIsGone ==
    ASSUME Base, NEW r \in Runs, CallSound(r), CallDates(r), CallStep(r),
           agent[r].step = "executing", phase'[r] = "idle", Answers(r),
           answer'[r].reason = "stale_resource_version"
    PROVE  Gone(r)
<1>1. answer'[r].kind = "rejected"
    BY DEF Answers
<1>2. VersionOf(call[r].proposal.action, call[r].proposal.order) > permits[call[r].permit].version
    BY <1>1, StaleIsOutdated
<1>3. phase[r] # "idle"
    BY CallGoesOn DEF Base, Kept
<1>4. call[r].permit = agent[r].last.permit /\ call[r].proposal = agent[r].last.proposal
    BY <1>3 DEF Base, AgentInv, AgentKnown, CallOwned
<1> QED
    BY <1>2, <1>4 DEF Gone

(* A replay that fails keeps failing.                                      *)
LEMMA FailsStill ==
    ASSUME Base, PermitsStay, NEW r \in Runs, CallDates(r), CallStep(r),
           agent[r].step = "replaying", Gone(r), CallFails(r), CallFurther(r)
    PROVE  CallFails(r)'
<1>1. TypeOK /\ LedgerInv /\ phase[r] # "idle"
    BY CallGoesOn DEF Base, Kept
<1>2. /\ call[r].permit = agent[r].last.permit
      /\ call[r].proposal = agent[r].last.proposal
    BY <1>1 DEF Base, AgentInv, AgentKnown, CallOwned
<1>3. PICK p : p = call[r].permit /\ p = call'[r].permit
    BY DEF CallFurther
<1>4. p \in DOMAIN permits /\ call[r].row.key = permits[p].key
    BY <1>1, <1>3, CallIs
<1>5. CASE Resolve(r) /\ phase'[r] = "lookup"
  <2>1. CASE permits[p].used
    BY <1>3, <1>4, <1>5, <2>1 DEF CallFails, PermitsStay
  <2>2. CASE ~permits[p].used
    <3>1. Dead(call[r].permit, call[r].proposal)
      BY <1>2, <1>3, <2>2 DEF Gone, Dead
    <3>2. FirstFailedCheck(call'[r].row, call'[r].proposal, call'[r].target) # NULL
      BY <1>5, <3>1, DeadIsRejected
    <3> QED
      BY <1>5, <3>2 DEF CallFails
  <2> QED
    BY <2>1, <2>2
<1>6. ~(phase[r] = "lookup" /\ phase'[r] = "commit")
  <2>1. permits[p].used => permits[p].key \in DOMAIN records
    BY <1>1, <1>4, WrittenIsUsed
  <2> QED
    BY <1>3, <1>4, <2>1 DEF CallFails, CallFurther, Resolve
<1> QED
    BY <1>5, <1>6 DEF CallFurther, CallFails

(* What the event of a call that is over tells.                            *)
LEMMA CommittedTells ==
    ASSUME NEW r \in Runs, IsTrace(trace[r]), NEW e, Adds(r, e), PermitsStay,
           NEW p \in DOMAIN permits, Backed(r, p),
           e.type = "mutation_committed", e.permit = p,
           Len(trace[r]) > 0, trace[r][Len(trace[r])].type = "mutation_attempted",
           trace[r][Len(trace[r])].permit = p,
           NEW n, n = Len(trace[r]) + 1
    PROVE  Explained(r, n)'
<1>1. PICK m : m = Len(trace[r])
    OBVIOUS
<1>2. /\ m \in Nat /\ m > 0
      /\ DOMAIN trace[r] = 1..m
      /\ \A i \in 1..m : trace'[r][i] = trace[r][i]
      /\ trace'[r][m + 1] = e
    BY <1>1, TraceIs DEF Adds, Grown, Longer
<1>3. PICK d \in DOMAIN trace[r], i \in DOMAIN trace[r] :
        /\ d < i
        /\ DecidedAt(r, d)
        /\ trace[r][i].type = "permit_issued"
        /\ trace[r][i].permit = p
        /\ permits[p].action # "create_support_ticket" =>
                trace[r][i].version = trace[r][d].version
    BY DEF Backed
<1>4. trace[r][d].type = "policy_allowed" /\ \A k \in d..m : trace[r][k].type \notin Resets
    BY <1>1, <1>3 DEF DecidedAt
<1>5. n = m + 1
    BY <1>1
<1>6. /\ i \in 1..m /\ d \in 1..m /\ m \in 1..m
      /\ i \in 1..(n - 1) /\ d \in 1..(i - 1) /\ n - 1 = m
      /\ \A k \in d..n : (k \in d..m /\ k \in 1..m) \/ k = n
    BY <1>2, <1>3, <1>5
<1>7. trace'[r][i] = trace[r][i] /\ trace'[r][d] = trace[r][d] /\ trace'[r][m] = trace[r][m]
    BY <1>2, <1>6
<1>8. \A k \in d..n : trace'[r][k].type \notin Resets
    BY <1>2, <1>4, <1>5, <1>6 DEF Resets
<1>9. permits'[p].action = permits[p].action
    BY DEF PermitsStay
<1>10. /\ trace'[r][n] = e /\ trace'[r][n - 1] = trace[r][m]
       /\ trace[r][m].type = "mutation_attempted" /\ trace[r][m].permit = p
    BY <1>1, <1>2, <1>5, <1>6, <1>7
<1>11. ExplainedBy(r, n, i, d)'
    BY <1>3, <1>4, <1>7, <1>8, <1>9, <1>10, Zenon DEF ExplainedBy
<1> QED
    BY <1>6, <1>11 DEF Explained

LEMMA StaleIsShown ==
    ASSUME Base, NEW r \in Runs, CallSound(r), CallDates(r), CallStep(r),
           phase'[r] = "idle", answer'[r].kind = "rejected",
           answer'[r].reason = "stale_resource_version"
    PROVE  VersionShown(call[r].permit, call[r].proposal) > permits[call[r].permit].version
<1> DEFINE proposal == call[r].proposal
<1>1. TypeOK /\ phase[r] # "idle"
    BY CallGoesOn DEF Base, Kept
<1>2. proposal \in Asked /\ Pinned(proposal.action, proposal.order, call[r].row.version, call[r].row.max)
    BY <1>1, CallIs
<1>3. ResolveTarget(proposal) # NULL
    BY <1>1, <1>2, TargetIsThere
<1>4. VersionOf(proposal.action, proposal.order) > permits[call[r].permit].version
    BY StaleIsOutdated
<1>5. ResolveTarget(proposal).version = VersionOf(proposal.action, proposal.order)
    BY <1>3 DEF ResolveTarget, VersionOf
<1> QED
    BY <1>3, <1>4, <1>5 DEF VersionShown

(* A step of a call goes on with the story, and what it writes is true.    *)
LEMMA CallStory ==
    ASSUME Base, CallInv, StoryInv, PermitsStay, VersionsGrow, NEW r \in Runs,
           CallStep(r), UNCHANGED agent, Emit(r, AnswerEvents(r, call[r].proposal))
    PROVE  /\ Grown(r)
           /\ \A i \in News(r) : EventTells(r, i)'
           /\ Story(r)'
           /\ Announced(r)'
<1> DEFINE a == agent[r]
<1>1. /\ TypeOK /\ PinInv /\ DOMAIN trace = Runs /\ RunTells(r)
      /\ CallDates(r) /\ CallSound(r)
    BY DEF Base, Kept, CallInv, StoryInv
<1>2. phase[r] # "idle" /\ sequence' = sequence
    BY <1>1, CallGoesOn
<1>3. PICK p : p = call[r].permit
    OBVIOUS
<1>4. p \in DOMAIN permits
    BY <1>2, <1>3, CallIs
<1>5. CallOver(r) \/ CallFurther(r)
    BY <1>1, CallTells
<1>6. Backed(r, p) \/ (a.step = "replaying" /\ Gone(r) /\ CallFails(r))
    BY <1>1, <1>2, <1>3, CallIsBacked DEF RunTells
<1>7. /\ Len(trace[r]) > 0
      /\ trace[r][Len(trace[r])].type = "mutation_attempted"
      /\ trace[r][Len(trace[r])].permit = p
    BY <1>1, <1>2, <1>3 DEF RunTells, Announced
<1>8. CASE CallFurther(r)
  <2>1. phase'[r] # "idle"
    BY <1>8 DEF CallFurther
  <2>2. Emit(r, << >>)
    BY <2>1 DEF AnswerEvents
  <2>3. Grown(r) /\ trace'[r] = trace[r] /\ News(r) = {}
    <3>1. Grown(r) /\ trace'[r] = trace[r]
      BY <1>1, <2>2, EmitNone DEF RunTells
    <3> QED
      BY <3>1 DEF News, Grown, Longer
  <2>4. Longer(r) /\ NoReset(r)
    BY <2>3 DEF Grown, NoReset
  <2>5. Announced(r)'
    <3>1. /\ answer'[r] = answer[r] /\ agent'[r] = agent[r]
          /\ call'[r].permit = p
          /\ Gone(r) /\ a.step = "executing" => Gone(r)'
      BY <1>1, <1>3, <1>8, KnowsLast, GoneStays DEF CallFurther, Spending
    <3> QED
      BY <1>1, <1>7, <2>3, <3>1 DEF RunTells, Announced
  <2>6. Story(r)'
    <3>1. a.step \in {"replay", "replaying"} /\ Gone(r) /\ CallFails(r) => CallFails(r)'
      <4>1. a.step # "replay"
        BY <1>2, KnowsLast
      <4> QED
        BY <1>1, <1>8, <4>1, FailsStill
    <3> QED
      BY <1>1, <1>2, <2>4, <3>1, StoryGoesOn DEF RunTells
  <2> QED
    BY <2>3, <2>5, <2>6
<1>9. CASE CallOver(r)
  <2>1. PICK e : e = Event(AnswerEvent(answer'[r].kind),
                           VersionShown(answer'[r].permit, call[r].proposal),
                           IF answer'[r].kind \in {"rejected", "replayed"}
                             THEN answer'[r].reason ELSE NULL,
                           answer'[r].permit)
    OBVIOUS
  <2>2. AnswerEvents(r, call[r].proposal) = <<e>>
    BY <1>9, <2>1 DEF AnswerEvents, CallOver
  <2>3. Adds(r, e)
    <3>1. Emit(r, <<e>>)
      BY <2>2
    <3> QED
      BY <1>1, <3>1, EmitOne DEF RunTells, Adds
  <2>4. /\ e.permit = p
        /\ e.version = VersionShown(p, call[r].proposal)
        /\ e.type = AnswerEvent(answer'[r].kind)
        /\ answer'[r].kind = "rejected" => e.reason = answer'[r].reason
    BY <1>3, <1>9, <2>1 DEF Event, CallOver
  <2>5. /\ e.type \in {"mutation_committed", "mutation_replayed", "mutation_rejected"}
        /\ e.type = "mutation_committed" => phase[r] = "respond"
        /\ e.type = "mutation_rejected" => answer'[r].kind = "rejected"
    BY <1>9, <2>4 DEF AnswerEvent, CallOver
  <2>6. Grown(r) /\ Longer(r) /\ NoReset(r)
    BY <2>3, <2>5, OneEvent DEF Adds, Grown, Resets
  <2>7. \A i \in News(r) : EventTells(r, i)'
    <3> SUFFICES ASSUME NEW i \in News(r) PROVE EventTells(r, i)'
      OBVIOUS
    <3>1. i = Len(trace[r]) + 1 /\ trace'[r][i] = e
      BY <2>3, OneEvent DEF Adds
    <3>2. p \in DOMAIN permits' /\ permits'[p].version = permits[p].version
      BY <1>4 DEF PermitsStay
    <3>3. e.type = "mutation_committed" => Explained(r, i)'
      <4>1. e.type = "mutation_committed" => Backed(r, p)
        BY <1>6, <2>5 DEF CallFails
      <4> QED
        BY <1>1, <1>4, <1>7, <2>3, <2>4, <3>1, <4>1, CommittedTells DEF RunTells
    <3>4. e.type = "mutation_rejected" => ShowsTheMove(e)'
      <4> SUFFICES ASSUME e.type = "mutation_rejected", e.reason = "stale_resource_version"
                   PROVE  e.version > permits'[e.permit].version
        BY DEF ShowsTheMove
      <4>1. VersionShown(p, call[r].proposal) > permits[p].version
        BY <1>1, <1>3, <1>9, <2>4, <2>5, StaleIsShown DEF CallOver
      <4> QED
        BY <2>4, <3>2, <4>1
    <3> QED
      BY <2>4, <3>1, <3>2, <3>3, <3>4 DEF EventTells
  <2>8. Announced(r)'
    <3>1. a.step = "executing" /\ answer'[r].reason = "stale_resource_version" => Gone(r)
      BY <1>1, <1>9, StaleIsGone DEF CallOver
    <3>2. Gone(r) /\ a.step = "executing" => Gone(r)'
      BY <1>1, KnowsLast, GoneStays DEF Spending
    <3> QED
      BY <1>9, <3>1, <3>2 DEF Announced, CallOver
  <2>9. Story(r)'
    <3>1. CallFails(r)'
      BY <1>9 DEF CallFails, CallOver
    <3> QED
      BY <1>1, <1>2, <2>6, <3>1, StoryGoesOn DEF RunTells
  <2> QED
    BY <2>6, <2>7, <2>8, <2>9
<1> QED
    BY <1>5, <1>8, <1>9

-----------------------------------------------------------------------------
(* The story holds.                                                        *)

LEMMA AuditIsRun ==
    ASSUME [AuditNext]_auditVars
    PROVE  [RunnerNext]_runnerVars
<1>1. ASSUME NEW r \in Runs, AuditStep(r) PROVE RunStep(r)
    BY <1>1 DEF AuditStep, RunStep
<1> QED
    BY <1>1 DEF AuditNext, RunnerNext, auditVars

(* What r does outside a call: it writes no row, and ends no call.         *)
Rests(r) ==
    /\ phase[r] = "idle"
    /\ phase'[r] # "respond"
    /\ UNCHANGED mutation_log

LEMMA OutsideCalls ==
    ASSUME Base, NEW r \in Runs,
           \/ Propose(r) \/ ReadRecord(r) \/ Decide(r) \/ Authorise(r) \/ Present1(r)
           \/ AfterExecute(r) \/ BeginEscalation(r) \/ PresentTicket(r) \/ AfterTicket(r)
           \/ Replay(r) \/ AfterReplay(r) \/ Verify(r)
    PROVE  Rests(r)
<1>1. TypeOK /\ AgentInv
    BY DEF Base, Kept
<1>2. phase[r] # "idle" => agent[r].step \in {"executing", "ticketing", "replaying"}
    BY KnowsLast
<1>3. CASE AfterExecute(r) \/ AfterTicket(r) \/ AfterReplay(r)
    BY <1>3 DEF AfterExecute, AfterTicket, AfterReplay, Answered, Rests, vars, executorVars,
                storeVars, ledgerVars
<1>4. CASE Propose(r) \/ ReadRecord(r) \/ Decide(r) \/ Verify(r)
  <2>1. agent[r].step \notin {"executing", "ticketing", "replaying"}
    BY <1>4 DEF Propose, ReadRecord, Read, Decide, Verify
  <2>2. UNCHANGED vars
    BY <1>4 DEF Propose, ReadRecord, Read, Decide, Verify
  <2> QED
    BY <1>2, <2>1, <2>2 DEF Rests, vars, executorVars, storeVars, ledgerVars
<1>5. CASE Authorise(r) \/ BeginEscalation(r)
  <2>1. agent[r].step \notin {"executing", "ticketing", "replaying"}
    BY <1>5 DEF Authorise, BeginEscalation
  <2>2. UNCHANGED <<phase, mutation_log>>
    BY <1>5 DEF Authorise, BeginEscalation, IssuePermit, vars, executorVars, storeVars, ledgerVars
  <2> QED
    BY <1>2, <2>1, <2>2 DEF Rests
<1>6. CASE Present1(r) \/ PresentTicket(r) \/ Replay(r)
  <2>1. PICK p, proposal : Load(r, p, proposal)
    BY <1>6 DEF Present1, PresentTicket, Replay, Execute
  <2>2. UNCHANGED mutation_log
    BY <2>1 DEF Load, storeVars, ledgerVars
  <2>3. phase[r] = "idle" /\ phase'[r] \in {"idle", "resolve"}
    BY <1>1, <2>1 DEF Load, GoTo, TypeOK
  <2> QED
    BY <2>2, <2>3 DEF Rests
<1> QED
    BY <1>3, <1>4, <1>5, <1>6

(* A step of r goes on with its story quietly, or is one of its call.      *)
LEMMA StepGoes ==
    ASSUME Base, CallInv, StoryInv, PermitsStay, VersionsGrow, NEW r \in Runs, AuditStep(r)
    PROVE  \/ Goes(r) /\ Rests(r)
           \/ CallStep(r) /\ UNCHANGED agent /\ Emit(r, AnswerEvents(r, call[r].proposal))
<1>1. CASE Propose(r) /\ Emit(r, ProposalEvents(r))
    BY <1>1, ProposeStory, OutsideCalls
<1>2. CASE ReadRecord(r) /\ UNCHANGED trace
    BY <1>2, ReadStory, OutsideCalls
<1>3. CASE Decide(r) /\ Emit(r, DecisionEvents(r))
    BY <1>3, DecideStory, OutsideCalls
<1>4. CASE Authorise(r) /\ Emit(r, PermitEvents(r, agent[r].verdict.reason))
    BY <1>4, AuthoriseStory, OutsideCalls
<1>5. CASE \/ Present1(r)
              /\ Emit(r, CallEvents(r, agent[r].last.permit, agent[r].last.proposal))
           \/ Replay(r)
              /\ Emit(r, CallEvents(r, agent[r].last.permit, agent[r].last.proposal))
           \/ PresentTicket(r)
              /\ Emit(r, CallEvents(r, <<r, sequence[r]>>,
                                    TicketProposal(agent[r].proposal.order)))
    BY <1>5, PresentStory, OutsideCalls
<1>6. CASE AfterExecute(r) /\ UNCHANGED trace
    BY <1>6, AfterExecuteStory, OutsideCalls
<1>7. CASE /\ BeginEscalation(r)
           /\ Emit(r, IF agent'[r].step = "ticket"
                        THEN PermitEvents(r, agent[r].reason) ELSE << >>)
    BY <1>7, EscalateStory, OutsideCalls
<1>8. CASE AfterTicket(r) /\ UNCHANGED trace
    BY <1>8, AfterTicketStory, OutsideCalls
<1>9. CASE AfterReplay(r) /\ UNCHANGED trace
    BY <1>9, AfterReplayStory, OutsideCalls
<1>10. CASE Verify(r) /\ Emit(r, FinalEvents(r))
    BY <1>10, VerifyStory, OutsideCalls
<1>11. CASE CallStep(r) /\ UNCHANGED agent /\ Emit(r, AnswerEvents(r, call[r].proposal))
    BY <1>11
<1> QED
    BY <1>1, <1>2, <1>3, <1>4, <1>5, <1>6, <1>7, <1>8, <1>9, <1>10, <1>11 DEF AuditStep

LEMMA RunGoesOn ==
    ASSUME Base, CallInv, StoryInv, NEW r \in Runs, AuditStep(r)
    PROVE  Grown(r) /\ RunTells(r)'
<1>1. [RunnerNext]_runnerVars
    BY AuditIsRun DEF AuditNext
<1>2. PermitsStay /\ VersionsGrow
    BY <1>1, StepKeeps
<1>3. RunTells(r)
    BY DEF StoryInv
<1>4. Grown(r) /\ (\A i \in News(r) : EventTells(r, i)') /\ Story(r)' /\ Announced(r)'
  <2>1. CASE Goes(r)
    BY <2>1, QuietTells DEF Goes
  <2>2. CASE CallStep(r) /\ UNCHANGED agent /\ Emit(r, AnswerEvents(r, call[r].proposal))
    BY <1>2, <2>2, CallStory
  <2> QED
    BY <1>2, <2>1, <2>2, StepGoes
<1>5. Longer(r) /\ IsTrace(trace[r])'
    BY <1>4 DEF Grown, Longer
<1>6. (\A i \in DOMAIN trace[r] : EventTells(r, i))'
    BY <1>2, <1>3, <1>4, <1>5, TellsOn DEF RunTells
<1> QED
    BY <1>4, <1>5, <1>6 DEF RunTells

LEMMA StoryInvNext ==
    ASSUME Base, CallInv, StoryInv, [AuditNext]_auditVars
    PROVE  StoryInv'
<1>1. [RunnerNext]_runnerVars
    BY AuditIsRun
<1>2. PermitsStay /\ VersionsGrow
    BY <1>1, StepKeeps
<1>3. DOMAIN trace = Runs /\ \A q \in Runs : CallDates(q) /\ RunTells(q)
    BY DEF StoryInv
<1>4. \A q \in Runs : CallDates(q)'
    BY <1>1, <1>3, CallDatesNext
<1>5. CASE \E r \in Runs : AuditStep(r)
  <2>1. PICK r \in Runs : AuditStep(r)
    BY <1>5
  <2>2. Grown(r) /\ RunTells(r)'
    BY <2>1, RunGoesOn
  <2>3. RunStep(r)
    BY <2>1 DEF AuditStep, RunStep
  <2>4. ASSUME NEW q \in Runs \ {r} PROVE RunTells(q)'
    <3>1. trace'[q] = trace[q]
      BY <2>2 DEF Grown
    <3> QED
      BY <1>2, <1>3, <2>3, <3>1, OthersKeepStill, StoryStays
  <2> QED
    BY <1>4, <2>2, <2>4 DEF StoryInv, Grown
<1>6. CASE (WorldStep /\ UNCHANGED <<executorVars, agent, trace>>) \/ UNCHANGED auditVars
  <2>1. UNCHANGED <<agent, phase, call, answer, sequence, trace>>
    BY <1>6 DEF auditVars, runnerVars, vars, executorVars
  <2>2. \A q \in Runs : RunTells(q)'
    BY <1>2, <1>3, <2>1, StoryStays
  <2> QED
    BY <1>3, <1>4, <2>1, <2>2 DEF StoryInv
<1> QED
    BY <1>5, <1>6 DEF AuditNext

LEMMA StoryInvInit == AuditInit => StoryInv
<1> SUFFICES ASSUME AuditInit PROVE StoryInv
    OBVIOUS
<1>1. PICK e : e = Plain("user_request_received")
    OBVIOUS
<1>2. e.type = "user_request_received"
    BY <1>1 DEF Plain, Event
<1>3. DOMAIN trace = Runs /\ \A r \in Runs : trace[r] = <<e>>
    BY <1>1 DEF AuditInit
<1> SUFFICES ASSUME NEW r \in Runs PROVE CallDates(r) /\ RunTells(r)
    BY <1>3 DEF StoryInv
<1>4. phase[r] = "idle" /\ agent[r].step = "propose" /\ agent[r].last = NULL
    BY DEF AuditInit, RunnerInit, Init, ExecutorInit, Fresh
<1>5. IsTrace(trace[r]) /\ \A i \in DOMAIN trace[r] : trace[r][i] = e
    BY <1>3 DEF IsTrace
<1>6. Story(r) /\ Announced(r) /\ CallDates(r)
    BY <1>4 DEF Story, LastGone, Announced, CallDates, Spending, Ticketing
<1>7. \A i \in DOMAIN trace[r] : EventTells(r, i)
    BY <1>2, <1>5 DEF EventTells
<1> QED
    BY <1>5, <1>6, <1>7 DEF RunTells

LEMMA StoryHolds == AuditSpec => []StoryInv
<1>1. AuditInit => RunnerInit
    BY DEF AuditInit
<1>2. [AuditNext]_auditVars => [RunnerNext]_runnerVars
    BY AuditIsRun
<1>3. AuditSpec => RunnerSpec
    BY <1>1, <1>2, PTL DEF AuditSpec, RunnerSpec
<1>4. Base /\ CallInv /\ StoryInv /\ [AuditNext]_auditVars => StoryInv'
    BY StoryInvNext
<1> QED
    BY <1>3, <1>4, StoryInvInit, CallInvHolds, PTL DEF AuditSpec

(* Every mutation_committed event of a run is explained by the trace that  *)
(* precedes it: in the same attempt the policy allowed it, then a permit   *)
(* was issued for the version the policy decided on, then it was attempted *)
(* (audit.py:3-5; the emit calls of runner.py and executor.py), whatever   *)
(* else runs, is edited, retried, replayed, replanned or chained.          *)
THEOREM MutationsAreExplained == AuditSpec => []MutationIsExplained
<1>1. StoryInv => MutationIsExplained
  <2> SUFFICES ASSUME StoryInv, NEW r \in Runs, NEW i \in DOMAIN trace[r],
                      trace[r][i].type = "mutation_committed"
               PROVE  \E issued \in 1..(i - 1) : \E decided \in 1..(issued - 1) :
                        /\ trace[r][issued].type = "permit_issued"
                        /\ trace[r][issued].permit = trace[r][i].permit
                        /\ trace[r][decided].type = "policy_allowed"
                        /\ permits[trace[r][i].permit].action # "create_support_ticket" =>
                                trace[r][issued].version = trace[r][decided].version
                        /\ trace[r][i - 1].type = "mutation_attempted"
                        /\ trace[r][i - 1].permit = trace[r][i].permit
                        /\ \A k \in decided..i : trace[r][k].type \notin
                                {"proposal_created", "policy_denied", "proposal_rejected"}
    BY DEF MutationIsExplained
  <2>1. Explained(r, i)
    BY DEF StoryInv, RunTells, EventTells
  <2> QED
    BY <2>1 DEF Explained, ExplainedBy, Resets
<1> QED
    BY <1>1, StoryHolds, PTL

(* A write that is refused as stale shows in the trace a later version     *)
(* than the one its permit pins, at whichever of its two checks the        *)
(* executor found it stale (executor.py _emit, README:488-494).            *)
THEOREM StaleIsTold == AuditSpec => []StaleShowsTheMove
<1>1. StoryInv => StaleShowsTheMove
    BY DEF StoryInv, RunTells, EventTells, ShowsTheMove, StaleShowsTheMove
<1> QED
    BY <1>1, StoryHolds, PTL

-----------------------------------------------------------------------------
(* Scenarios.                                                              *)

LEMMA ScenarioIsAudit ==
    ASSUME [ScenarioNext]_scenarioVars
    PROVE  [AuditNext]_auditVars
<1>1. ASSUME NEW r \in Runs, AuditStep(r) PROVE AuditNext
    BY <1>1 DEF AuditNext
<1>2. ASSUME NEW r \in Runs, ApplyChange(r) PROVE [AuditNext]_auditVars
  <2>1. CASE UNCHANGED <<storeVars, executorVars, agent, trace>>
    BY <2>1 DEF auditVars, runnerVars, vars
  <2>2. CASE WorldStep /\ UNCHANGED <<executorVars, agent, trace>>
    BY <2>2 DEF AuditNext
  <2> QED
    BY <1>2, <2>1, <2>2 DEF ApplyChange, WorldStep
<1>3. ASSUME NEW r \in Runs, ScenarioStep(r) PROVE [AuditNext]_auditVars
    BY <1>1, <1>2, <1>3
    DEF ScenarioStep, RetryRead, EndRead, PassChecks, Write, Deliver, Undisturbed
<1>4. CASE Tick /\ UNCHANGED <<executorVars, agent, trace, injector>>
    BY <1>4 DEF AuditNext, WorldStep
<1>5. CASE UNCHANGED scenarioVars
    BY <1>5 DEF scenarioVars
<1> QED
    BY <1>3, <1>4, <1>5 DEF ScenarioNext

LEMMA ScenarioIsRun == ScenarioSpec => AuditSpec /\ RunnerSpec
<1>1. ScenarioInit => AuditInit /\ RunnerInit
    BY DEF ScenarioInit, AuditInit
<1>2. [ScenarioNext]_scenarioVars => [AuditNext]_auditVars
    BY ScenarioIsAudit
<1>3. [AuditNext]_auditVars => [RunnerNext]_runnerVars
    BY AuditIsRun
<1> QED
    BY <1>1, <1>2, <1>3, PTL DEF ScenarioSpec, AuditSpec, RunnerSpec

(* An evaluation scenario is a run among the runs of Runner, with a trace  *)
(* that Audit allows: the failure injector (failures.py, read_tools.py)    *)
(* only takes freedom away, so what is proved of every run holds of it.    *)
THEOREM ScenariosTellTheirStory ==
    ScenarioSpec => [](MutationIsExplained /\ StaleShowsTheMove)
<1> QED
    BY ScenarioIsRun, MutationsAreExplained, StaleIsTold, PTL

(* A spent permit for a ticket has its ticket.                             *)
LEMMA TicketIsThere ==
    ASSUME LedgerInv, NEW p \in DOMAIN permits, permits[p].used,
           permits[p].action = "create_support_ticket"
    PROVE  p \in DOMAIN tickets
<1>1. /\ \A q \in DOMAIN permits : permits[q].used =>
            \E i \in DOMAIN mutation_log : mutation_log[i].by = q
      /\ \A i \in DOMAIN mutation_log : mutation_log[i].action = "create_support_ticket" =>
            mutation_log[i].by \in DOMAIN tickets
    BY DEF LedgerInv, LedgerAgrees
<1>2. \A i \in DOMAIN mutation_log : mutation_log[i].action = permits[mutation_log[i].by].action
    BY DEF LedgerInv, EveryRowIsAuthorised
<1> QED
    BY <1>1, <1>2

(* A run that ends with an exception was opening the ticket of an          *)
(* escalation, and the ticket is there: every other lost response is       *)
(* retried, and the retry of a write is answered from its record           *)
(* (runner.py:235-242, 277-310; executor.py:89-96).                        *)
THEOREM OnlyTicketsAreLost ==
    ASSUME ~SilentEdits
    PROVE  ScenarioSpec => []CrashOnlyLosesTicket
<1>1. Base /\ LossInv => CrashOnlyLosesTicket
  <2> SUFFICES ASSUME Base, LossInv, NEW r \in Runs, agent[r].step = "crashed"
               PROVE  /\ answer[r].kind = "lost"
                      /\ answer[r].permit \in DOMAIN tickets
                      /\ agent[r].last # NULL => answer[r].permit # agent[r].last.permit
    BY DEF CrashOnlyLosesTicket
  <2>1. CrashTold(r)
    BY DEF LossInv, Fate
  <2>2. /\ answer[r].kind = "lost"
        /\ answer[r].permit \in DOMAIN permits
        /\ permits[answer[r].permit].used
        /\ permits[answer[r].permit].action = "create_support_ticket"
        /\ agent[r].last # NULL => answer[r].permit # agent[r].last.permit
    BY <2>1 DEF CrashTold, TicketKnown, TicketSpent
  <2> QED
    BY <2>2, TicketIsThere DEF Base, Kept
<1> QED
    BY <1>1, ScenarioIsRun, LossInvHolds, PTL

(* An escalated run whose ticket is not there: it was given up for the     *)
(* order's version, for its permit does not expire.                        *)
LEMMA TicketOutdated ==
    ASSUME MaxNow <= PermitTTL, Base, LossInv, NEW r \in Runs,
           agent[r].step \in Done, agent[r].outcome = "escalated",
           <<r, sequence[r]>> \notin DOMAIN tickets,
           agent[r].proposal.order \in DOMAIN orders
    PROVE  /\ <<r, sequence[r]>> \in DOMAIN permits
           /\ orders[agent[r].proposal.order].version > permits[<<r, sequence[r]>>].version
<1> DEFINE p == <<r, sequence[r]>>
           o == agent[r].proposal.order
<1>1. TicketKnown(r) /\ (TicketSpent(r) \/ TicketDead(r))
    BY DEF LossInv, Fate, TicketSettled
<1>2. /\ p \in DOMAIN permits
      /\ permits[p].action = "create_support_ticket"
      /\ permits[p].max = 0
      /\ PermitTTL <= permits[p].expires /\ permits[p].expires \in Nat
    BY <1>1 DEF TicketKnown, Base, Kept, PinInv, PermitPinned, TypeOK, StoreTypeOK,
                IsTable, PermitRow
<1>3. ~TicketSpent(r)
    BY <1>2, TicketIsThere DEF TicketSpent, Base, Kept
<1>4. /\ TicketProposal(o).action = "create_support_ticket"
      /\ TicketProposal(o).order = o
      /\ AmountOf(TicketProposal(o)) = 0
    BY DEF TicketProposal, AmountOf
<1>5. Dead(p, TicketProposal(o))
    BY <1>1, <1>3 DEF TicketDead
<1>6. ~(now > permits[p].expires)
  <2>1. now \in 0..MaxNow /\ MaxNow \in Nat /\ PermitTTL \in Nat
    BY StoreAssumption, ExecutorAssumption DEF Base, Kept, TypeOK, StoreTypeOK
  <2> QED
    BY <1>2, <2>1
<1>7. VersionOf("create_support_ticket", o) > permits[p].version
    BY <1>2, <1>4, <1>5, <1>6 DEF Dead, Fits
<1> QED
    BY <1>2, <1>7 DEF VersionOf

(* An escalated run without a ticket asked about an order nobody knows, or *)
(* the order was edited after the server had read it for the ticket: no    *)
(* lost response, failed read, replan or chain costs the ticket            *)
(* (runner.py:277-310).  Every edit moves the version, and the clock does  *)
(* not outrun a permit: an expired one costs the ticket too.               *)
THEOREM OnlyEditsCostTickets ==
    ASSUME ~SilentEdits, MaxNow <= PermitTTL
    PROVE  ScenarioSpec => []OnlyAnEditCostsTheTicket
<1>1. Base /\ LossInv => OnlyAnEditCostsTheTicket
  <2> SUFFICES ASSUME Base, LossInv, NEW r \in Runs, agent[r].step = "finished",
                      agent[r].outcome = "escalated", TicketsOf(r) = {},
                      agent[r].proposal.order \in DOMAIN orders
               PROVE  /\ <<r, sequence[r]>> \in DOMAIN permits
                      /\ orders[agent[r].proposal.order].version
                            > permits[<<r, sequence[r]>>].version
    BY DEF OnlyAnEditCostsTheTicket, Finished
  <2> QED
    BY TicketOutdated DEF TicketsOf, Done
<1> QED
    BY <1>1, ScenarioIsRun, LossInvHolds, PTL

-----------------------------------------------------------------------------
(* Short outages: what a run was told, and how often a read tool failed.   *)

Uninformed == "insufficient_information"

(* A read tool is to fail as often as a read is tried.                     *)
Outage(r) == \E name \in ReadNames : injector[r].spec.reads[name] >= ReadMaxAttempts

Lacking(r) == ~RowsExist(r) \/ Outage(r)

(* The failures of a read tool are those still to come, those of the read  *)
(* that is being tried, and those of the reads before.                     *)
Counted(r) ==
    LET i == injector[r]
    IN  /\ DOMAIN i = {"spec", "left", "tries", "pending"}
        /\ DOMAIN i.left = {"reads", "changes", "times", "losses"}
        /\ i.tries \in Nat
        /\ i.left.reads \in [ReadNames -> Nat]
        /\ i.spec.reads \in [ReadNames -> Nat]
        /\ \A name \in ReadNames : i.left.reads[name] <= i.spec.reads[name]
        /\ IF agent[r].step \in ReadNames
             THEN i.left.reads[agent[r].step] + i.tries <= i.spec.reads[agent[r].step]
             ELSE i.tries = 0

(* What a snapshot holds when nothing is lacking.                          *)
Complete(r) ==
    LET a == agent[r]  s == a.snapshot  action == a.proposal.action
    IN  /\ s.read_failures = {}
        /\ a.step \in {"payment", "refund_policy"} => action = "issue_refund"
        /\ a.step = "shipment" => action = "cancel_order"
        /\ a.step # "order" => s.order # NULL
        /\ a.step \in {"refund_policy", "decide"} /\ action = "issue_refund" =>
              s.payment # NULL
        /\ a.step = "decide" /\ action = "issue_refund" => s.refund_policy # NULL
        /\ a.step = "decide" /\ action = "cancel_order" => s.shipment # NULL

(* The steps at which a reason of the policy may have been given.          *)
Given == {"escalate", "replay", "replaying", "verify", "finished", "crashed"} \cup Ticketing

Informed(r) ==
    LET a == agent[r]
    IN  /\ a.step \in Reading /\ ~Lacking(r) => Complete(r)
        /\ a.step \in {"issue"} \cup Spending => a.verdict.reason # Uninformed
        /\ a.reason = Uninformed => a.step \in Given /\ Lacking(r)

OutageInv ==
    /\ DOMAIN injector = Runs
    /\ DOMAIN payments = DOMAIN orders
    /\ \A r \in Runs : Counted(r) /\ Informed(r)

(* Rows are edited and written, and none comes or goes.                    *)
LEMMA ShipmentsStay ==
    ASSUME Base, [RunnerNext]_runnerVars
    PROVE  DOMAIN shipments' = DOMAIN shipments
<1>1. [ClientNext]_vars
    BY RunnerIsClient DEF Base, Kept
<1>2. ASSUME NEW r \in Runs, ClientIssue(r) \/ ClientPresent(r)
      PROVE  UNCHANGED shipments
    BY <1>2 DEF ClientIssue, ClientPresent, IssuePermit, Load, storeVars, resourceVars
<1>3. ASSUME NEW r \in Runs, CallStep(r) PROVE DOMAIN shipments' = DOMAIN shipments
  <2>1. CASE Commit(r)
    <3>1. ASSUME NEW p, NEW o, NEW version, CancelOrder(r, p, o, version)
          PROVE  DOMAIN shipments' = DOMAIN shipments
      BY <3>1 DEF CancelOrder, CancelShipmentOf
    <3>2. \/ \E p, o, version : CancelOrder(r, p, o, version)
          \/ UNCHANGED shipments
      BY <2>1 DEF Commit, WriteTool, IssueRefund, CreateSupportTicket
    <3> QED
      BY <3>1, <3>2
  <2> QED
    BY <1>3, <2>1 DEF CallStep, Resolve, Lookup, CommitStale, CommitConflict, Respond, storeVars
<1>4. ASSUME WorldStep PROVE DOMAIN shipments' = DOMAIN shipments
    BY <1>4 DEF WorldStep, EditOrder, EditPayment, EditShipment, Tick, resourceVars
<1> QED
    BY <1>1, <1>2, <1>3, <1>4 DEF ClientNext, vars, storeVars

LEMMA RowsStand ==
    ASSUME Base, DOMAIN payments = DOMAIN orders, [RunnerNext]_runnerVars
    PROVE  /\ DOMAIN orders' = DOMAIN orders
           /\ DOMAIN payments' = DOMAIN orders'
           /\ \A r \in Runs : agent'[r].proposal = agent[r].proposal =>
                (RowsExist(r)' <=> RowsExist(r))
<1>1. VersionsGrow
    BY StepKeeps
<1> QED
    BY <1>1, ShipmentsStay DEF VersionsGrow, RowsExist

(* The policy lacks information only where a record was not read.          *)
LEMMA UninformedMeans ==
    ASSUME NEW proposal \in Asked, NEW s, Evaluate(proposal, s).reason = Uninformed
    PROVE  /\ Evaluate(proposal, s).decision = "escalate"
           /\ s.read_failures # {} \/ MissingRecords(proposal, s) # {}
<1>1. proposal.action \in {"cancel_order", "issue_refund", "create_support_ticket"}
    BY DEF Asked, Proposals, ActionName
<1> USE DEF Deny, Escalate, Allow, Uninformed
<1>2. EvaluateCancel(proposal, s).reason # Uninformed
    BY DEF EvaluateCancel
<1>3. EvaluateRefund(proposal, s).reason # Uninformed
    BY DEF EvaluateRefund
<1>4. EvaluateTicket(proposal, s).reason # Uninformed
    BY DEF EvaluateTicket
<1> QED
    BY <1>1, <1>2, <1>3, <1>4 DEF Evaluate

(* A snapshot that holds all the action needs leaves the policy informed.  *)
LEMMA SnapshotSuffices ==
    ASSUME NEW r, agent[r].proposal \in Asked, agent[r].step = "decide",
           DOMAIN agent[r].snapshot = SnapshotFields, Complete(r)
    PROVE  Evaluate(agent[r].proposal, [agent[r].snapshot EXCEPT !.now = now]).reason
              # Uninformed
<1> DEFINE proposal == agent[r].proposal
           s == [agent[r].snapshot EXCEPT !.now = now]
<1>1. proposal.action \in {"cancel_order", "create_support_ticket", "issue_refund"}
    BY DEF Asked, Proposals, ActionName
<1>2. /\ s.read_failures = {}
      /\ s.order # NULL
      /\ proposal.action = "issue_refund" => s.payment # NULL /\ s.refund_policy # NULL
      /\ proposal.action = "cancel_order" => s.shipment # NULL
    BY DEF Complete, SnapshotFields
<1>3. \A name \in RequiredRecords(proposal.action) : s[name] # NULL
  <2> HIDE DEF s, proposal
  <2> QED
    BY <1>1, <1>2 DEF RequiredRecords
<1>4. MissingRecords(proposal, s) = {}
  <2> HIDE DEF s, proposal
  <2> QED
    BY <1>3 DEF MissingRecords
<1> QED
    BY <1>2, <1>4, UninformedMeans

(* What an attempt that ends leaves behind.                                *)
LEMMA EndedTells ==
    ASSUME NEW a, DOMAIN a = AgentFields, NEW outcome, NEW reason
    PROVE  LET b == Ended(a, outcome, reason)
           IN  /\ b.reason = reason
               /\ b.proposal = a.proposal
               /\ b.step \in {"propose", "replay", "verify"}
               /\ b.step = "propose" => outcome = "completed"
<1>1. AfterLoops(a) \in {"replay", "verify"}
    BY AfterLoopsIs
<1> QED
    BY <1>1 DEF Ended, AgentFields

LEMMA EndsInformed ==
    ASSUME NEW r \in Runs, NEW a, DOMAIN a = AgentFields, NEW outcome, NEW reason,
           agent'[r] = Ended(a, outcome, reason),
           reason = Uninformed => outcome # "completed" /\ Lacking(r)'
    PROVE  Informed(r)'
<1>1. /\ agent'[r].reason = reason
      /\ agent'[r].step \in {"propose", "replay", "verify"}
      /\ agent'[r].step = "propose" => outcome = "completed"
    BY EndedTells
<1> QED
    BY <1>1 DEF Informed, Given, Reading, Spending


LEMMA LackingStays ==
    ASSUME Base, DOMAIN payments = DOMAIN orders, [RunnerNext]_runnerVars,
           NEW r \in Runs, injector'[r].spec = injector[r].spec,
           agent'[r].proposal = agent[r].proposal
    PROVE  Lacking(r)' <=> Lacking(r)
<1>1. RowsExist(r)' <=> RowsExist(r)
    BY RowsStand
<1>2. Outage(r)' <=> Outage(r)
    BY DEF Outage
<1> QED
    BY <1>1, <1>2 DEF Lacking

-----------------------------------------------------------------------------
(* What the steps of a run leave it informed of.                           *)

LEMMA RowsAreRecords ==
    ASSUME TypeOK, NEW o
    PROVE  /\ o \in DOMAIN orders => FetchOrder(o) # NULL
           /\ o \in DOMAIN payments => FetchPayment(o) # NULL
           /\ o \in DOMAIN shipments => FetchShipment(o) # NULL
<1>1. /\ \A x \in DOMAIN orders : x \in Orders /\ orders[x] \in OrderRow
      /\ \A x \in DOMAIN payments : x \in Orders /\ payments[x] \in PaymentRow
      /\ \A x \in DOMAIN shipments : shipments[x] \in ShipmentRow
    BY DEF TypeOK, StoreTypeOK, IsTable
<1>2. ASSUME o \in DOMAIN orders PROVE FetchOrder(o) # NULL
    BY <1>1, <1>2, RecordAssumption DEF FetchOrder, OrderRow
<1>3. ASSUME o \in DOMAIN payments PROVE FetchPayment(o) # NULL
    BY <1>1, <1>3, RecordAssumption DEF FetchPayment, PaymentRow
<1>4. ASSUME o \in DOMAIN shipments PROVE FetchShipment(o) # NULL
    BY <1>1, <1>4, RecordAssumption DEF FetchShipment, ShipmentRow
<1> QED
    BY <1>2, <1>3, <1>4

LEMMA ReadInforms ==
    ASSUME Base, DOMAIN payments = DOMAIN orders, NEW r \in Runs, ReadRecord(r),
           Informed(r), Lacking(r)' <=> Lacking(r), GaveUp(r) => Outage(r)
    PROVE  Informed(r)'
<1> DEFINE a == agent[r]
           b == agent'[r]
           o == a.proposal.order
           action == a.proposal.action
<1>1. /\ DOMAIN agent = Runs /\ AgentTyped(a) /\ TypeOK
      /\ a.step \in Reading => SnapshotKnown(a)
    BY DEF Base, Kept, AgentInv, AgentKnown, PinInv
<1>2. PICK name \in {"order", "payment", "shipment", "refund_policy"} : Read(r, name)
    BY DEF ReadRecord
<1> DEFINE got == [a.snapshot EXCEPT ![name] = Fetch(name, o)]
           gaveUp == [a.snapshot EXCEPT !.read_failures = @ \cup {name}]
           moved(s) == [a EXCEPT !.snapshot = s, !.step = NextRead(action, name, s.order)]
<1>3. /\ a.step = name
      /\ b = moved(got) \/ b = moved(gaveUp)
    BY <1>1, <1>2, MoveDoes DEF Read
<1>4. /\ DOMAIN a = AgentFields
      /\ DOMAIN a.snapshot = SnapshotFields
      /\ a.proposal \in Asked
    BY <1>1, <1>3 DEF AgentTyped, SnapshotKnown, Reading, AtWork
<1>5. /\ b.reason = a.reason /\ b.proposal = a.proposal
      /\ b.step \in {"payment", "shipment", "refund_policy", "decide"}
    BY <1>3, <1>4 DEF AgentFields, NextRead
<1>6. a.reason # Uninformed
    BY <1>3 DEF Informed, Given, Ticketing
<1>7. ASSUME ~Lacking(r) PROVE Complete(r)'
  <2>1. Complete(r) /\ RowsExist(r) /\ ~GaveUp(r)
    BY <1>3, <1>7 DEF Informed, Lacking, Reading
  <2>2. b = moved(got)
    <3>1. b = moved(gaveUp) => b.snapshot.read_failures = a.snapshot.read_failures \cup {name}
      BY <1>4 DEF AgentFields, SnapshotFields
    <3>2. name \notin b.snapshot.read_failures
      BY <1>3, <2>1 DEF GaveUp
    <3> QED
      BY <1>3, <3>1, <3>2
  <2>3. /\ b.snapshot = got
        /\ b.step = NextRead(action, name, got.order)
    BY <1>4, <2>2 DEF AgentFields
  <2>4. /\ got.read_failures = a.snapshot.read_failures
        /\ got[name] = Fetch(name, o)
        /\ \A other \in SnapshotFields \ {name} : got[other] = a.snapshot[other]
    BY <1>4 DEF SnapshotFields
  <2>5. action \in {"cancel_order", "issue_refund", "create_support_ticket"}
    BY <1>4 DEF Asked, Proposals, ActionName
  <2>6. /\ FetchOrder(o) # NULL
        /\ FetchPayment(o) # NULL
        /\ action = "cancel_order" => FetchShipment(o) # NULL
        /\ RefundPolicy # NULL
    BY <1>1, <2>1, RowsAreRecords, RecordAssumption DEF RowsExist, RequiredRecords
  <2> HIDE DEF got, action, o
  <2>7. CASE name = "order"
    <3>1. got.order # NULL
      BY <2>4, <2>6, <2>7 DEF Fetch
    <3>2. \/ b.step = "payment" /\ action = "issue_refund"
          \/ b.step = "shipment" /\ action = "cancel_order"
          \/ b.step = "decide" /\ action = "create_support_ticket"
      BY <2>3, <2>5, <2>7 DEF NextRead, RequiredRecords
    <3> QED
      BY <1>5, <2>1, <2>3, <2>4, <3>1, <3>2 DEF Complete, action
  <2>8. CASE name = "payment"
    <3>1. /\ action = "issue_refund" /\ got.order # NULL /\ got.payment # NULL
      BY <1>3, <2>1, <2>4, <2>6, <2>8 DEF Fetch, Complete, SnapshotFields, action
    <3>2. b.step = "refund_policy"
      BY <2>3, <2>8, <3>1 DEF NextRead
    <3> QED
      BY <1>5, <2>1, <2>3, <2>4, <3>1, <3>2 DEF Complete, action
  <2>9. CASE name = "shipment"
    <3>1. action = "cancel_order" /\ got.order # NULL /\ got.shipment # NULL
      BY <1>3, <2>1, <2>4, <2>6, <2>9 DEF Fetch, Complete, SnapshotFields, action
    <3>2. b.step = "decide"
      BY <2>3, <2>9 DEF NextRead
    <3> QED
      BY <1>5, <2>1, <2>3, <2>4, <3>1, <3>2 DEF Complete, action
  <2>10. CASE name = "refund_policy"
    <3>1. /\ action = "issue_refund" /\ got.order # NULL /\ got.payment # NULL
          /\ got.refund_policy # NULL
      BY <1>3, <2>1, <2>4, <2>6, <2>10 DEF Fetch, Complete, SnapshotFields, action
    <3>2. b.step = "decide"
      BY <2>3, <2>10 DEF NextRead
    <3> QED
      BY <1>5, <2>1, <2>3, <2>4, <3>1, <3>2 DEF Complete, action
  <2> QED
    BY <2>7, <2>8, <2>9, <2>10
<1> QED
    BY <1>5, <1>6, <1>7 DEF Informed, Spending

LEMMA DecideInforms ==
    ASSUME Base, NEW r \in Runs, Decide(r), Informed(r), Lacking(r)' <=> Lacking(r)
    PROVE  Informed(r)'
<1> DEFINE a == agent[r]
           b == agent'[r]
           s == [a.snapshot EXCEPT !.now = now]
           verdict == Evaluate(a.proposal, s)
<1>1. /\ DOMAIN agent = Runs /\ AgentTyped(a) /\ a.step = "decide" /\ SnapshotKnown(a)
    BY DEF Base, Kept, AgentInv, AgentKnown, PinInv, Decide, Reading
<1>2. /\ DOMAIN a = AgentFields
      /\ DOMAIN a.snapshot = SnapshotFields
      /\ a.proposal \in Asked
    BY <1>1 DEF AgentTyped, SnapshotKnown, AtWork, Reading
<1>3. ~Lacking(r) => verdict.reason # Uninformed
    BY <1>1, <1>2, SnapshotSuffices DEF Informed, Reading
<1>4. verdict.reason = Uninformed => verdict.decision = "escalate"
    BY <1>2, UninformedMeans
<1>5. a.reason # Uninformed
    BY <1>1 DEF Informed, Given, Ticketing
<1>6. verdict.decision \in {"allow", "deny", "escalate"}
    BY <1>2, Decides
<1> HIDE DEF verdict
<1>7. CASE verdict.decision = "deny"
  <2>1. b = Ended(a, "denied", verdict.reason)
    BY <1>1, <1>7, MoveDoes DEF Decide, verdict
  <2> QED
    BY <1>2, <1>4, <1>7, <2>1, EndsInformed
<1>8. CASE verdict.decision = "escalate"
  <2>1. b = [a EXCEPT !.step = "escalate", !.reason = verdict.reason]
    BY <1>1, <1>8, MoveDoes DEF Decide, verdict
  <2>2. b.step = "escalate" /\ b.reason = verdict.reason
    BY <1>2, <2>1 DEF AgentFields
  <2> QED
    BY <1>3, <2>2 DEF Informed, Given, Reading, Spending
<1>9. CASE verdict.decision = "allow"
  <2>1. b = [a EXCEPT !.step = "issue", !.verdict = verdict, !.snapshot = NoSnapshot]
    BY <1>1, <1>9, MoveDoes DEF Decide, verdict
  <2>2. b.step = "issue" /\ b.verdict = verdict /\ b.reason = a.reason
    BY <1>2, <2>1 DEF AgentFields
  <2> QED
    BY <1>4, <1>5, <1>9, <2>2 DEF Informed, Reading
<1> QED
    BY <1>6, <1>7, <1>8, <1>9

LEMMA ProposeInforms ==
    ASSUME Base, NEW r \in Runs, Propose(r), Informed(r)
    PROVE  Informed(r)'
<1> DEFINE a == agent[r]
           b == agent'[r]
           left == IF a.left > 0 THEN a.left - 1 ELSE 0
<1>1. /\ DOMAIN agent = Runs /\ DOMAIN a = AgentFields
      /\ a.step = "propose" /\ a.snapshot = NoSnapshot
    BY DEF Base, Kept, AgentInv, AgentKnown, AgentTyped, Propose
<1>2. a.reason # Uninformed
    BY <1>1 DEF Informed, Given, Ticketing
<1>3. ASSUME NEW reason \in RejectedRaw(a),
             Move(r, Ended([a EXCEPT !.left = left], "denied", reason))
      PROVE  Informed(r)'
  <2> DEFINE c == [a EXCEPT !.left = left]
  <2>1. DOMAIN c = AgentFields /\ b = Ended(c, "denied", reason) /\ reason # Uninformed
    BY <1>1, <1>3, MoveDoes DEF RejectedRaw, Uninformed
  <2> HIDE DEF c
  <2> QED
    BY <2>1, EndsInformed
<1>4. ASSUME NEW proposal,
             Move(r, [a EXCEPT !.left = left, !.proposal = proposal, !.step = "order"])
      PROVE  Informed(r)'
  <2>1. b = [a EXCEPT !.left = left, !.proposal = proposal, !.step = "order"]
    BY <1>1, <1>4, MoveDoes
  <2>2. b.step = "order" /\ b.reason = a.reason /\ b.snapshot = NoSnapshot
    <3> HIDE DEF left
    <3> QED
      BY <1>1, <2>1 DEF AgentFields
  <2>3. Complete(r)'
    BY <2>2 DEF Complete, NoSnapshot
  <2> QED
    BY <1>2, <2>2, <2>3 DEF Informed, Spending
<1> QED
    BY <1>3, <1>4 DEF Propose

LEMMA AnswerInforms ==
    ASSUME Base, CallInv, NEW r \in Runs, AfterExecute(r), Informed(r)
    PROVE  Informed(r)'
<1> DEFINE a == agent[r]
           b == agent'[r]
           kind == answer[r].kind
           reason == answer[r].reason
<1>1. /\ DOMAIN agent = Runs /\ DOMAIN a = AgentFields /\ TypeOK
      /\ a.step = "executing" /\ answer[r] # NULL
    BY DEF Base, Kept, AgentInv, AgentKnown, AgentTyped, AfterExecute, Answered
<1>2. a.reason # Uninformed /\ a.verdict.reason # Uninformed
    BY <1>1 DEF Informed, Given, Ticketing, Spending
<1>3. kind \in {"lost", "raised", "committed", "replayed", "rejected"}
    BY <1>1 DEF TypeOK, AnswerRecord, AnswerKinds
<1>4. kind = "rejected" => reason # Uninformed
    BY <1>1 DEF CallInv, AnswerSound, Uninformed
<1>5. CASE kind = "lost" /\ ~a.retried
  <2>1. b = [a EXCEPT !.step = "execute", !.retried = TRUE]
    BY <1>1, <1>5, MoveDoes DEF AfterExecute
  <2>2. b.step = "execute" /\ b.reason = a.reason /\ b.verdict = a.verdict
    BY <1>1, <2>1 DEF AgentFields
  <2> QED
    BY <1>2, <2>2 DEF Informed, Reading
<1>6. CASE kind \in {"lost", "raised"} /\ ~(kind = "lost" /\ ~a.retried)
  <2>1. b = [a EXCEPT !.step = "crashed"]
    BY <1>1, <1>6, MoveDoes DEF AfterExecute
  <2>2. b.step = "crashed" /\ b.reason = a.reason
    BY <1>1, <2>1 DEF AgentFields
  <2> QED
    BY <1>2, <2>2 DEF Informed, Reading, Spending
<1>7. CASE kind \in {"committed", "replayed"}
  <2>1. b = Ended(a, "completed", a.verdict.reason)
    BY <1>1, <1>7, MoveDoes DEF AfterExecute
  <2> QED
    BY <1>1, <1>2, <2>1, EndsInformed
<1>8. CASE kind = "rejected" /\ reason # "stale_resource_version"
  <2>1. b = Ended(a, "denied", reason)
    BY <1>1, <1>8, MoveDoes DEF AfterExecute
  <2> QED
    BY <1>1, <1>4, <1>8, <2>1, EndsInformed
<1>9. CASE kind = "rejected" /\ reason = "stale_resource_version"
  <2>1. b = StaleAttempt(a)
    BY <1>1, <1>9, MoveDoes DEF AfterExecute
  <2>2. CASE b = Ended(a, "denied", "stale_resource_version")
    BY <1>1, <2>2, EndsInformed DEF Uninformed
  <2>3. CASE b # Ended(a, "denied", "stale_resource_version")
    <3>1. /\ b.step \in {"propose", "replay", "verify", "escalate"}
          /\ b.reason # Uninformed
      BY <1>1, <1>2, <2>1, <2>3, AfterLoopsIs DEF StaleAttempt, AgentFields, Uninformed
    <3> QED
      BY <3>1 DEF Informed, Reading, Spending
  <2> QED
    BY <2>2, <2>3
<1> QED
    BY <1>3, <1>5, <1>6, <1>7, <1>8, <1>9

(* The steps of a run that only hand on what it was told.                  *)
LEMMA OthersInform ==
    ASSUME Base, NEW r \in Runs, Informed(r), Lacking(r)' <=> Lacking(r),
           \/ Authorise(r) \/ Present1(r) \/ BeginEscalation(r) \/ PresentTicket(r)
           \/ AfterTicket(r) \/ Replay(r) \/ AfterReplay(r) \/ Verify(r)
    PROVE  Informed(r)'
<1> DEFINE a == agent[r]
           b == agent'[r]
<1>1. DOMAIN agent = Runs /\ DOMAIN a = AgentFields
    BY DEF Base, Kept, AgentInv, AgentKnown, AgentTyped
<1>2. CASE Authorise(r)
  <2>1. a.step = "issue" /\ b.step = "execute" /\ b.reason = a.reason /\ b.verdict = a.verdict
    <3> DEFINE last == [permit |-> <<r, sequence[r] + 1>>, proposal |-> a.proposal]
               c == [a EXCEPT !.step = "execute", !.retried = FALSE, !.last = last]
    <3>1. a.step = "issue" /\ Move(r, c)
      BY <1>2 DEF Authorise
    <3>2. c.step = "execute" /\ c.reason = a.reason /\ c.verdict = a.verdict
      <4> HIDE DEF last
      <4> QED
        BY <1>1 DEF AgentFields
    <3> HIDE DEF c
    <3>3. b = c
      BY <1>1, <3>1, MoveDoes
    <3> QED
      BY <3>1, <3>2, <3>3
  <2> QED
    BY <2>1 DEF Informed, Given, Ticketing, Reading
<1>3. ASSUME NEW step, Goto(r, step)
      PROVE  b.step = step /\ b.reason = a.reason /\ b.verdict = a.verdict
    BY <1>1, <1>3, MoveDoes DEF Goto, AgentFields
<1>4. CASE Present1(r)
  <2>1. a.step = "execute" /\ Goto(r, "executing")
    BY <1>4 DEF Present1, Execute
  <2> QED
    BY <1>3, <2>1 DEF Informed, Given, Ticketing, Reading, Spending
<1>5. ASSUME a.step \in Given, b.reason = a.reason, b.step \in Given
      PROVE  Informed(r)'
    BY <1>5 DEF Informed, Given, Ticketing, Reading, Spending
<1>6. ASSUME a.step \in Given, Move(r, Escalated(a)) PROVE Informed(r)'
    BY <1>1, <1>6, MoveDoes, EndsInformed DEF Escalated, Informed
<1>7. CASE BeginEscalation(r)
  <2>1. a.step = "escalate" /\ (Goto(r, "ticket") \/ Move(r, Escalated(a)))
    BY <1>7 DEF BeginEscalation
  <2> QED
    BY <1>3, <1>5, <1>6, <2>1 DEF Given, Ticketing
<1>8. CASE PresentTicket(r)
  <2>1. a.step = "ticket" /\ Goto(r, "ticketing")
    BY <1>8 DEF PresentTicket, Execute
  <2> QED
    BY <1>3, <1>5, <2>1 DEF Given, Ticketing
<1>9. CASE AfterTicket(r)
  <2>1. a.step = "ticketing" /\ (Goto(r, "crashed") \/ Move(r, Escalated(a)))
    BY <1>9 DEF AfterTicket, Answered
  <2> QED
    BY <1>3, <1>5, <1>6, <2>1 DEF Given, Ticketing
<1>10. CASE Replay(r)
  <2>1. a.step = "replay" /\ Goto(r, "replaying")
    BY <1>10 DEF Replay, Execute
  <2> QED
    BY <1>3, <1>5, <2>1 DEF Given
<1>11. CASE AfterReplay(r)
  <2>1. a.step = "replaying" /\ (Goto(r, "crashed") \/ Goto(r, "verify"))
    BY <1>11 DEF AfterReplay, Answered
  <2> QED
    BY <1>3, <1>5, <2>1 DEF Given
<1>12. CASE Verify(r)
  <2>1. a.step = "verify" /\ b.step = "finished" /\ b.reason = a.reason
    <3>1. PICK report : b = [a EXCEPT !.step = "finished", !.report = report]
      BY <1>1, <1>12, MoveDoes DEF Verify
    <3>2. a.step = "verify"
      BY <1>12 DEF Verify
    <3> QED
      BY <1>1, <3>1, <3>2 DEF AgentFields
  <2> QED
    BY <1>5, <2>1 DEF Given
<1> QED
    BY <1>2, <1>4, <1>7, <1>8, <1>9, <1>10, <1>11, <1>12

LEMMA RunInforms ==
    ASSUME Base, CallInv, DOMAIN payments = DOMAIN orders, [RunnerNext]_runnerVars,
           NEW r \in Runs, RunStep(r), Informed(r),
           injector'[r].spec = injector[r].spec,
           ReadRecord(r) /\ GaveUp(r) => Outage(r)
    PROVE  Informed(r)'
<1>1. AgentInv
    BY DEF Base
<1>2. ASSUME agent'[r].proposal = agent[r].proposal
      PROVE  Lacking(r)' <=> Lacking(r)
    BY <1>2, LackingStays
<1>3. CASE Propose(r)
    BY <1>3, ProposeInforms
<1>4. CASE AfterExecute(r)
    BY <1>4, AnswerInforms
<1>5. CASE ReadRecord(r)
  <2>1. agent'[r].proposal = agent[r].proposal
    BY <1>1, <1>5, ReadDoes DEF SameAttempt
  <2> QED
    BY <1>2, <1>5, <2>1, ReadInforms
<1>6. CASE Decide(r)
  <2>1. agent'[r].proposal = agent[r].proposal
    BY <1>1, <1>6, DecideDoes DEF SameAttempt, AttemptEnds
  <2> QED
    BY <1>2, <1>6, <2>1, DecideInforms
<1>7. CASE \/ Authorise(r) \/ Present1(r) \/ BeginEscalation(r) \/ PresentTicket(r)
           \/ AfterTicket(r) \/ Replay(r) \/ AfterReplay(r) \/ Verify(r)
  <2>1. agent'[r].proposal = agent[r].proposal
    <3>1. CASE Authorise(r)
      BY <1>1, <3>1, AuthoriseDoes
    <3>2. CASE Present1(r) \/ PresentTicket(r) \/ Replay(r)
      <4>1. PICK step, p, proposal, waiting : Execute(r, step, p, proposal, waiting)
        BY <3>2 DEF Present1, PresentTicket, Replay
      <4> QED
        BY <1>1, <4>1, ExecuteDoes DEF SameAttempt
    <3>3. CASE BeginEscalation(r)
      BY <1>1, <3>3, EscalateDoes DEF SameAttempt, AttemptEnds
    <3>4. CASE AfterTicket(r)
      BY <1>1, <3>4, AfterTicketDoes DEF SameAttempt, AttemptEnds
    <3>5. CASE AfterReplay(r)
      BY <1>1, <3>5, AfterReplayDoes DEF SameAttempt
    <3>6. CASE Verify(r)
      BY <1>1, <3>6, VerifyDoes DEF SameAttempt
    <3> QED
      BY <1>7, <3>1, <3>2, <3>3, <3>4, <3>5, <3>6
  <2>2. Lacking(r)' <=> Lacking(r)
    BY <1>2, <2>1
  <2> QED
    BY <1>7, <2>2, OthersInform
<1>8. CASE CallStep(r) /\ UNCHANGED agent
    BY <1>2, <1>8 DEF Informed, Complete
<1> QED
    BY <1>3, <1>4, <1>5, <1>6, <1>7, <1>8 DEF RunStep

-----------------------------------------------------------------------------
(* What the injector has counted.                                          *)

LEMMA CountDoes ==
    ASSUME DOMAIN injector = Runs, NEW r \in Runs, Counted(r), NEW name \in ReadNames,
           NEW tries \in Nat, ReadFails(r, name), CountReadFailure(r, name, tries)
    PROVE  LET i == injector[r]  j == injector'[r]
           IN  /\ DOMAIN injector' = Runs
               /\ \A q \in Runs \ {r} : injector'[q] = injector[q]
               /\ j.spec = i.spec
               /\ j.tries = tries
               /\ DOMAIN j = DOMAIN i
               /\ DOMAIN j.left = DOMAIN i.left
               /\ i.left.reads[name] > 0
               /\ j.left.reads = [i.left.reads EXCEPT ![name] = @ - 1]
<1> DEFINE i == injector[r]
           j == injector'[r]
           c == [i EXCEPT !.left.reads[name] = @ - 1, !.tries = tries]
<1>1. injector' = [injector EXCEPT ![r] = c]
    BY DEF CountReadFailure
<1>2. /\ DOMAIN injector' = Runs
      /\ \A q \in Runs \ {r} : injector'[q] = injector[q]
      /\ j = c
  <2> HIDE DEF c
  <2> QED
    BY <1>1
<1>3. DOMAIN i = {"spec", "left", "tries", "pending"}
      /\ DOMAIN i.left = {"reads", "changes", "times", "losses"}
    BY DEF Counted
<1>4. /\ c.spec = i.spec
      /\ c.tries = tries
      /\ DOMAIN c = DOMAIN i
      /\ DOMAIN c.left = DOMAIN i.left
      /\ c.left.reads = [i.left.reads EXCEPT ![name] = @ - 1]
  <2> HIDE DEF i
  <2> QED
    BY <1>3
<1> QED
    BY <1>2, <1>4 DEF ReadFails

(* One failure more, and as many as the tools were to have.                *)
LEMMA CountStands ==
    ASSUME DOMAIN injector = Runs, NEW r \in Runs, Counted(r), NEW name \in ReadNames,
           agent[r].step = name, NEW tries \in Nat, ReadFails(r, name),
           CountReadFailure(r, name, tries),
           \/ tries = 0
           \/ tries = injector[r].tries + 1 /\ agent'[r].step = name
    PROVE  Counted(r)'
<1> DEFINE left == injector[r].left.reads
           spec == injector[r].spec.reads
<1>1. /\ injector'[r].spec = injector[r].spec
      /\ injector'[r].tries = tries
      /\ DOMAIN injector'[r] = DOMAIN injector[r]
      /\ DOMAIN injector'[r].left = DOMAIN injector[r].left
      /\ left[name] > 0
      /\ injector'[r].left.reads = [left EXCEPT ![name] = @ - 1]
    BY CountDoes
<1>2. /\ left \in [ReadNames -> Nat] /\ spec \in [ReadNames -> Nat]
      /\ \A other \in ReadNames : left[other] <= spec[other]
      /\ injector[r].tries \in Nat
      /\ left[name] + injector[r].tries <= spec[name]
    BY DEF Counted
<1>3. DOMAIN injector[r] = {"spec", "left", "tries", "pending"}
      /\ DOMAIN injector[r].left = {"reads", "changes", "times", "losses"}
    BY DEF Counted
<1>4. PICK fewer : fewer = [left EXCEPT ![name] = @ - 1]
    OBVIOUS
<1> HIDE DEF left, spec
<1>5. /\ fewer \in [ReadNames -> Nat]
      /\ \A other \in ReadNames : fewer[other] <= spec[other]
      /\ fewer[name] = left[name] - 1
    BY <1>1, <1>2, <1>4
<1>6. IF agent'[r].step \in ReadNames
        THEN fewer[agent'[r].step] + tries <= spec[agent'[r].step]
        ELSE tries = 0
    BY <1>2, <1>5
<1> QED
    BY <1>1, <1>2, <1>3, <1>4, <1>5, <1>6 DEF Counted, left, spec

(* The tries and the failures of the reads stand.                          *)
LEMMA CountSame ==
    ASSUME DOMAIN injector = Runs, DOMAIN injector' = Runs, NEW r \in Runs, Counted(r),
           injector'[r].spec = injector[r].spec,
           DOMAIN injector'[r] = DOMAIN injector[r],
           DOMAIN injector'[r].left = DOMAIN injector[r].left,
           injector'[r].left.reads = injector[r].left.reads,
           injector'[r].tries \in {0, injector[r].tries},
           injector'[r].tries = 0 \/ agent'[r].step = agent[r].step
    PROVE  Counted(r)'
<1> DEFINE i == injector[r]
<1>1. /\ i.tries \in Nat /\ i.left.reads \in [ReadNames -> Nat]
      /\ i.spec.reads \in [ReadNames -> Nat]
      /\ \A name \in ReadNames : i.left.reads[name] <= i.spec.reads[name]
    BY DEF Counted
<1>2. CASE injector'[r].tries = 0
  <2>1. \A name \in ReadNames : i.left.reads[name] + 0 <= i.spec.reads[name]
    BY <1>1
  <2> QED
    BY <1>1, <1>2, <2>1 DEF Counted
<1>3. CASE injector'[r].tries = i.tries /\ agent'[r].step = agent[r].step
    BY <1>3 DEF Counted
<1> QED
    BY <1>2, <1>3

(* A read that gives up has failed as often as it was tried.               *)
LEMMA LastTryTells ==
    ASSUME NEW r \in Runs, Counted(r), agent[r].step \in ReadNames,
           ReadFails(r, agent[r].step), LastTry(r)
    PROVE  Outage(r)
<1> DEFINE name == agent[r].step
           left == injector[r].left.reads[name]
           spec == injector[r].spec.reads[name]
           tries == injector[r].tries
<1>1. /\ left \in Nat /\ spec \in Nat /\ tries \in Nat
      /\ left + tries <= spec
      /\ left > 0
      /\ tries + 1 = ReadMaxAttempts
    BY DEF Counted, ReadFails, LastTry
<1>2. spec >= ReadMaxAttempts
  <2> HIDE DEF left, spec, tries
  <2> QED
    BY <1>1
<1> QED
    BY <1>2 DEF Outage

LEMMA ReadMovesOn ==
    ASSUME Base, NEW r \in Runs, ReadRecord(r)
    PROVE  agent'[r].step # agent[r].step
<1>1. DOMAIN agent = Runs /\ DOMAIN agent[r] = AgentFields
    BY DEF Base, AgentInv, AgentKnown, AgentTyped
<1>2. PICK name \in {"order", "payment", "shipment", "refund_policy"} : Read(r, name)
    BY DEF ReadRecord
<1>3. ASSUME NEW s,
             Move(r, [agent[r] EXCEPT !.snapshot = s,
                        !.step = NextRead(agent[r].proposal.action, name, s.order)])
      PROVE  agent'[r].step # name
  <2>1. PICK next : next = NextRead(agent[r].proposal.action, name, s.order)
    OBVIOUS
  <2>2. agent'[r] = [agent[r] EXCEPT !.snapshot = s, !.step = next]
    BY <1>1, <1>3, <2>1, MoveDoes
  <2>3. agent'[r].step = next
    BY <1>1, <2>2 DEF AgentFields
  <2> QED
    BY <2>1, <2>3 DEF NextRead
<1> QED
    BY <1>2, <1>3 DEF Read

(* A step of the scenario counts what fails, and touches no other run.     *)
LEMMA StepCounts ==
    ASSUME Base, DOMAIN injector = Runs, NEW r \in Runs, Counted(r), ScenarioStep(r)
    PROVE  /\ DOMAIN injector' = Runs
           /\ \A q \in Runs \ {r} : injector'[q] = injector[q]
           /\ injector'[r].spec = injector[r].spec
           /\ Counted(r)'
           /\ ReadRecord(r) /\ GaveUp(r) => Outage(r)
<1> DEFINE i == injector[r]
           j == injector'[r]
           step == agent[r].step
<1>1. /\ DOMAIN i = {"spec", "left", "tries", "pending"}
      /\ DOMAIN i.left = {"reads", "changes", "times", "losses"}
      /\ i.tries \in Nat
    BY DEF Counted
<1>2. phase[r] # "idle" => step \notin ReadNames
    BY NoCallOutside DEF Base, AgentInv, ReadNames
<1>3. step \notin ReadNames => i.tries = 0
    BY DEF Counted
<1>4. ReadRecord(r) => step \in ReadNames
    BY DEF ReadRecord, Read, ReadNames
<1>5. ASSUME NEW c, injector' = [injector EXCEPT ![r] = c], c.spec = i.spec,
             DOMAIN c = DOMAIN i, DOMAIN c.left = DOMAIN i.left,
             c.left.reads = i.left.reads,
             \/ c.tries = 0
             \/ c.tries = i.tries /\ (step \notin ReadNames \/ agent'[r].step = step)
      PROVE  /\ DOMAIN injector' = Runs
             /\ \A q \in Runs \ {r} : injector'[q] = injector[q]
             /\ injector'[r].spec = injector[r].spec
             /\ Counted(r)'
  <2>1. /\ DOMAIN injector' = Runs
        /\ \A q \in Runs \ {r} : injector'[q] = injector[q]
        /\ j = c
    BY <1>5
  <2>2. Counted(r)'
    BY <1>3, <1>5, <2>1, CountSame
  <2> QED
    BY <1>5, <2>1, <2>2
<1>6. ASSUME UNCHANGED injector, step \notin ReadNames \/ agent'[r].step = step
      PROVE  /\ DOMAIN injector' = Runs
             /\ \A q \in Runs \ {r} : injector'[q] = injector[q]
             /\ injector'[r].spec = injector[r].spec
             /\ Counted(r)'
  <2>1. /\ j = i
        /\ j.tries = 0 \/ agent'[r].step = step
    BY <1>3, <1>6
  <2>2. j.tries \in {0, i.tries}
    BY <2>1
  <2>3. Counted(r)'
    BY <1>6, <2>1, <2>2, CountSame
  <2> QED
    BY <1>6, <2>3
<1>7. CASE RetryRead(r)
  <2>1. /\ step \in ReadNames /\ ReadFails(r, step)
        /\ CountReadFailure(r, step, i.tries + 1)
        /\ agent' = agent
    BY <1>7 DEF RetryRead, auditVars, runnerVars
  <2>2. /\ i.tries + 1 \in Nat
        /\ agent'[r].step = step
        /\ ~GaveUp(r) \/ ~ReadRecord(r)
    <3>1. ReadRecord(r) => agent'[r].step # step
      BY ReadMovesOn
    <3> QED
      BY <1>1, <2>1, <3>1
  <2>3. Counted(r)'
    BY <1>1, <2>1, <2>2, CountStands
  <2> QED
    BY <2>1, <2>2, <2>3, CountDoes
<1>8. CASE EndRead(r) /\ ReadFails(r, step)
  <2>1. /\ step \in ReadNames /\ LastTry(r)
        /\ CountReadFailure(r, step, 0)
    BY <1>8 DEF EndRead
  <2>2. Counted(r)'
    BY <1>8, <2>1, CountStands
  <2>3. Outage(r)
    BY <1>8, <2>1, LastTryTells
  <2> QED
    BY <1>8, <2>1, <2>2, <2>3, CountDoes
<1>9. CASE EndRead(r) /\ ~ReadFails(r, step)
  <2>1. /\ ~GaveUp(r)
        /\ injector' = [injector EXCEPT ![r] = [i EXCEPT !.tries = 0]]
    BY <1>9 DEF EndRead
  <2>2. PICK c : c = [i EXCEPT !.tries = 0]
    OBVIOUS
  <2>3. /\ c.spec = i.spec /\ DOMAIN c = DOMAIN i
        /\ c.left = i.left /\ c.tries = 0
    BY <1>1, <2>2
  <2>4. injector' = [injector EXCEPT ![r] = c]
    BY <2>1, <2>2
  <2> QED
    BY <1>5, <2>1, <2>3, <2>4
<1>10. CASE PassChecks(r)
  <2>1. step \notin ReadNames
    BY <1>2, <1>10 DEF PassChecks
  <2>2. CASE UNCHANGED injector
    BY <1>4, <1>6, <2>1, <2>2
  <2>3. CASE Arm(r, call[r].proposal.action)
    <3> DEFINE action == call[r].proposal.action
    <3>1. PICK c : c = [i EXCEPT !.left.times[action] = @ - 1,
                                 !.pending = i.left.changes[action]]
      OBVIOUS
    <3>2. injector' = [injector EXCEPT ![r] = c]
      BY <2>3, <3>1 DEF Arm
    <3>3. /\ c.spec = i.spec /\ DOMAIN c = DOMAIN i
          /\ DOMAIN c.left = DOMAIN i.left
          /\ c.left.reads = i.left.reads /\ c.tries = i.tries
      <4> HIDE DEF i, action
      <4> QED
        BY <1>1, <3>1
    <3> QED
      BY <1>4, <1>5, <2>1, <3>2, <3>3
  <2> QED
    BY <1>10, <2>2, <2>3 DEF PassChecks
<1>11. CASE ApplyChange(r)
  <2>1. agent' = agent /\ injector' = [injector EXCEPT ![r].pending = @ - 1]
    BY <1>11 DEF ApplyChange
  <2>2. PICK c : c = [i EXCEPT !.pending = @ - 1]
    OBVIOUS
  <2>3. /\ c.spec = i.spec /\ DOMAIN c = DOMAIN i
        /\ c.left = i.left /\ c.tries = i.tries
    BY <1>1, <2>2
  <2>4. injector' = [injector EXCEPT ![r] = c]
    BY <2>1, <2>2
  <2>5. ~ReadRecord(r)
    <3>1. ReadRecord(r) => agent'[r].step # step
      BY ReadMovesOn
    <3> QED
      BY <2>1, <3>1
  <2> QED
    BY <1>5, <2>1, <2>3, <2>4, <2>5
<1>12. CASE Write(r)
  <2>1. step \notin ReadNames /\ UNCHANGED injector
    BY <1>2, <1>12 DEF Write
  <2> QED
    BY <1>4, <1>6, <2>1
<1>13. CASE Deliver(r)
  <2> DEFINE action == call[r].proposal.action
  <2>1. step \notin ReadNames
    BY <1>2, <1>13 DEF Deliver
  <2>2. CASE UNCHANGED injector
    BY <1>4, <1>6, <2>1, <2>2
  <2>3. CASE injector' = [injector EXCEPT ![r].left.losses[action] = @ - 1]
    <3>1. PICK c : c = [i EXCEPT !.left.losses[action] = @ - 1]
      OBVIOUS
    <3>2. injector' = [injector EXCEPT ![r] = c]
      BY <2>3, <3>1
    <3>3. /\ c.spec = i.spec /\ DOMAIN c = DOMAIN i
          /\ DOMAIN c.left = DOMAIN i.left
          /\ c.left.reads = i.left.reads /\ c.tries = i.tries
      <4> HIDE DEF i, action
      <4> QED
        BY <1>1, <3>1
    <3> QED
      BY <1>4, <1>5, <2>1, <3>2, <3>3
  <2> QED
    BY <1>13, <2>2, <2>3 DEF Deliver
<1>14. CASE Undisturbed(r)
  <2>1. step \notin ReadNames /\ UNCHANGED injector
    BY <1>14 DEF Undisturbed
  <2> QED
    BY <1>4, <1>6, <2>1
<1> QED
    BY <1>7, <1>8, <1>9, <1>10, <1>11, <1>12, <1>13, <1>14 DEF ScenarioStep, EndRead

LEMMA OutageInvNext ==
    ASSUME Base, CallInv, OutageInv, [ScenarioNext]_scenarioVars
    PROVE  OutageInv'
<1>1. [RunnerNext]_runnerVars
    BY ScenarioIsAudit, AuditIsRun
<1>2. DOMAIN injector = Runs /\ DOMAIN payments = DOMAIN orders
    BY DEF OutageInv
<1>3. DOMAIN payments' = DOMAIN orders'
    BY <1>1, <1>2, RowsStand
<1>4. ASSUME NEW q \in Runs, agent'[q] = agent[q], injector'[q] = injector[q]
      PROVE  Counted(q)' /\ Informed(q)'
  <2>1. Counted(q) /\ Informed(q)
    BY DEF OutageInv
  <2>2. Lacking(q)' <=> Lacking(q)
    BY <1>1, <1>2, <1>4, LackingStays
  <2>3. Counted(q)'
    BY <1>4, <2>1 DEF Counted
  <2>4. Informed(q)'
    BY <1>4, <2>1, <2>2 DEF Informed, Complete
  <2> QED
    BY <2>3, <2>4
<1>5. ASSUME NEW r \in Runs, ScenarioStep(r) PROVE OutageInv'
  <2>1. Counted(r) /\ Informed(r)
    BY DEF OutageInv
  <2>2. /\ DOMAIN injector' = Runs
        /\ \A q \in Runs \ {r} : injector'[q] = injector[q]
        /\ injector'[r].spec = injector[r].spec
        /\ Counted(r)'
        /\ ReadRecord(r) /\ GaveUp(r) => Outage(r)
    BY <1>2, <1>5, <2>1, StepCounts
  <2>3. RunStep(r) \/ agent' = agent
    <3>1. AuditStep(r) => RunStep(r)
      BY DEF AuditStep, RunStep
    <3>2. AuditStep(r) \/ agent' = agent
      BY <1>5 DEF ScenarioStep, RetryRead, EndRead, PassChecks, ApplyChange, Write, Deliver,
                  Undisturbed, auditVars, runnerVars
    <3> QED
      BY <3>1, <3>2
  <2>4. \A q \in Runs \ {r} : agent'[q] = agent[q]
    BY <2>3, OthersKeepStill
  <2>5. Informed(r)'
    <3>1. CASE RunStep(r)
      BY <1>1, <1>2, <2>1, <2>2, <3>1, RunInforms
    <3>2. CASE agent' = agent
      <4>1. Lacking(r)' <=> Lacking(r)
        BY <1>1, <1>2, <2>2, <3>2, LackingStays
      <4> QED
        BY <2>1, <3>2, <4>1 DEF Informed, Complete
    <3> QED
      BY <2>3, <3>1, <3>2
  <2>6. \A q \in Runs : Counted(q)' /\ Informed(q)'
    BY <1>4, <2>2, <2>4, <2>5
  <2> QED
    BY <1>3, <2>2, <2>6 DEF OutageInv
<1>6. CASE UNCHANGED <<agent, injector>>
    BY <1>2, <1>3, <1>4, <1>6 DEF OutageInv
<1> QED
    BY <1>5, <1>6 DEF ScenarioNext, scenarioVars, auditVars, runnerVars

LEMMA OutageInvInit == ScenarioInit => OutageInv
<1> SUFFICES ASSUME ScenarioInit PROVE OutageInv
    OBVIOUS
<1>1. DOMAIN injector = Runs /\ DOMAIN payments = DOMAIN orders
    BY DEF ScenarioInit, AuditInit, RunnerInit, Init, StoreInit
<1>2. ASSUME NEW r \in Runs PROVE Counted(r) /\ Informed(r)
  <2>1. PICK spec \in FailureSpec : injector[r] = Injector(spec)
    BY ScenarioAssumption DEF ScenarioInit
  <2>2. /\ injector[r].spec = spec /\ injector[r].left = spec
        /\ injector[r].tries = 0
        /\ DOMAIN injector[r] = {"spec", "left", "tries", "pending"}
    BY <2>1 DEF Injector
  <2>3. /\ DOMAIN spec = {"reads", "changes", "times", "losses"}
        /\ spec.reads \in [ReadNames -> Nat]
    BY DEF FailureSpec
  <2>4. agent[r].step = "propose" /\ agent[r].reason = "invalid_proposal"
    BY DEF ScenarioInit, AuditInit, RunnerInit, Fresh
  <2>5. \A name \in ReadNames : spec.reads[name] \in Nat
    BY <2>3
  <2>6. Counted(r)
    BY <2>2, <2>3, <2>4, <2>5 DEF Counted, ReadNames
  <2>7. Informed(r)
    BY <2>4 DEF Informed, Reading, Spending, Uninformed
  <2> QED
    BY <2>6, <2>7
<1> QED
    BY <1>1, <1>2 DEF OutageInv

(* A run gives up for want of information only if a row is missing or some *)
(* read tool was to fail READ_MAX_ATTEMPTS times in all: the failures are  *)
(* counted across the reads, replans and chained proposals of a run, so no *)
(* sequence of shorter outages adds up (read_tools.py _call; failures.py   *)
(* read_should_fail).  Every edit may happen, and any response be lost.    *)
THEOREM ShortOutagesAreSurvived == ScenarioSpec => []ShortOutageIsSurvived
<1>1. OutageInv => ShortOutageIsSurvived
    BY DEF OutageInv, Informed, Lacking, Outage, Uninformed, ShortOutageIsSurvived
<1>2. ScenarioSpec => [](Base /\ CallInv)
    BY ScenarioIsRun, CallInvHolds, PTL
<1>3. (Base /\ CallInv) /\ OutageInv /\ [ScenarioNext]_scenarioVars => OutageInv'
    BY OutageInvNext
<1> QED
    BY <1>1, <1>2, <1>3, OutageInvInit, PTL DEF ScenarioSpec

-----------------------------------------------------------------------------
(* The trace tells the ledger.                                             *)

(* What TraceTellsTheLedger says of r, and that the row of a call between  *)
(* COMMIT and its event is the last row of the run.                        *)
TellsLedger(r) ==
    /\ { trace[r][i].permit : i \in TracedCommits(r) } =
       { mutation_log[j].by : j \in RowsToTell(r) }
    /\ \A i, k \in TracedCommits(r), j, l \in RowsToTell(r) :
          /\ trace[r][i].permit = mutation_log[j].by
          /\ trace[r][k].permit = mutation_log[l].by
          => (i < k <=> j < l)

LastRow(r) ==
    phase[r] = "respond" =>
        \E n \in MutationLogRows(r) :
            /\ mutation_log[n].by = call[r].permit
            /\ \A j \in MutationLogRows(r) : j <= n

TellInv == \A r \in Runs : TellsLedger(r) /\ LastRow(r)

(* No write is announced.                                                  *)
NoneCommitted(r) == \A i \in News(r) : trace'[r][i].type # "mutation_committed"

LEMMA CommitsStay ==
    ASSUME NEW r, Longer(r), NoneCommitted(r)
    PROVE  /\ TracedCommits(r)' = TracedCommits(r)
           /\ \A i \in TracedCommits(r) : trace'[r][i] = trace[r][i]
    BY DEF Longer, NoneCommitted, News, TracedCommits

(* The rows of r stay as they are, and so does its call after COMMIT.      *)
RowsRest(r) ==
    /\ MutationLogRows(r)' = MutationLogRows(r)
    /\ \A j \in MutationLogRows(r) : mutation_log'[j] = mutation_log[j]
    /\ phase'[r] = "respond" <=> phase[r] = "respond"
    /\ phase[r] = "respond" => call'[r].permit = call[r].permit

LEMMA TellsStill ==
    ASSUME NEW r, TellsLedger(r), LastRow(r), Longer(r), NoneCommitted(r), RowsRest(r)
    PROVE  TellsLedger(r)' /\ LastRow(r)'
<1>1. /\ TracedCommits(r)' = TracedCommits(r)
      /\ \A i \in TracedCommits(r) : trace'[r][i] = trace[r][i]
    BY CommitsStay
<1>2. RowsToTell(r)' = RowsToTell(r)
    BY DEF RowsToTell, RowsRest
<1>3. \A j \in RowsToTell(r) : mutation_log'[j] = mutation_log[j]
    BY DEF RowsToTell, RowsRest
<1>4. { trace'[r][i].permit : i \in TracedCommits(r)' } =
          { trace[r][i].permit : i \in TracedCommits(r) }
    BY <1>1
<1>5. { mutation_log'[j].by : j \in RowsToTell(r)' } =
          { mutation_log[j].by : j \in RowsToTell(r) }
    BY <1>2, <1>3
<1>6. TellsLedger(r)'
  <2>1. { trace'[r][i].permit : i \in TracedCommits(r)' } =
            { mutation_log'[j].by : j \in RowsToTell(r)' }
    BY <1>4, <1>5 DEF TellsLedger
  <2>2. ASSUME NEW i \in TracedCommits(r)', NEW k \in TracedCommits(r)',
               NEW j \in RowsToTell(r)', NEW l \in RowsToTell(r)',
               trace'[r][i].permit = mutation_log'[j].by,
               trace'[r][k].permit = mutation_log'[l].by
        PROVE  i < k <=> j < l
    BY <1>1, <1>2, <1>3, <2>2 DEF TellsLedger
  <2> QED
    BY <2>1, <2>2 DEF TellsLedger
<1>7. LastRow(r)'
    BY DEF LastRow, RowsRest
<1> QED
    BY <1>6, <1>7

(* A commit adds one row, the last one.                                    *)
LEMMA CommitAddsRow ==
    ASSUME TypeOK, LedgerInv, NEW r \in Runs, Commit(r)
    PROVE  LET n == Len(mutation_log) + 1
           IN  /\ \A j \in DOMAIN mutation_log : j \in Nat /\ j < n
               /\ \A j \in DOMAIN mutation_log :
                        /\ mutation_log'[j] = mutation_log[j]
                        /\ mutation_log[j].by # call[r].permit
               /\ DOMAIN mutation_log' = DOMAIN mutation_log \cup {n}
               /\ mutation_log'[n].by = call[r].permit
               /\ mutation_log'[n].run = r
               /\ mutation_log'[n].action = call[r].proposal.action
               /\ mutation_log'[n].resource = call[r].row.resource
               /\ MutationLogRows(r)' = MutationLogRows(r) \cup {n}
               /\ \A q \in Runs \ {r} : MutationLogRows(q)' = MutationLogRows(q)
<1> DEFINE n == Len(mutation_log) + 1
           row == [run |-> r, action |-> call[r].proposal.action,
                   resource |-> call[r].row.resource,
                   amount |-> AmountMoved(call[r].proposal), by |-> call[r].permit]
<1>1. /\ call[r].row.resource = ResourceOf(call[r].proposal.action, call[r].proposal.order)
      /\ call[r].permit \in DOMAIN permits
      /\ call[r].row.key = permits[call[r].permit].key
      /\ call[r].row.key \notin DOMAIN records
    BY DEF Commit, LedgerInv, CallsKnown, CallKnown
<1>2. mutation_log' = Append(mutation_log, row)
    BY <1>1, WriteLogs DEF Commit, LogMutation
<1>3. /\ n \notin DOMAIN mutation_log
      /\ DOMAIN mutation_log' = DOMAIN mutation_log \cup {n}
      /\ \A i \in DOMAIN mutation_log : mutation_log'[i] = mutation_log[i]
      /\ mutation_log'[n] = row
  <2>1. mutation_log \in Seq(LogRow)
    BY DEF TypeOK, StoreTypeOK
  <2> HIDE DEF row
  <2> QED
    BY <1>2, <2>1, Appended
<1>4. \A j \in DOMAIN mutation_log : j \in Nat /\ j < n
    BY DEF TypeOK, StoreTypeOK
<1>5. \A j \in DOMAIN mutation_log : mutation_log[j].by # call[r].permit
  <2>1. \A j \in DOMAIN mutation_log : permits[mutation_log[j].by].key \in DOMAIN records
    BY Zenon DEF LedgerInv, LedgerAgrees
  <2> QED
    BY <1>1, <2>1
<1>6. MutationLogRows(r)' = MutationLogRows(r) \cup {n}
    BY <1>3 DEF MutationLogRows
<1>7. \A q \in Runs \ {r} : MutationLogRows(q)' = MutationLogRows(q)
    BY <1>3 DEF MutationLogRows
<1> HIDE DEF n
<1> QED
    BY <1>3, <1>4, <1>5, <1>6, <1>7 DEF n

(* A commit does not tell yet.                                             *)
LEMMA CommitTells ==
    ASSUME TypeOK, LedgerInv, NEW r \in Runs, TellsLedger(r), Commit(r),
           Longer(r), NoneCommitted(r), call'[r].permit = call[r].permit
    PROVE  TellsLedger(r)' /\ LastRow(r)'
<1> DEFINE n == Len(mutation_log) + 1
<1>1. /\ \A j \in DOMAIN mutation_log : j \in Nat /\ j < n
      /\ \A j \in DOMAIN mutation_log :
            mutation_log'[j] = mutation_log[j] /\ mutation_log[j].by # call[r].permit
      /\ mutation_log'[n].by = call[r].permit
      /\ MutationLogRows(r)' = MutationLogRows(r) \cup {n}
    BY CommitAddsRow
<1>2. /\ TracedCommits(r)' = TracedCommits(r)
      /\ \A i \in TracedCommits(r) : trace'[r][i] = trace[r][i]
    BY CommitsStay
<1>3. phase[r] = "commit" /\ phase'[r] = "respond"
    BY CommitAnswers DEF Commit, GoTo, TypeOK
<1>4. MutationLogRows(r) \subseteq DOMAIN mutation_log
    BY DEF MutationLogRows
<1>5. n \in Int
    BY DEF TypeOK, StoreTypeOK
<1> HIDE DEF n
<1>6. RowsToTell(r)' = MutationLogRows(r) /\ RowsToTell(r) = MutationLogRows(r)
    BY <1>1, <1>3, <1>4 DEF RowsToTell
<1>7. { trace'[r][i].permit : i \in TracedCommits(r)' } =
          { trace[r][i].permit : i \in TracedCommits(r) }
    BY <1>2
<1>8. { mutation_log'[j].by : j \in RowsToTell(r)' } =
          { mutation_log[j].by : j \in RowsToTell(r) }
    BY <1>1, <1>4, <1>6
<1>9. TellsLedger(r)'
  <2>1. { trace'[r][i].permit : i \in TracedCommits(r)' } =
            { mutation_log'[j].by : j \in RowsToTell(r)' }
    BY <1>7, <1>8 DEF TellsLedger
  <2>2. ASSUME NEW i \in TracedCommits(r)', NEW k \in TracedCommits(r)',
               NEW j \in RowsToTell(r)', NEW l \in RowsToTell(r)',
               trace'[r][i].permit = mutation_log'[j].by,
               trace'[r][k].permit = mutation_log'[l].by
        PROVE  i < k <=> j < l
    BY <1>1, <1>2, <1>4, <1>6, <2>2 DEF TellsLedger
  <2> QED
    BY <2>1, <2>2 DEF TellsLedger
<1>10. LastRow(r)'
  <2>1. \A j \in MutationLogRows(r)' : j <= n
    BY <1>1, <1>4, <1>5
  <2> QED
    BY <1>1, <2>1 DEF LastRow
<1> QED
    BY <1>9, <1>10

(* The event of a call that responds tells the last row.                   *)
LEMMA ResponseTells ==
    ASSUME NEW r \in Runs, TellsLedger(r), LastRow(r), IsTrace(trace[r]),
           \A i, j \in DOMAIN mutation_log : mutation_log[i].by = mutation_log[j].by => i = j,
           DOMAIN mutation_log \subseteq Nat, UNCHANGED mutation_log,
           phase[r] = "respond", phase'[r] = "idle",
           NEW e, Adds(r, e), e.type = "mutation_committed", e.permit = call[r].permit
    PROVE  TellsLedger(r)' /\ LastRow(r)'
<1> DEFINE m == Len(trace[r]) + 1
<1>1. /\ m \in Nat
      /\ \A i \in DOMAIN trace[r] : i \in Nat /\ i < m /\ trace'[r][i] = trace[r][i]
      /\ DOMAIN trace'[r] = DOMAIN trace[r] \cup {m}
      /\ trace'[r][m] = e
    BY TraceIs DEF Adds, Grown, Longer
<1> HIDE DEF m
<1>2. PICK n \in MutationLogRows(r) :
            /\ mutation_log[n].by = call[r].permit
            /\ \A j \in MutationLogRows(r) : j <= n
    BY DEF LastRow
<1>3. MutationLogRows(r)' = MutationLogRows(r) /\ MutationLogRows(r) \subseteq DOMAIN mutation_log
    BY DEF MutationLogRows
<1>4. RowsToTell(r) = MutationLogRows(r) \ {n} /\ RowsToTell(r)' = MutationLogRows(r)
  <2>1. \A j \in MutationLogRows(r) : mutation_log[j].by = call[r].permit <=> j = n
    BY <1>2, <1>3
  <2>2. RowsToTell(r) = MutationLogRows(r) \ {n}
    BY <2>1 DEF RowsToTell
  <2>3. RowsToTell(r)' = MutationLogRows(r)'
    BY DEF RowsToTell
  <2> QED
    BY <1>3, <2>2, <2>3
<1>5. /\ TracedCommits(r)' = TracedCommits(r) \cup {m}
      /\ TracedCommits(r) \subseteq DOMAIN trace[r]
      /\ m \notin TracedCommits(r)
    BY <1>1 DEF TracedCommits
<1>6. { trace[r][i].permit : i \in TracedCommits(r) } = { mutation_log[j].by : j \in RowsToTell(r) }
    BY DEF TellsLedger
<1>7. { trace'[r][i].permit : i \in TracedCommits(r)' } =
            { mutation_log'[j].by : j \in RowsToTell(r)' }
  <2>1. { trace'[r][i].permit : i \in TracedCommits(r)' } =
            { trace[r][i].permit : i \in TracedCommits(r) } \cup {call[r].permit}
    BY <1>1, <1>5
  <2>2. { mutation_log'[j].by : j \in RowsToTell(r)' } =
            { mutation_log[j].by : j \in RowsToTell(r) } \cup {call[r].permit}
    BY <1>2, <1>3, <1>4
  <2> QED
    BY <1>6, <2>1, <2>2
<1>8. ASSUME NEW i \in TracedCommits(r)', NEW k \in TracedCommits(r)',
             NEW j \in RowsToTell(r)', NEW l \in RowsToTell(r)',
             trace'[r][i].permit = mutation_log'[j].by,
             trace'[r][k].permit = mutation_log'[l].by
      PROVE  i < k <=> j < l
  <2>1. ASSUME NEW x \in TracedCommits(r)', NEW y \in RowsToTell(r)',
               trace'[r][x].permit = mutation_log'[y].by
        PROVE  x = m <=> y = n
    <3>1. ASSUME x = m PROVE y = n
      BY <1>1, <1>2, <1>3, <1>4, <2>1, <3>1
    <3>2. ASSUME x # m, y = n PROVE FALSE
      <4>1. x \in TracedCommits(r) /\ trace[r][x].permit = call[r].permit
        BY <1>1, <1>2, <1>5, <2>1, <3>2
      <4>2. PICK z \in RowsToTell(r) : mutation_log[z].by = call[r].permit
        BY <1>6, <4>1
      <4> QED
        BY <1>2, <1>3, <1>4, <4>2
    <3> QED
      BY <3>1, <3>2
  <2>2. (i = m <=> j = n) /\ (k = m <=> l = n)
    BY <1>8, <2>1
  <2>3. /\ i \in Nat /\ k \in Nat /\ j \in Nat /\ l \in Nat
        /\ i <= m /\ k <= m /\ j <= n /\ l <= n
        /\ i # m => i < m
        /\ k # m => k < m
        /\ j # n => j < n
        /\ l # n => l < n
    BY <1>1, <1>2, <1>3, <1>4, <1>5
  <2>4. CASE i = m \/ k = m
    BY <2>2, <2>3, <2>4, <1>1
  <2>5. CASE i # m /\ k # m
    <3>1. /\ i \in TracedCommits(r) /\ k \in TracedCommits(r)
          /\ j \in RowsToTell(r) /\ l \in RowsToTell(r)
          /\ trace[r][i].permit = mutation_log[j].by
          /\ trace[r][k].permit = mutation_log[l].by
      BY <1>1, <1>4, <1>5, <1>8, <2>2, <2>5
    <3> QED
      BY <3>1 DEF TellsLedger
  <2> QED
    BY <2>4, <2>5
<1>9. TellsLedger(r)'
    BY <1>7, <1>8 DEF TellsLedger
<1> QED
    BY <1>9 DEF LastRow

(* A step of r writes to the ledger only when it commits.                  *)
LEMMA OnlyItsCommitWrites ==
    ASSUME Base, NEW r \in Runs, RunStep(r)
    PROVE  Commit(r) \/ UNCHANGED mutation_log
<1>1. \/ ClientIssue(r) \/ ClientPresent(r) \/ CallStep(r) \/ UNCHANGED vars
    BY RunIsClient DEF Base, Kept
<1> QED
    BY <1>1 DEF ClientIssue, IssuePermit, ClientPresent, Load, CallStep, Resolve, Lookup,
                CommitStale, CommitConflict, Respond, storeVars, vars

(* The row and the event of a call.                                        *)
LEMMA CallTellsLedger ==
    ASSUME Base, CallInv, StoryInv, PermitsStay, VersionsGrow, NEW r \in Runs,
           TellsLedger(r), LastRow(r), CallStep(r), UNCHANGED agent,
           Emit(r, AnswerEvents(r, call[r].proposal))
    PROVE  TellsLedger(r)' /\ LastRow(r)'
<1>1. /\ TypeOK /\ LedgerInv /\ DOMAIN trace = Runs /\ IsTrace(trace[r])
      /\ CallSound(r)
    BY DEF Base, Kept, CallInv, StoryInv, RunTells
<1>2. CallOver(r) \/ CallFurther(r)
    BY <1>1, CallTells
<1>3. Grown(r) /\ Longer(r)
    BY CallStory DEF Grown
<1>4. ASSUME ~Commit(r) PROVE UNCHANGED mutation_log
    BY <1>4 DEF CallStep, Resolve, Lookup, CommitStale, CommitConflict, Respond, storeVars
<1>5. CASE CallFurther(r)
  <2>1. phase'[r] # "idle" /\ call'[r].permit = call[r].permit
    BY <1>5 DEF CallFurther
  <2>2. Emit(r, << >>)
    BY <2>1 DEF AnswerEvents
  <2>3. NoneCommitted(r)
    <3>1. trace'[r] = trace[r]
      BY <1>1, <2>2, EmitNone
    <3> QED
      BY <1>1, <3>1, SameTrace DEF Quiet, NoneCommitted
  <2>4. CASE Commit(r)
    BY <1>1, <1>3, <2>1, <2>3, <2>4, CommitTells
  <2>5. CASE ~Commit(r)
    <3>1. phase[r] # "respond"
      BY <1>5 DEF CallFurther, Resolve
    <3>2. phase'[r] # "respond"
      <4>1. phase[r] # "commit"
        <5>1. ASSUME CommitStale(r) \/ CommitConflict(r) \/ Respond(r) PROVE phase'[r] = "idle"
          BY <1>1, <5>1, EndDoes DEF CallEnds, CommitStale, CommitConflict, Respond
        <5> QED
          BY <2>1, <2>5, <5>1 DEF CallStep, Resolve, Lookup
      <4> QED
        BY <1>5, <4>1 DEF CallFurther
    <3>3. RowsRest(r)
      BY <1>4, <2>5, <3>1, <3>2 DEF RowsRest, MutationLogRows
    <3> QED
      BY <1>3, <2>3, <3>3, TellsStill
  <2> QED
    BY <2>4, <2>5
<1>6. CASE CallOver(r)
  <2>1. PICK e : e = Event(AnswerEvent(answer'[r].kind),
                           VersionShown(answer'[r].permit, call[r].proposal),
                           IF answer'[r].kind \in {"rejected", "replayed"}
                             THEN answer'[r].reason ELSE NULL,
                           answer'[r].permit)
    OBVIOUS
  <2>2. AnswerEvents(r, call[r].proposal) = <<e>>
    BY <1>6, <2>1 DEF AnswerEvents, CallOver
  <2>3. Adds(r, e)
    <3>1. Emit(r, <<e>>)
      BY <2>2
    <3> QED
      BY <1>1, <3>1, EmitOne DEF Adds
  <2>4. e.permit = call[r].permit /\ e.type = AnswerEvent(answer'[r].kind)
    BY <1>6, <2>1 DEF Event, CallOver
  <2>5. phase'[r] = "idle" /\ UNCHANGED mutation_log
    <3>1. ~Commit(r)
      BY <1>6, CommitAnswers DEF CallOver
    <3> QED
      BY <1>4, <1>6, <3>1 DEF CallOver
  <2>6. CASE phase[r] = "respond"
    <3>1. Respond(r)
      BY <2>6 DEF CallStep, Resolve, Lookup, Commit, CommitStale, CommitConflict
    <3>2. answer'[r].kind \in {"committed", "lost"}
      <4>1. PICK kind \in {"committed", "lost"} : \E result : Finish(r, kind, NULL, result)
        BY <3>1 DEF Respond
      <4>2. PICK result : Finish(r, kind, NULL, result)
        BY <4>1
      <4>3. CallEnds(r, kind, NULL, result)
        BY <1>1, <4>2, FinishEnds
      <4> QED
        BY <4>3 DEF CallEnds, Answer
    <3>3. e.type = "mutation_committed"
      BY <2>4, <3>2 DEF AnswerEvent
    <3>4. /\ DOMAIN mutation_log \subseteq Nat
          /\ \A i, j \in DOMAIN mutation_log :
                mutation_log[i].by = mutation_log[j].by => i = j
      BY <1>1 DEF TypeOK, StoreTypeOK, LedgerInv, LedgerAgrees
    <3> QED
      BY <1>1, <2>3, <2>4, <2>5, <2>6, <3>3, <3>4, ResponseTells
  <2>7. CASE phase[r] # "respond"
    <3>1. answer'[r].kind \in {"replayed", "rejected"}
      BY <1>6, <2>7 DEF CallOver
    <3>2. e.type # "mutation_committed"
      BY <2>4, <3>1 DEF AnswerEvent
    <3>3. NoneCommitted(r)
      BY <2>3, <3>2, OneEvent DEF NoneCommitted, Adds
    <3>4. RowsRest(r)
      BY <2>5, <2>7 DEF RowsRest, MutationLogRows
    <3> QED
      BY <1>3, <3>3, <3>4, TellsStill
  <2> QED
    BY <2>6, <2>7
<1> QED
    BY <1>2, <1>5, <1>6

LEMMA TellInvNext ==
    ASSUME Base, CallInv, StoryInv, TellInv, [AuditNext]_auditVars
    PROVE  TellInv'
<1>1. [RunnerNext]_runnerVars
    BY AuditIsRun
<1>2. PermitsStay /\ VersionsGrow /\ TypeOK /\ LedgerInv
    BY <1>1, StepKeeps
<1>3. /\ DOMAIN trace = Runs
      /\ \A q \in Runs : IsTrace(trace[q]) /\ TellsLedger(q) /\ LastRow(q)
    BY DEF StoryInv, RunTells, TellInv
<1>4. ASSUME NEW q \in Runs, trace'[q] = trace[q], RowsRest(q)
      PROVE  TellsLedger(q)' /\ LastRow(q)'
  <2>1. Longer(q) /\ NoneCommitted(q)
    BY <1>3, <1>4, SameTrace DEF Quiet, NoneCommitted
  <2> QED
    BY <1>3, <1>4, <2>1, TellsStill
<1>5. ASSUME NEW r \in Runs, AuditStep(r) PROVE TellInv'
  <2>1. RunStep(r)
    BY <1>5 DEF AuditStep, RunStep
  <2>2. Grown(r)
    BY <1>5, RunGoesOn
  <2>3. TellsLedger(r)' /\ LastRow(r)'
    <3>1. CASE Goes(r) /\ Rests(r)
      <4>1. Longer(r) /\ NoneCommitted(r)
        BY <3>1 DEF Goes, Grown, Quiet, NoneCommitted
      <4>2. RowsRest(r)
        BY <3>1 DEF Rests, RowsRest, MutationLogRows
      <4> QED
        BY <1>3, <4>1, <4>2, TellsStill
    <3>2. CASE CallStep(r) /\ UNCHANGED agent /\ Emit(r, AnswerEvents(r, call[r].proposal))
      BY <1>2, <1>3, <3>2, CallTellsLedger
    <3> QED
      BY <1>2, <1>5, <3>1, <3>2, StepGoes
  <2>4. ASSUME NEW q \in Runs \ {r} PROVE TellsLedger(q)' /\ LastRow(q)'
    <3>1. trace'[q] = trace[q] /\ phase'[q] = phase[q] /\ call'[q] = call[q]
      BY <2>1, <2>2, OthersKeepStill DEF Grown
    <3>2. /\ MutationLogRows(q)' = MutationLogRows(q)
          /\ \A j \in MutationLogRows(q) : mutation_log'[j] = mutation_log[j]
      <4>1. CASE Commit(r)
        BY <1>2, <4>1, CommitAddsRow DEF MutationLogRows
      <4>2. CASE UNCHANGED mutation_log
        BY <4>2 DEF MutationLogRows
      <4>3. Commit(r) \/ UNCHANGED mutation_log
        BY <2>1, OnlyItsCommitWrites
      <4> QED
        BY <4>1, <4>2, <4>3
    <3> QED
      BY <1>4, <3>1, <3>2 DEF RowsRest
  <2> QED
    BY <2>3, <2>4 DEF TellInv
<1>6. CASE (WorldStep /\ UNCHANGED <<executorVars, agent, trace>>) \/ UNCHANGED auditVars
  <2>1. UNCHANGED <<phase, call, trace, mutation_log>>
    BY <1>6 DEF auditVars, runnerVars, vars, executorVars, storeVars, WorldStep, EditOrder,
                EditPayment, EditShipment, Tick, ledgerVars
  <2>2. \A q \in Runs : RowsRest(q)
    BY <2>1 DEF RowsRest, MutationLogRows
  <2> QED
    BY <1>4, <2>1, <2>2 DEF TellInv
<1> QED
    BY <1>5, <1>6 DEF AuditNext

LEMMA TellInvInit == AuditInit => TellInv
<1> SUFFICES ASSUME AuditInit, NEW r \in Runs PROVE TellsLedger(r) /\ LastRow(r)
    BY DEF TellInv
<1>1. PICK e : e = Plain("user_request_received")
    OBVIOUS
<1>2. e.type = "user_request_received" /\ trace[r] = <<e>>
    BY <1>1 DEF Plain, Event, AuditInit
<1>3. TracedCommits(r) = {}
    BY <1>2 DEF TracedCommits
<1>4. RowsToTell(r) = {} /\ phase[r] = "idle"
    BY DEF AuditInit, RunnerInit, Init, StoreInit, ExecutorInit, RowsToTell, MutationLogRows
<1> QED
    BY <1>3, <1>4 DEF TellsLedger, LastRow

(* The mutation_committed events of a run are its rows of mutation_log,    *)
(* the same permits in the same order and each of them once (audit.py:7-11, *)
(* executor.py:64-96): no replay, retry, rejection or lost response adds   *)
(* one or leaves one out, and only a run between COMMIT and the event is   *)
(* one short.                                                              *)
THEOREM TraceTellsLedger == AuditSpec => []TraceTellsTheLedger
<1>1. AuditInit => RunnerInit
    BY DEF AuditInit
<1>2. [AuditNext]_auditVars => [RunnerNext]_runnerVars
    BY AuditIsRun
<1>3. AuditSpec => RunnerSpec
    BY <1>1, <1>2, PTL DEF AuditSpec, RunnerSpec
<1>4. Base /\ CallInv /\ StoryInv /\ TellInv /\ [AuditNext]_auditVars => TellInv'
    BY TellInvNext
<1>5. TellInv => TraceTellsTheLedger
    BY DEF TellInv, TellsLedger, TraceTellsTheLedger
<1> QED
    BY <1>3, <1>4, <1>5, TellInvInit, StoryHolds, CallInvHolds, PTL DEF AuditSpec
=============================================================================
