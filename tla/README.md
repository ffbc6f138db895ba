# Bounded Refund Agent: specification and proofs

TLA+ models of the agent in `src/`: what it may write, when, and what it tells
its caller. `src/` is the reference: every definition is translated from the
code, and `PROJECT.json` ("map") names the lines each one stands for.

An LLM (here a scripted planner) proposes an action; a deterministic policy
allows, denies or escalates it; the server issues a single-use permit for an
allowed proposal; the executor, the only component that may write, checks the
permit against the world and commits. The world (an SQLite file) may change
between any two of these steps, another run may hold its own connection to it,
a response may be lost after its commit, and a process may die. An audit trace
and an evaluator tell afterwards what happened, and a release gate sums up.

## 1. The system

| component (`src/...`) | state | operations | module |
|---|---|---|---|
| domain model (`app/models/domain.py`, `schemas.py`) | none | closed enums, transition tables | `Domain` |
| policy engine (`app/policy/rules.py`) | none | `evaluate` | `Policy` |
| world store (`app/models/db.py`) | tables `orders`, `payments`, `shipments`, `support_tickets`, `refunds`, `execution_permits`, `execution_records`, `mutation_log`; the write lock | fetches, `immediate_transaction` | `Store`, `Transaction` |
| write tools (`app/tools/write_tools.py`) | none of their own | `cancel_order`, `issue_refund`, `create_support_ticket` | `Store`, `Transaction` |
| permit issuer (`app/executor/permits.py`) | `_sequence` per run | `issue_permit`, `load_permit` | `Store`, `Executor` |
| executor (`app/executor/executor.py`) | locals of a call | `execute` | `Executor`, `Transaction` |
| runner (`app/agent/runner.py`) | locals of `run`, `_attempt` | attempt, replan, escalate, chain, replay, verify, report | `Runner` |
| read tools (`app/tools/read_tools.py`) | tries of a read | four reads | `Runner` (any read may give up), `Scenario` (try by try) |
| scripted planner (`app/agent/planner.py`) | position in the script | `propose` | `Runner` (any script) |
| failure injection (`simulator/failures.py`) | counters | row edits, read timeouts, lost responses | `Executor`, `Runner` (at any point), `Scenario` (by counter) |
| clock (`app/clock.py`) | the time | `now` | `Store` (`now`, `Tick`) |
| seed data (`simulator/data.py`) | none | `seed_world` | `Store` (`StoreInit`) |
| audit trace (`app/audit.py`) | list of events | `emit` | `Audit`; its `mutation_committed` count is `emitted` in `Executor` |
| evaluator (`evals/run_eval.py`) | none | `observe`, `derive_outcome`, `count_policy_bypass`; `aggregate` | `Evaluator`; `Release` |
| release criteria (`evals/release_criteria.py`) | none | `evaluate`, `verdict` | `Release` |
| live planner, command line | none | adapter, printing | not modelled |

How they interact: `Runner.run` calls the planner, the read tools, `evaluate`,
`issue_permit` and `Executor.execute` in turn, in one thread. `execute` calls
one write tool inside one `BEGIN IMMEDIATE` transaction. Runner and executor
both append to one trace. The evaluator runs a scenario and reads the tables it
leaves. Everything else the components share is in the tables.

### What is hard, and what makes it correct

* `execute()` reads the permit, the target row, and the execution record in
  three statements before its transaction. Anything may happen in between.
  Correct means: the guarded `UPDATE ... AND version = ?` makes what was checked
  still true (`OutdatedIsFinal`, `AgentMovesAreLegal`), and the tables written by
  a commit agree (`LedgerAgrees`, `EveryRowIsAuthorised`).
* A commit is five statements. Another connection, an exception or the end of
  the process may come between any two: nobody sees part of it
  (`CommitIsAtomic`), nobody waits for ever (`LockIsReleased`), and a call ends
  however it is interfered with (`CallsEnd`).
* A lost response and its retry: the permit is used and the version has moved,
  so both would be rejected; the stored result must be preferred
  (`SpentPermitIsReplayed`, `AnswersAreTrue`), the audit must not count twice
  (`AuditCountsLedger`, `TraceTellsTheLedger`), and a run that still ends with an
  exception has lost nothing but the answer to its ticket (`CrashOnlyLosesTicket`).
* Several permits for one payment: it is refunded once (`RefundedOnce`).
* The policy decides on a snapshot read record by record: what it required must
  still hold at the commit (`PolicyHoldsAtCommit`).
* A run retries, replans, chains and replays: it ends (`RunsEnd`), and
  its report, its tables, its trace and the evaluator's judgement tell one story
  (`OutcomeMatchesWrites`, `DatabaseAgrees`, `MutationIsExplained`,
  `BypassGateIsQuiet`, `DuplicatesAreTickets`).
* Counters that outlive an attempt: failed reads are counted across replans
  and chained proposals (`ShortOutageIsSurvived`).
* The cascade of the policy has boundaries (amount 0, limit 0, last day of the
  window) and an order of rows (`FollowsDesign`, `AskingLessIsNoWorse`,
  `WaitingNeverHelps`).
* Rates are rounded before they are compared (`PassIsEarned`).

`PROJECT.json` ("hazards") lists each of these at its line, with the ones no
property covers and why.

## 2. The modules

* **`Domain`**: statuses, transitions, actions, identities, `NULL` for `None`.
* **`Policy`**: `Evaluate(proposal, snapshot)`, row by row as in `rules.py`. A
  pure operator; `MCPolicy` enumerates its inputs as states and holds a second,
  independent definition (`Design...`) written from the decision table of
  `docs/DESIGN.md`.
* **`Store`**: a table is a function from its primary keys to rows; the write
  tools are operators over primed tables, one conjunction per transaction. `WorldStep` is
  what happens behind the agent's back. `mutation_log` rows carry `by`, the
  permit they were written under, which the code does not store: it is a history
  variable that only properties read.
* **`Executor`** (extends `Store`): runs with their own issuer, connection and
  call in progress. `phase[r]` says which statement of `execute()` comes next:
  `Present` (load the permit, checks 1-2), `Resolve` (read target and clock, checks
  3-4), `Lookup` (read the record, checks 5-9), `Commit` / `CommitStale` /
  `CommitConflict` (the transaction, its guard failing, an exception of the tool), `Respond`
  (audit event, answer or `ResponseTimeout`). `Issue` and `Present` are as free
  as the code lets a caller be: any run may present any permit with any proposal,
  since `load_permit` looks up by id only.
* **`PermitBoundary`**: the promise, without keys, versions, expiry or records:
  grants spent once, within their ceiling, one refund per payment.
  `Executor!KeepsPromise` is the refinement (`INSTANCE ... WITH`).
* **`Transaction`** (extends `Executor`): the same calls with the transaction one
  SQL statement at a time. `lock` is SQLite's write lock, `tx[r].db` the private view
  of the open transaction, `tx[r].at` the next statement. `Busy` is the timeout of a
  waiting `BEGIN`; `Restart(r)` ends the process of a run anywhere inside
  `execute()` and starts it again under the same id, with an issuer that counts
  from zero. `Executor` is its abstract specification, with `Interrupted` added for a
  call that is cut off: `CommitIsAtomic`.
* **`Runner`** (extends `Executor` and `Policy`): replaces the free caller by the
  code's. `agent[r]` is the record of the locals; each action is one database
  statement or one decision. The planner's script is arbitrary up to `MaxProposals`
  entries, the entries that fail the schema gate included.
* **`Audit`** (extends `Runner`): `trace[r]`, and for each step of a run the events
  the code emits during it, in their order. `Executor._emit` reads the row again, so
  `VersionShown` reads the table and not the call's copy.
* **`Scenario`** (extends `Audit`): `injector[r]` counts down what
  `FailureInjector` counts up. It only restricts: a read gives up, a response is
  lost, a row is edited when the counter says so. `RetryRead` is one failed try of
  `ReadTools._call`; `ApplyChange` is one `StateChange` between the checks and `BEGIN`.
* **`Evaluator`** (extends `Scenario`): `observe`, `derive_outcome` and the counts
  as operators over the tables; `ticket_reasons` is the one column only the judge
  reads.
* **`Release`**: `aggregate` counts results one by one, `Verdict` is the gate. Rates
  are in ten-thousandths, as the code rounds them.
* **`ExecutorProofs`** (the executor and its ledger), **`ClientProofs`**
  (the executor under any caller), **`TransactionProofs`**, **`RunnerProofs`**,
  **`AuditProofs`** (traces and scenarios), **`EvaluatorProofs`** (the judge),
  **`PolicyProofs`**, **`ReleaseProofs`**: theorems.
* **`MCPolicy`, `MCExecutor`, `MCRunner`, `MCEvaluator`**: instances for TLC;
  `Transaction` and `Release` are checked as they are.

What was merged or assumed, and why that loses nothing:

* In `Executor` the body of `_commit` is one step. That is what
  `TransactionProofs!AtomicCommit` proves of the statements.
* `_escalate` reads the order and issues the permit in two statements; they are
  one step, because an edit between them has the same effect as one just after
  the second (the permit pins the version read).
* The two tries of a read are one step in `Runner`: a try that times out reads
  nothing. `Scenario` takes them apart.
* Targets and clock of `Resolve` are read together; `now` only grows, so a later
  reading of the clock is covered by `Resolve` happening later, and the version
  guard decides on the row anyway.
* Events are written in the step they report. The one place where the delay
  matters, between COMMIT and `mutation_committed`, is a step of its own (`Respond`).
* The world may edit any editable column, with or without a version bump
  (`SilentEdits`), with two exceptions: a refunded payment never goes back to
  `CAPTURED`, and `refunded_cents` is not edited. Without them a second refund is
  what the world asked for.
* Of the write tools' own check of their authorization, the comparison of action,
  resource and ceiling is `Covers`; it raises in `CommitConflict`. It is a second
  barrier: `CallKnown` (section 4) implies that no call gets to it uncovered. The check of the
  executor's token (`_authority.py`) is left out: only the executor calls them.
* `issue_permit` can be given a key and a TTL; nothing in `app/` does, and `NewPermit` has
  the derived key and the one `PermitTTL`.
* A `BEGIN` that times out on the lock is in `Transaction` only (`Busy`). `Executor` has it
  as `Interrupted` (`CommitIsAtomic`); `Runner` has not, nor the same error of `issue_permit`. What
  is said of runs, `OnlyStaleOrExpired` and `OutcomeMatchesWrites` above all, is said of runs that
  get the lock; one that does not leaves `run()` with an `OperationalError`.
* A payment exists exactly when its order does, with at most one shipment, as the
  simulator seeds them. `default_order_id` is taken to be empty.
* `refund_policies` is one constant row; a read of it can give up.
* A lost process is restarted at once, and inside `execute()` only: between two calls
  it holds nothing that `Restart` would drop but its sequence number.
* A result that `Release` counts carries at most one fault; a result with several
  counts as several results would for the gates that matter (they forgive none).
* `round` breaks ties to even and `Rate` upwards: the model passes where the code
  might not, so `PassIsEarned` is about at least the code's PASSes.

## 3. The runs

Every cfg says `CHECK_DEADLOCK FALSE`: the end of every run, and the bounds, are places
where the system really stops. That nothing stops earlier is what `CallsEnd`,
`RunsEnd` and `LockIsReleased` say.

| run | what it asks | size |
|---|---|---|
| `policy_table` | over every bounded input: does `Evaluate` agree with the design table when every record was read; can what it allows be executed; does asking for less or acting earlier never do worse | 119,440 states |
| `executor_refund` | two connections, one payment, edits with and without version bump, a ticking clock, lost responses | 757,782 |
| `executor_targets` | two runs, two orders, all three actions, every permit presented by either run with every proposal | 460,416 |
| `transaction` | two connections cancel, refund and open tickets statement by statement while the order and its payment are edited; both may die anywhere; does every call end | 373,948 |
| `scenario` | one run under its injector, all actions, chain, replan and replay, with trace and judgement; with liveness | 434,952 |
| `runner_race` | two runs refund and cancel one order while it is edited and the clock runs, and replay their permits at the end | 1,260,068 |
| `release_gate` | results one after another, the gate asked after each | 323,151 |
| `executor_expired_replay`, `runner_shipped_cancel`, `runner_ticket_missed`, `runner_ticket_lost`, `evaluator_bypass` | one documented claim each, which the code does not keep (section 5) | counterexamples |

### Bounds

* `Runs`: two are enough for every interleaving between one call and one
  interfering call; a third run could only repeat the part of the second. `Orders`: one
  where runs race for it, two in `executor_targets`, where confusion between rows is the
  question. `scenario` has one run, as the evaluator gives each a database of its own.
* `MaxPermits`, `MaxCalls` per run: 1 permit and 2 calls in `executor_refund` (a call
  and its retry; the other run's permit is reachable too), 1 and 1 in `executor_targets`
  and `transaction`, where the retry of a spent or abandoned permit is the other run's
  call. In the runner both are bounded by the code.
* `MaxVersion` 1 to 3: the version stops being edited there; writes still bump
  it. Two edits suffice to make a permit stale and a replan stale again.
* `MaxNow` 1 with `PermitTTL` 0: one tick expires a permit. Both values of the
  comparison occur. In `scenario` and `transaction` the clock stands still: what
  expiry does to a retry is `executor_expired_replay`, and `runner_race` has it on
  first calls.
* `Amounts`, `CapturedCents`, limits of 1 or 2: below, at and above each limit. `runner_race`
  asks for 0 or 2 of a payment that captured 1 or 2, with a limit of 2. It edits no
  payment behind an attempt, which would be beyond TLC's time there: for the clauses of
  `PolicyHoldsAtCommit` about captured amount and status, `PolicyStillHolds` has every edit.
  `transaction` edits no shipment.
* `MaxProposals` 2: a proposal and a follow-up or a replan. Longer chains, over
  several orders, are left to the theorems (`TablesAgree`, `RetriesNeverShow`, `TraceTellsLedger`).
* `Lossy`: the actions whose response may be lost; all of them wherever the
  question is about retries.
* `ReadMaxAttempts` 2, as in the code; `FailureSpecs`: a read that fails once or
  for good, one or two edits, once or at both attempts, one or two lost responses, and a block with
  all three kinds.
* `release_gate`: 24 scenarios as in the code and one more, `MaxFaults` 1.
* Symmetry over `Runs` in safety runs only.

### Fairness

Weak fairness of a run's own steps, in each of `FairRunnerSpec`,
`FairTransactionSpec` and `FairEvaluatorSpec`: `execute()` and `run()` are
straight-line code with bounded loops in one thread, and SQLite returns; a `BEGIN`
that finds the lock taken returns too, after `sqlite3.connect`'s timeout (`Busy`).
Nothing is assumed of the world, of the other runs, of a caller presenting a permit, or of a
process dying. `WF` suffices since a run's next step stays enabled until it
is taken (edits change what it does, not whether it can).

## 4. The proofs

For all `Orders`, `Runs`, `Amounts`, `PermitTTL`, scripts, prices, limits and all
bounds. TLC evaluates every assumption they rest on:

* `NullAssumption`, `ReasonAssumption`, `RowAssumption`: `None` is none of the values it is
  compared with;
* `RecordAssumption`: no row a read tool returns is `None`, which is what it returns for a
  row that is not there;
* `StoreAssumption`, `ExecutorAssumption`, `RunnerAssumption`, `MCPolicyAssumption`,
  `ReleaseAssumption`: the constants have their types; `LimitAssumption`: the automatic
  limit is positive, as in `constants.py`;
* `ScenarioAssumption`: an injector is one that `FailureSpec` can describe, and it
  may lose the response of any action.

| theorem | states | where |
|---|---|---|
| `TypeCorrect` | `Spec => []TypeOK` | |
| `LedgerConsistent` | `Spec => []LedgerAgrees` | |
| `Authorised` | `Spec => []EveryRowIsAuthorised` | |
| `OutdatedStaysUnused` | `Spec => OutdatedIsFinal` | |
| `OneRefund` | `Spec => []RefundedOnce` | |
| `TrueAnswers` | `Spec => []AnswersAreTrue` | |
| `SpentIsReplayed` | `Spec => []SpentPermitIsReplayed` | |
| `TraceCounts` | `Spec => []AuditCountsLedger` | |
| `PromiseKept` | `Spec => KeepsPromise` | |
| `MovesAreLegal` | `Spec => AgentMovesAreLegal` | (a) |
| `OneWriter` | `TransactionSpec => []TransactionTypeOK` | |
| `AtomicCommit` | `TransactionSpec => CommitIsAtomic` | |
| `LedgerSurvives` | `TransactionSpec => []LedgerAgrees` | |
| `OneRefundSurvives` | `TransactionSpec => []RefundedOnce` | |
| `TraceStaysBehind` | `TransactionSpec => []TraceIsNeverAhead` | |
| `RunTypes` | `RunnerSpec => []RunnerTypeOK` | |
| `RunsKeepLedger` | `RunnerSpec => [](LedgerAgrees /\ EveryRowIsAuthorised /\ RefundedOnce)` | |
| `PolicyStillHolds` | `RunnerSpec => PolicyHoldsAtCommit` | (a) |
| `RunKeepsPromise` | `RunnerSpec => KeepsPromise` | (d) |
| `RunMovesAreLegal` | `RunnerSpec => AgentMovesAreLegal` | (a) |
| `OnlyStaleOrExpiredHolds` | `RunnerSpec => []OnlyStaleOrExpired` | (a) |
| `OutcomesMatchWrites` | `RunnerSpec => []OutcomeMatchesWrites` | (a), (b) |
| `MutationsAreExplained` | `AuditSpec => []MutationIsExplained` | |
| `TraceTellsLedger` | `AuditSpec => []TraceTellsTheLedger` | |
| `StaleIsTold` | `AuditSpec => []StaleShowsTheMove` | |
| `ScenariosTellTheirStory` | `ScenarioSpec => [](MutationIsExplained /\ StaleShowsTheMove)` | |
| `OnlyTicketsAreLost` | `ScenarioSpec => []CrashOnlyLosesTicket` | (a) |
| `OnlyEditsCostTickets` | `ScenarioSpec => []OnlyAnEditCostsTheTicket` | (a), (c) |
| `ShortOutagesAreSurvived` | `ScenarioSpec => []ShortOutageIsSurvived` | |
| `BypassGateStaysQuiet` | `EvaluatorSpec => []BypassGateIsQuiet` | |
| `TablesAgree` | `EvaluatorSpec => []DatabaseAgrees` | (a), (c) |
| `RetriesNeverShow` | `EvaluatorSpec => []DuplicatesAreTickets` | (a) |
| `PolicyTypes` | `TypeOK` of `MCPolicy` | |
| `AllowancesAreExecutable` | `AllowedIsExecutable` | |
| `SmallerIsNoWorse` | `AskingLessIsNoWorse` | |
| `WaitingIsNoHelp` | `WaitingNeverHelps` | |
| `DesignIsFollowed` | `FollowsDesign` | |
| `ReleaseTypeCorrect` | `ReleaseSpec => []ReleaseTypeOK` | |
| `PassesAreEarned` | `ShippedThresholds => (ReleaseSpec => []PassIsEarned)` | |

Some hold only under a condition, which is then part of the theorem:

* (a) `~SilentEdits`: whoever edits a row bumps its version. The guard of the
  executor's `UPDATE` compares versions, so under a silent edit it says nothing
  of the row's contents: a payment whose captured amount shrinks behind an unchanged version is
  refunded past it. The tables have versions for this purpose, and a `StateChange` of the
  simulator bumps them unless it is told otherwise (`failures.py:68`, `bump_version`).
  The theorems marked (a) about runs, scenarios and the judge rest on the same
  invariant. What concerns the permits, the ledger and the trace alone, and the judge's
  claims, is proved with silent edits too.
* (b) `RetriesInTime`, which is `Lossy = {} \/ MaxNow <= PermitTTL`: either no response is
  lost, or its retry comes while the permit is alive. Otherwise a retry is told
  `permit_expired` of a write that committed, and the run reports `denied` with a row
  in the ledger: the cause is that of `executor_expired_replay` (`executor.py:126`).
* (c) `MaxNow <= PermitTTL`: the ticket's permit does not expire on the way to `execute()`;
  an expired permit costs the ticket without any edit.
* (d) `0 \in Amounts` and `MaxProposals < MaxPermits`. These say nothing of the runner, which
  has neither bound; they are about the names and the ceilings that `PermitBoundary` is
  instantiated with. A cancel and a ticket have the ceiling 0, and a run asks for one
  permit per entry of its script and one for a ticket. `runner_race` has such values.

**The ledger.** `TypeOK` is inductive by itself. `LedgerAgrees` is not: `Commit` writes
what its call read several steps ago, so the invariant must say what a call may
still rely on. `LedgerInv` adds

* `PermitsKnown`: a key is derived from its permit's id, so keys are unique;
* `RowsKnown`: nothing is written under a permit that was not issued, so a new
  permit starts with no record, refund or ticket;
* `CallKnown`: the call's copy of the row differs from the table at most in `used`; past
  check 3 the row names the proposal's target; past check 9 the copy was unused and the
  amount within its ceiling, which is what `Covers` asks again; after the commit the record is
  there.

`CommitWrites` collects what a commit does to each table; a commit then appends
one row under a permit whose key was free, hence under a permit no earlier row
names. `RefundedOnce` needs `CallPinned`: a call that saw a payment `CAPTURED` at
version v knows that either there has been no refund of it, or the version is
past v. The guard of the `UPDATE` picks the first case. This uses only that
versions never decrease and that the world does not unmark a refund, which is why it
survives silent edits. The answers need only `LedgerInv`: a used permit has a
record, so the lookup replays it before check 5 is reached. `TraceCounts` adds
one to the rows at the commit and one to the events at `Respond`.

**Any client.** The theorems above have a caller bounded by `MaxPermits`, `MaxCalls` and
`Amounts`. `ClientNext` is the executor with a caller that has a permit issued for any
action, row, version and ceiling and presents any permit with any proposal.
`ClientProofs` proves the ledger's invariants (`Kept`) for it; `Executor` and `Runner` are both
such clients (`NextIsClient`, `RunnerIsClient`), so neither has them proved twice. Two
facts about rows do the rest: `VersionsGrow`, and, without silent
edits, `VersionsTell`: a row with the same version is the same row. Hence `CallsSaw`: the row
a call checked still has the status it was checked with, or its version is past the
one the guard names. `PromiseKept` maps each step: `Issue` grants, a commit
spends one open grant within its ceiling, everything else changes no permit,
no ledger row and no refunded amount. `RunKeepsPromise` is the same with `Authorise` and
`BeginEscalation` for `Issue`: `AskInv` says that the amount of a proposal and the
ceiling of a verdict are amounts of the script, and that the permits issued and the
entries left never exceed the script.

**Transactions.** `TxInv`: an open transaction belongs to the holder of the lock,
its private tables are `View(r, k)`, the published ones with the first k - 1
statements applied, and `Passed(r, k)` says that what those statements tested is
true of the published tables. Both are kept because nobody publishes anything while the
lock is held. When the last statement is done the view is what `Commit` writes,
and `Passed` is its guard: the COMMIT is a step of `Executor`; a rollback or a death
publishes nothing and is `CommitStale` or `Interrupted`. The theorems
about the ledger are then carried over by showing that an interruption keeps
`LedgerInv` as well. That is where the restarted issuer matters: nothing in
`LedgerInv` says that ids are below the sequence number, only that a permit is not
issued twice, which the primary key ensures.

**A run.** What a run does depends on what its locals still mean. The invariant is built
in four layers, each using the ones before:

* `AgentInv` ties the locals to the tables: the last permit and the ticket's were issued
  by this run, for the proposal at hand, and a call in progress is about one of them.
* `PinInv`: a snapshot, a verdict and a permit name a version (`Pinned`). A row that still
  has it still satisfies what the policy asked of it; a row that has moved on is stopped
  by the guard. `PolicyHoldsAtCommit` follows at the commit, whatever was edited between
  the reads.
* `CallInv`: a call that has passed a check agrees with the permit it was issued for,
  and so can only fail by version, by expiry or by the amount of a proposal that is
  not a refund. It holds through replans, where `last` may be a permit of an earlier attempt.
* `WriteInv`: how many rows the run has written at each of its steps. Its point is `Dead`: the
  permit of a rejected call (expired, row moved on, amount too large) can never be
  committed later, since versions and time only grow, so the deliberate replay at the end
  writes nothing.

`LossInv` does the same for lost responses: once `execute()` was tried, the
last permit is spent or `Dead` (`LastOver`), a permit that is presented again is never
committed again (`Repeats`), so only the first call of a permit can lose its response. `run()`
catches that one for an action and not for a ticket.

**The story of a trace.** Events stay as they are, so each has to be true when it is written.
`StoryInv` says what the trace so far shows at each step of the run: past
`decide` an allowed decision with no reset after it, past `issue` the permit event
that follows it. A replan starts a new story while the old permit may still
be replayed; `Gone` says that this permit is spent or its row has moved on, so `execute()` commits
nothing for it and no `mutation_committed` needs the old story. No
hypothesis on the edits is needed. `StaleIsTold` needs that versions only grow between
the check and the second read in `_emit`. A scenario only restricts a run
(`ScenarioIsRun`): both theorems carry over as they are.

**The trace and the ledger.** `TellInv` compares the two by permit: each
`mutation_committed` event names a permit, each row was written `by` one, and both come
once per permit. A commit appends a row and leaves its call in `respond`, the one row
that is not yet told; the answer appends the event of just that permit, at the end of
the trace, as its row is at the end of the run's rows. So events and rows are the same permits in the
same order, and no induction over the trace is needed. A retry or a replay is answered
`replayed`, which has another event.

**The judge.** `count_policy_bypass` knows a mutation by its action and row and claims the
first unclaimed permit that fits. It claims the right one if rows come in the order
of their permits (`RowsInOrder`) and every earlier permit for the same action and row was
spent. The first follows from `Latest`: a run writes under its newest permit only, and a replay
of an older one commits nothing (`Gone`). The second fails exactly when a replan
left a permit behind, which is the exception of `BypassGateIsQuiet` and finding 5.
`Judged` is then followed row by row: after n rows it has claimed the permits of those rows
and found nothing. That is an induction over n, from the least n for which it fails
(`SetInduction`).

`TablesAgree` needs what a ticket's reason tells (`ReasonInv`): an escalation's reasons
are those of `EscalationTicketReasons`, and a ticket asked for has another. With `WriteInv`, for what
a run has written when it ends, and `LossInv`, for what became of its ticket, each
outcome can be read in the tables, and an escalation without its ticket was cost it by an edit or
has no order. The property had to be made precise for this: an earlier form excused any
escalation without a ticket, and did not name the chain.

`RetriesNeverShow` has two parts. Without a chain only the latest permit may be spent
(`SpentInv`: what begins again was told `stale_resource_version`, and that is not what a call for
a spent permit is told), so there is one row at most. With a chain, two refunds of one payment
are excluded by `RefundedOnce`. For two cancels of one order `CancelInv` says that a spent cancel
left its order `CANCELLED` at the version it wrote, or the order has a greater one: a later
cancel was decided on a cancellable order, so its permit pins a version past that.

**Outages.** `OutageInv` has two halves. `Counted`: the failures of a read tool still to come,
plus those of the read being tried, are at most those it was given, so a read that gives up
has failed `READ_MAX_ATTEMPTS` times by itself (`LastTryTells`). `Informed`: as long as every row
exists and no tool is given that many failures, the snapshot holds, step by step of
`_snapshot`, all that the action needs (`Complete`), and `Evaluate` says
`insufficient_information` only of a snapshot that does not (`UninformedMeans`). The reason a run
carries may also come from a rejected call (`CallInv`), from an earlier proposal of the chain or from
the script; none of these is that one. No row comes or goes (`RowsStand`), so what was
lacking when the reason was given is still lacking at the end.

**The policy.** `DecidedOnce`: the step of `MCPolicy` decides once, on inputs that do not
change, so each property is a fact about `Evaluate`. The lemmas say when the
cascade of early returns gets as far as each of its ends (`Granted`, `Refundable`), and
`DesignIsFollowed` goes through the rows of the table in order. MCPolicy's sets of amounts,
limits and times are parameters: TLC takes a few boundary values, the theorems all.

**The gate.** A share below a threshold of t tenths misses it by at least
1/(10 d), and rounding adds at most 1/20000: with fewer than 2000 scenarios the rounded
rate cannot reach what the exact one does not. `ShippedThresholds` states this
and the 0.90 of `release_criteria.py`.

Only model-checked:

* liveness (`CallsEnd`, `RunsEnd`, `LockIsReleased`): fairness and `ENABLED` are out of the
  prover's reach;
* the runs that must fail: each shows one behaviour.

Every other property of a passing run is stated by a theorem.

## 5. Where the code and its documents part

Each is a run that must fail, quoted in `PROJECT.json` ("findings"):

1. `executor_expired_replay`: expiry is checked before the stored result, so a
   retry past the TTL is told `permit_expired` of a write that committed.
2. `runner_shipped_cancel`: a cancel pins the order's version only; a shipment
   that leaves without touching the order row does not stop it.
3. `runner_ticket_missed`: nobody looks at the result of the escalation's ticket;
   a run may end `escalated` without one.
4. `runner_ticket_lost`: a lost response to that ticket is not retried and leaves
   `run()` as an exception.
5. `evaluator_bypass`: `count_policy_bypass` takes the first permit of a
   mutation's action and row for the one it was written under. After a replan that
   succeeds that is the stale, unspent one, and a bypass is counted that did not
   happen.

Also met, and written as named exceptions into properties that hold:

* a cancel or ticket proposal that names a positive amount is allowed with a
  ceiling of 0 and then refused by check 6 (`OnlyStaleOrExpired`);
* a chained run whose first proposal committed and whose second was denied
  reports `denied`, although the README says that this wrote nothing: runner.py:136
  keeps the last outcome only (`DatabaseAgrees`, `OutcomeMatchesWrites`);
* an escalation whose ticket was not written leaves tables that tell `denied`, or, in a
  chain that had written before, `completed`; only an edit of the order after the server
  read it, or an order that does not exist, brings this about (`DatabaseAgrees`);
* a chain may cancel an order twice: an edit behind the agent's back brought it back in
  between. `observe` counts this as a duplicate, as it does two tickets that a chain
  asked for (`DuplicatesAreTickets`);
* a record that is missing or could not be read is tested first (`rules.py:90`), before
  the rows DESIGN.md lists above it, so such a request is escalated where the table
  would deny it. `FollowsDesign` compares the two where every record was read, and does not
  speak of this order.

## 6. Not modelled, and the plan

Done, in this order: `Domain`, `Policy`, `Store`, `Executor`, `PermitBoundary`,
`Runner`, `ExecutorProofs`, `Transaction`, `Audit`, `Scenario`,
`Evaluator`, `Release`, `TransactionProofs`, `ReleaseProofs`, `ClientProofs`,
`RunnerProofs`, `AuditProofs`, `EvaluatorProofs`, `PolicyProofs`. What is left would be
more of the same: how many rows a run that chains has written when it ends
(`OutcomeMatchesWrites` is about runs that do not; of the others `DatabaseAgrees` says
what the tables tell).

Not modelled:

* The live planner: its output is an arbitrary raw proposal, which the script
  of `Runner` already covers; what it sends to the model is I/O.
* The command line: argument parsing and printing around `build_runner` and `evaluate`.
* Of the evaluator: `check_expected` and `check_safety` compare with an oracle file written per
  scenario (in `Release` their verdicts are inputs); `count_stale_wrong_executions`
  counts every mutation of an action that was disturbed, a replan that read the new
  version included, and there is no telling from the tables which it was; tool-call
  metrics, latencies and rendering decide nothing.
* Of the release criteria: the secondary metrics, which are declared and never judged.
* A failing COMMIT (`db.py:144` stands outside the `try`): under the write lock only a
  failing disk provokes it.
* Wording, ids and timestamps as text, and the files a trace and a report are written to.
