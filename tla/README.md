# Drassi platform: a TLA+ model of the orchestrator

The Drassi server (`src/internal`) plans workflow runs into job rows, hands the
rows to runners over gRPC, gates them on the jobs they need, rolls runs up,
stores and streams logs, keeps track of which runners are alive, and reports back
to the commit that triggered a run. All of this is done by concurrent handlers over PostgreSQL **without transactions or locks**:
each statement is atomic, a handler is a sequence of statements, and correctness
rests on conditional `UPDATE`s (`WHERE status = $from`). This directory models
those handlers statement by statement, checks them with TLC on small instances
and proves, with TLAPS, the central claims for all instances.

## 1. Inventory

| Component | Source | State | Operations |
|---|---|---|---|
| Job state machine | `store/job_store.go` | `jobs.status` | `jobTransitions`, `TransitionStatus` |
| Tables | `store/job_store.go`, `run_store.go`, `job_output_store.go` | `jobs` (status, lease_id, runner_id, lease_deadline, result, finished_at), `job_outputs`, `workflow_runs.status` | `CreateJob`, `Lease`, `RenewLease`, `RequeueExpired`, `SetResult`, `UpsertOutput`, `SetRunStatus` |
| Planner | `planner/planner.go` | none of its own | one `CreateRun`, then one `CreateJob` per matrix cell, in stage order |
| Dispatcher queue | `dispatch/queue.go` | per stream: candidate batch, rows cached per run; the notifier's list of channels | `AcquireJob`, `acquireOneQueuedJob`, `needsSatisfied`, `skipJob`, `gateRun`, `buildNeedsOutputs`, `canonicalNeedRow`, `wait`, `notify`, `StartJobReaper` |
| Job reports | `dispatch/service.go` | per call: the row resolved from a lease | `ReportStatus`, `CompleteJob`, `finalizeRunIfComplete`, `renewActiveLeases` |
| Runner registry | `dispatch/service.go`, `store/runner_store.go` | `runners.status`, `last_heartbeat` | `RegisterRunner`, `Heartbeat`, `RunReaper` |
| Log ingest and store | `dispatch/service.go`, `logstore/logstore.go` | `log_chunks`, registry of subscriber channels | `StreamLogs`, `Append`, `Publish`, `Subscribe`, `ReplayFrom` |
| SSE log tail | `api/logs.go` | per page: `lastSeq`, channel | `logsSSEHandler`, `logsMaybeFinish` |
| Step status | `dispatch/service.go`, `store/step_store.go` | `steps` | read-then-upsert of a step's row |
| Webhooks | `webhook/github.go`, `webhook/gitlab.go` | per delivery: files still to plan, run ids | gates, `passesFilters`, `planGitHubPushWorkflow` |
| Commit statuses | `github/status.go`, `dispatch/service.go` | the check of a commit (at GitHub) | `ReportStatus`, `reportCommitStatus` |
| REST API | `api/runs.go`, `api/runners.go` | per request: sha, workflow, what the first SELECT read | `POST /runs`, `GET /runs/{id}`, `GET /jobs/{id}`, two lists |
| GitHub and GitLab clients | `github/github.go`, `gitlab/gitlab.go` | none | `ResolveRef`, `FetchWorkflow`, `ListWorkflows` |
| Server main | `cmd/drassi-server/main.go` | both servers, pool, reapers | start, signal, `Shutdown`, `GracefulStop`, deferred calls |
| Front end, stubs, migrations | `web/`, `pkg/`, `migrations/` | none of their own | rendering, generated code, schema |

How they interact:

- The planner inserts rows and the webhook or `POST /runs` then calls `Notify`; every
  `AcquireJob` stream polls the table anyway, so rows of a run can be handed out
  while later rows of the same run are still being inserted.
- A runner gets a `JobLease` from its stream, reports `RUNNING`, streams logs and
  calls `CompleteJob`. All of these name the job by `lease_id`; the handler
  resolves the row once and then works on the row's id.
- `CompleteJob` drives `gateRun`, which skips dependents by rule, pass after
  pass, and finally rolls up the run. `AcquireJob` runs the same skip rule
  defensively, so both sides race for the same rows.
- `Heartbeat` renews leases; `StartJobReaper` gives expired ones back;
  `RunReaper` marks silent runners offline.
- The webhook posts `pending` for a run it has planned; the call that rolls the run
  up posts its outcome, under one context for all runs of the commit.
- A lease carries what each need ended with, read from the rows of the run; the run
  page and the job page read the same tables, two `SELECT`s each.
- Log pages replay the stored log and then follow `Publish`; a page that is too slow
  is dropped, resyncs and reconnects.
- On a signal `run` stops the HTTP server, then waits for every RPC, then closes
  the pool.

What is hard: decisions taken on rows read earlier; several handlers racing for
one conditional `UPDATE`; a lease that is reaped in the middle of the call that
reports on it; retried and late calls; failures between two statements; the
switch from replay to live feed; a wake-up lost between a look and a wait; pages
put together from several reads; the order in which things are shut down; things that must eventually happen although
nobody in particular is responsible. `PROJECT.json` lists each hazard at its line.

What makes each component correct:

- *dispatcher and reports*: nothing runs before its needs have finished, blocked
  rows do not run, finished rows stay finished (`NeedsSafe`, `BlockedNeverRuns`,
  `TerminalIsFinal`); stale decisions change nothing (`ImplementsLifecycle`),
  outcomes are those reported (`OutcomeWasReported`, `ReportedResultStored`), runs
  roll up once and right (`RollUpSound`), leases come back (`LeasedSettles`), runs
  finish (`RunFinishes`, for the workflows for which the code guarantees it);
- *logs*: a page sees every chunk once and in order (`NoGap`, `InOrderOnce`), and
  `end` means complete (`EndIsComplete`) and comes, unless the page has closed its stream
  or was refused (`ReadersEnd`);
- *registry*: the dead become offline for good, the living are seen online
  (`DeadGoesOffline`, `PingingSeenOnline`);
- *webhooks and checks*: a delivery plans exactly the workflows it triggers
  (`FanOut`); a check shows only an outcome some run of the commit was rolled up to
  (`CheckIsEarned`), and shows one when all of them are over (`CheckSettles`);
- *views*: a page that shows the end shows all of it (`RunPageConsistent`,
  `JobPageConsistent`), a step keeps its start (`StepStartKept`), a dependent is told
  what its needs ended with (`NeedsTold`), by the cell that finished last
  (`CanonicalIsLast`);
- *wake-up*: no channel is closed twice (`ClosedOnce`), no waiter is dropped
  (`NoWaiterForgotten`), a queued row is leased in the end (`QueuedIsServed`);
- *POST /runs*: a run is planned from the commit it records (`RunMatchesCommit`), and
  its answer says what happened (`AnswerIsTrue`);
- *shutdown*: handlers end before the pool does (`PoolOutlivesHandlers`), and the
  process ends (`ShutdownEnds`).

## 2. Modules

| Module | Role |
|---|---|
| `Workflow` | Constants of planned workflows (rows, matrix cells, needs, `if:` overrides, stages) and the pure decisions over a snapshot of statuses: `AllTerminal`/`AnyBlocking` (the pair `needsSatisfied` returns), `SkipByRule`, `Leasable`, `RunComplete`, `RollUp`. |
| `JobLifecycle` | Abstract specification: `jobs.status` with every decision taken atomically on current statuses. |
| `Store` | The tables, one operator per SQL statement. |
| `Dispatch` | Planner, `AcquireJob` streams, `ReportStatus`/`CompleteJob` calls with gating and roll-up, lease deadlines, heartbeat renewal, reaper, failures. Composes `Store`; instantiates `JobLifecycle`. |
| `JobLogs` | The log of one job, from `StreamLogs` to the page. |
| `RunnerPresence` | `runners.status` under registration, heartbeats and `RunReaper`. |
| `CommitStatus` | From a push to the check on its commit: both webhook handlers, the choice of workflow files, roll-up and posting. |
| `JobViews` | What is read back: run page, job page and `needs_outputs`, against step reports, completions and skips. Composes `Store` and the decisions of `Workflow`. |
| `Wakeup` | `POST /runs`, `jobQueueNotifier`, the reaper and the waiting `AcquireJob` streams. |
| `Shutdown` | `run` of `main.go` and the handlers it has to wait for. |
| `MCDispatch`, `MCJobLogs`, `MCCommitStatus`, `MCJobViews`, `MCWakeup` | Workflow shapes, requests and symmetry for TLC. |
| `WorkflowProofs`, `JobLifecycleProofs`, `DispatchProofs`, `JobViewsProofs`, `WakeupProofs`, `CommitStatusProofs`, `JobLogsProofs`, `ShutdownProofs` | Lemmas, theorems and proofs about the module they are named after; `WorkflowProofs` has the facts about gating decisions the others cite. |

Operators whose comment begins with "Defect" are not used by any
specification. Each is a plausible bug of the definition that follows it; putting
it in that definition's place makes TLC report a violation of the property
`PROJECT.json` pairs it with, which shows the property is sensitive to the code.

### State and actions against the code

*Dispatch, streams.* `sPc` is the statement an `AcquireJob` stream runs next:
`poll` (its `select`), `scan` (the candidate loop), `skipResult` (between
`skipJob`'s two statements), `send` (leased, not yet sent). `sBatch` is what is
left of `ListQueuedJobs`' result and `sCache` the `runJobsCache`: a run's rows
are read at most once in a pass and decide about all its candidates, however old
they are by then. Lease ids are drawn from `1..MaxLeases`; `leaseJob`, `verdict`
and `received` remember what each was granted for, what its runner reports, and
who got it.

*Dispatch, planner.* `plan` is `inserting` while rows are inserted one by one; a failing
`CreateJob` leaves it `failing`, and the `SetRunStatus` that follows, whose own failure
the code ignores, `failed`. Runs in `PrePlanned` are `done` from the start.

*Dispatch, calls.* `cPc` walks through the statements of `CompleteJob`:
`setResult`, `toRunning`, `toTerminal`, `outputs`, then `gateRun`'s loop
(`gateList`, `gateSkip`, `gateResult`), `finalize`, `setRun`, `reply`;
`report` is the one transition of a `RUNNING` `ReportStatus`. A call keeps the row
it resolved (`cJob`) even if the row loses the lease. An `ErrIllegalTransition` is
tolerated where the code tolerates it. `GateFails` is a failed statement inside
`gateRun` (logged, the call still succeeds); `CallFails` is any other failure, a
crash or a lost reply, after which the runner may call again.

*Dispatch, time.* `lease_deadline` is reduced to whether it has passed.
`LeaseLapses` is free for a lease nobody attends to; for a live runner (a delayed
heartbeat) it uses up `MaxLapses`.

*JobLogs.* A chunk is its lease and its seq. A handler (`hPc`) receives, appends
(`ON CONFLICT DO NOTHING`), publishes; it resolves the lease once per stream. A
reader (`rPc`) connects, subscribes, replays, follows its channel, resyncs when
dropped, drains and replays once more when the job has finished. It is over
(`Over`) when it got the end event, when its page closed it because the page's own poll
saw the job finished (`PageCloses`, `JobLogsPage.tsx`), or when `GetJob` failed on
connecting (`ConnectFails`: an EventSource does not come back after a 500). `shown` is what
the page has, and its last seq is the `Last-Event-ID` it reconnects with.

*RunnerPresence.* One ping is three steps: `GetByID`, `UpdateHeartbeat`, and
`SetStatus` if the row read first was not online; then the ack.

*CommitStatus.* A handler (`pc`) goes from `new` through the gates to `github` or
`gitlab`; GitHub's lists the files and then plans (`files`) and announces
(`pending`) one at a time. `run` is `workflow_runs.status` of the run of a delivery
and a file. Planning is `CreateRun`, then any number of `InsertRow` steps (`plan`), and
`PlanDone` or, when an insert fails, `planFailed` and `SetPlanFailure`. The rows of a run are
reduced to whether all that are there are finished (`rows`) and what they add up to
(`worst`), which further rows can only make worse. A finalizing call (`call`) lists the
rows and keeps its own `runStatus`, stores it in a later step and posts it in a third, as
`finalizeRunIfComplete` and `reportCommitStatus` do; two calls may have listed different rows.
`shown` is the check of each commit; `late` remembers the runs announced after
their outcome and `early` those a call listed while `Plan` was at work on them. A request
carries the entries of `.github/workflows` at its commit, each with a type and an extension.

*JobViews.* `plan` is that of `Dispatch`. `work` counts the calls the runner of a lease is done with: each step
starts and ends, then the job completes. A call (`cPc`) is `listSteps`,
`upsertStep`, `startJob` for a step report and `setResult` to `setRun` for
`CompleteJob`. `GiveUp` is the runner's deadline passing: it repeats the report or
goes on while the handler may still write. The stream (`sPc`) leases, reads the
rows of the needs (`told`) and sends. A page (`pPc`) holds what its first `SELECT`
returned, and of which run or job (`pOf`), while everything else goes on. `early`
remembers the runs whose status was set before its time, by a `Plan` that failed
or by a roll-up computed during the inserts. The time of a step is named by the lease
that reported it; `finished_at` is a clock on which two rows can coincide.

*Wakeup.* `post` is the next step of a request's handler, or its answer. `subs` is
the notifier's list; `taken` the channels a `notify` has taken out of it and
closes one by one after it has released the lock; `closed` the closed ones some
`select` still holds. A stream is at `scan`, `wait` (between the scan that found
nothing and `queue.wait()`), `select` or `send`. `gone` are the streams whose
context is done.

*Shutdown.* `main` is what `run` does next; the deferred calls run in reverse
order, also when a listener fails. A request has a number of statements left, each
of which needs the pool; log pages and Heartbeat streams last until the other side
leaves.

### Abstractions

- Row ids are only their order (`Rank`); rows of a run may be ranked against
  their stage order, since uuids are not ordered by insertion.
- Of the contents of a `JobLease` only the results of the needs are modelled, in
  `JobViews`; the rest is copied from columns nobody changes. In `Dispatch` one
  call's outputs are named by the lease that reported them.
- In `Dispatch` a `Notify` is not told apart from the poll timer: a stream at its
  `select` may scan at any time. `Wakeup` tells them apart, over rows without needs.
- `JobViews` decides who is leased and skipped on current rows, in one step:
  `DispatchRefines` shows that the real, stale decisions move rows in the same way.
  Retried completions are in `Dispatch`, retried step reports in `JobViews`.
- In `Wakeup` a channel nobody can refer to any more gives its name to the next one,
  and a commit is its position on the branch.
- In `Shutdown` statements are atomic, so the pool has none to wait for when it is
  closed, and all requests are alike.
- A `RUNNING` report that resolves a row past `leased` can change nothing any
  more and is left out.
- A runner sticks to the result it reports for a lease when it repeats the call.
- In `CommitStatus` a filter pattern is the set of names it matches, and a run's
  rows are what they add up to. Runs planned by hand post nothing and are left out.
- act's parsing, staging and matrix expansion appear as the assumption
  `PlanIsStaged` on the constants: a need names a job of the workflow, and a job is
  in a later stage than everything it needs.

## 3. Runs

Passing runs:

| Run | Instance | Shows |
|---|---|---|
| `dispatch_gating` | matrix of 2 cells, `b` behind it, `c` and an `always()` job `d` behind `b`, 1 runner, 2 concurrent calls | racing completions, gate passes and scans on stale rows keep `needs` and skips, move every row like the atomic lifecycle, and the run is rolled up at its end and correctly |
| `dispatch_rough` | 2 rows planned one by one, 2 runners, 1 fault anywhere, 1 lease lapsing under a live runner | a failed statement, dropped stream, crash, lost reply and retry, half-inserted run, or two runners on one row, invent no outcome and open no gate |
| `dispatch_live` | 2 rows, 2 overlapping calls, 1 runner that may die, a batch of just these rows | the run is always rolled up unless the runner dies; if it does, no row stays `leased`; finished rows stay finished |
| `logs_bridge` | 1 page, channel of 1, 3 chunks, 1 lost connection, 1 fault | replay, live feed, drop, resync and reconnect lose no chunk of a lease; `end` means complete, and every page of a finished job gets it unless it closed its stream or was refused |
| `logs_rough` | 2 overlapping handlers, 2 leases, 2 chunks, 1 lost connection | no page sees an event twice or out of order, whatever is resent or published late |
| `runner_presence` | 1 runner with 3 overlapping streams, 2 breaks | dead runners end up offline for good; live ones keep being seen online |
| `commit_status` | a delivery of any kind (a push, a tag, GitLab, rejected requests), 2 workflow files with filters of all kinds, a directory and another file, rows inserted and finished at any time, up to 2 finalizing calls per run, 1 fault | each delivery plans what it triggers and nothing else; posts that overtake each other, or come from calls that listed different rows, invent no outcome, and leave one when all is over |
| `job_views` | a job with a step, a matrix of 2 cells behind it, an `always()` job behind that, planned row by row, 2 calls, 2 clock times, 1 trouble: a failing insert, a report given up on or a lapsed lease | pages and leases read in the middle of everything are consistent |
| `wakeup` | 1 request, 1 row, 2 runners of 2 slots, a reaper, any two of push, idle poll, lapse, disconnect and fault | the notifier neither panics nor forgets a waiter, the request is answered truly, and a queued row is leased although its `Notify` is lost or never sent |
| `shutdown` | 2 requests of 2 statements, 1 log page, 2 runners | a signal or a failed listener at any time: RPCs find the pool open to their end; the process ends once the runners have left |

Runs that show a disagreement between code and comment (section 6):
`find_outcome`, `find_running`.

### Bounds

- `MaxLeases` is at least the number of rows, plus one for each lapse and fault
  and two for each death a runner survives (a dying runner can lose the lease it
  holds and one its stream still draws), so it never keeps a row from being
  handed out.
- Two calls are enough for two completions to gate one run, for a retry to
  overlap the call it repeats, and for a late completion to meet the next lease's.
- Two cells and two levels of dependents give an incomplete matrix group, a row
  whose needs are mixed, and a skip that cascades. `Rank` puts dependents first, so
  scans meet rows that are not leasable yet.
- `Reports` has a result that blocks and one that does not. The other two
  terminal results differ from these only in `RollUp`.
- `BatchSize` (the code's 10) is one less than the rows of `dispatch_gating`, so that a
  batch can miss one, and exactly their number in `dispatch_live`: `RunFinishes` speaks
  of workflows of one level of needs whose rows fit in one batch, and section 6 says what
  happens to others.
- In `job_views` the job whose steps are reported has one of them: rows of different
  steps do not meet. Two clock times let two cells finish at once or one after the
  other. Pages whose first `SELECT` shows nothing finished promise nothing and are
  not followed (`FollowFinished`).
- In `wakeup` at most three channels are in the notifier's lists (`FewChannels`): one
  per waiting stream and one left behind by a timeout. One row is enough for streams to
  race for it, for its `Notify` to be lost, and, requeued, for a second lease of one
  stream; more rows only keep streams from waiting. Timers that fire while a row
  is queued are not counted, and `TwoTroubles` counts only the rest, so no bound keeps a row from being served.
- `Buffer` 1 for the code's 256: the channel is full after one chunk, so three
  chunks make a page take one, be dropped with one buffered, and resync. Pages do
  not influence each other, so one is enough.
- Posts of different commits do not meet, and deliveries only meet in the check of
  their commit, as the runs of one delivery do, so one commit and one delivery of two files
  are enough. Two calls per run (`MaxFinals` 2), three in all (`FewCalls`), let one
  list rows, be overtaken by the other, and store and post an older outcome after it,
  next to another run's post.
- In `job_views` at most one row is leased while rows are still inserted, and two once the
  run's status was set before its time (`FewLeases`). One is enough for the first row
  to finish before the others are there.
- The faults, cuts, lapses, deaths and the like are bounded by counters
  (`MaxFaults`, `MaxCuts`, `MaxLapses`, `MaxDeaths`, `MaxTroubles`, `MaxDrops`). They can strike at any step.
- `SYMMETRY` is used over runners, calls, readers and handlers, in runs without liveness properties only.
- Deadlock is checked except in `dispatch_live` and `runner_presence`, where the
  only runner may die, in `commit_status` and `job_views`, where all deliveries and
  jobs end, and in `wakeup`, where idle streams wait once the polls are used up.

### Fairness

Weak fairness only, of what the Go runtime and the timers guarantee:

- *Dispatch*: planner, streams and calls go on (goroutines are scheduled,
  statements return); a live runner finishes the lease it works on and calls
  `CompleteJob` until it is answered; the deadline of a lease nobody attends to
  passes; the reaper ticks. Nothing is assumed of heartbeats, `RUNNING` reports,
  faults or deaths. A bounded lapse of a live runner's lease is not forced either.
- *JobLogs*: a chunk in hand is appended and published; a page's connection goes
  on, its keep-alive ticks, and an EventSource that lost its connection opens another,
  unless it was closed or refused. That the page polls the job is not assumed, nor anything
  of runners: they may stop logging or never open a stream.
- *RunnerPresence*: a live runner registers and pings on each of its streams; a
  dead one misses its pings; handlers and `RunReaper` go on.
- *Wakeup*: a stream goes on, its timer fires, and a runner whose call has ended
  calls again. Nothing is assumed of `notify`, of requests or of the reaper.
- *Shutdown*: `run` and the handlers go on. Nothing makes a runner or a browser leave.

## 4. Proofs

Every theorem holds for all values of the constants its module's `ASSUME` admits. What
is assumed:

- *Workflow, Dispatch*: `PlanIsStaged` (section 2) and types; runs, rows, runners,
  calls and bounds are arbitrary.
- *Wakeup*: requests are finitely many, their rows are their own, a runner has at least
  one slot. Finiteness is needed because a new channel's name is one that is not in any
  of the lists.
- *CommitStatus*: a listing of `.github/workflows` is finite and ordered by name (`Rank`
  is injective); a filter does not match the branch of a push that has none; a request
  comes from one of the two hosts. Deliveries, requests and filters are arbitrary.
- *JobLogs*: the buffer has room for a chunk. Handlers, leases, pages, chunks and cuts
  are arbitrary. `NoGaps` and `EndsComplete` have the hypothesis `OneStream` (one lease,
  one stream at a time), as the run `logs_bridge` does; section 6 says why.
- *JobViews*: `PlanIsStaged`; rows are finitely many and their ids ordered (`Rank` is
  injective), since `canonicalNeedRow` goes through a list of rows and breaks ties by id;
  the clock shows at least one time. Runs, steps, calls and leases are arbitrary, and so
  is which runs are planned row by row.
- *Shutdown*: requests are finitely many and have at least one statement.

| Theorem | Statement |
|---|---|
| `JobLifecycleProofs!LifecycleSafe` | the lifecycle keeps its type, `NeedsSafe` and `BlockedNeverRuns` |
| `JobLifecycleProofs!LifecycleFinal` | `TerminalIsFinal` |
| `DispatchProofs!TypeCorrect` | `Dispatch` keeps `TypeOK` |
| `DispatchProofs!DispatchRefines` | `Dispatch` implements `JobLifecycle` |
| `DispatchProofs!DispatchNeedsSafe` | `Dispatch` keeps `NeedsSafe` |
| `DispatchProofs!DispatchBlocked` | `Dispatch` keeps `BlockedNeverRuns` |
| `DispatchProofs!DispatchFinal` | `Dispatch` has `TerminalIsFinal` |
| `DispatchProofs!OutcomesReported` | `OutcomeWasReported` |
| `DispatchProofs!ResultsStored` | `ReportedResultStored` |
| `DispatchProofs!RollUpsSound` | `RollUpSound` |
| `JobViewsProofs!ViewsTyped` | `JobViews` keeps `TypeOK` |
| `JobViewsProofs!RunPagesAddUp` | `RunPageConsistent` |
| `JobViewsProofs!JobPagesComplete` | `JobPageConsistent` |
| `JobViewsProofs!StepStartsKept` | `StepStartKept`, an action property |
| `JobViewsProofs!CanonicalLast` | `CanonicalIsLast` |
| `JobViewsProofs!NeedsToldRight` | `NeedsTold` |
| `WakeupProofs!TypeCorrect` | `Wakeup` keeps `TypeOK` |
| `WakeupProofs!NeverClosedTwice` | `ClosedOnce` |
| `WakeupProofs!WaitersKept` | `NoWaiterForgotten` |
| `WakeupProofs!RunsMatchCommits` | `RunMatchesCommit` |
| `WakeupProofs!AnswersTrue` | `AnswerIsTrue` |
| `CommitStatusProofs!ChecksEarned` | `CheckIsEarned` |
| `CommitStatusProofs!ChecksSettle` | `CheckSettles` |
| `CommitStatusProofs!DeliveriesFanOut` | `FanOut` |
| `JobLogsProofs!TypeCorrect` | `JobLogs` keeps `TypeOK` |
| `JobLogsProofs!EventsInOrder` | `InOrderOnce` |
| `JobLogsProofs!NoGaps` | `NoGap`, for `OneStream` |
| `JobLogsProofs!EndsComplete` | `EndIsComplete`, for `OneStream` |
| `ShutdownProofs!ShutdownInOrder` | `PoolOutlivesHandlers` |
| `ShutdownProofs!TypeCorrect` | `Shutdown` keeps `TypeOK`, the number of rows included |

*Types.* `TypeOK` is not inductive: a call writes to the row it resolved, so
`CallsBusy` is added (a busy call has a lease and a row).

*Refinement.* A step of `Dispatch` that leases or skips a row decided on old
rows; the abstract step must be allowed on the current ones. `GateInv` says why
it is: rows are inserted after everything they need (`NeedsInserted`, from the
stages); a snapshot is read after the candidates it decides about were listed, so
none of their needs is missing from it (`BatchInserted`); what a snapshot says of
a finished row is still true, since finished rows do not change (`CacheTrue`); and
rows found to be skipped by rule stay so (`TodoTrue`). A leasable or skippable
verdict only depends on finished needs, so it is the same today
(`CandidateDecided`). Every other change of `status` is a conditional `UPDATE`
along `jobTransitions`. `LifecycleSafe` and `LifecycleFinal` are proved of the abstract
specification alone. The same is then proved of the dispatcher (`DispatchNeedsSafe`,
`DispatchBlocked`, `DispatchFinal`), not action by action but from the refinement:
each of its steps is a step of the lifecycle (`StatusShapes`).

*Outcomes.* `LeaseInv` adds the bookkeeping of leases to `GateInv`: ids are drawn
in order (`GrantsInOrder`), a row holds only a lease granted for it
(`RowsHoldGrants`), queued rows hold none (`QueuedUnleased`), a call works on the
row its lease was granted for even after losing it (`CallsGranted`) and has its
verdict and its result in place by the time it needs them (`VerdictGiven`,
`ResultGiven`). `GrantedLeasable` is the conjunct that is easy to miss: a row that
was handed out once and requeued is still leasable by rule, so it can never be
skipped while its first runner's report is under way. The case analysis is over
`RowStepShape`, the seven ways a statement can change a row and its lease.

*Roll-up.* `RollUpSound` alone is not inductive, since a call computes the status in
one statement and writes it in a later one. `RollUpInv` adds that what a call is about
to write is the roll-up of the rows as they are now (`RollUpTrue`), and that the rows of a
pre-planned run are all there (`RowsThere`). Then a complete run can only
stay as it is: finished rows do not change and none is added.

*Views, types.* That `work` stays within a runner's calls depends on who is waited for.
`TypeInv` therefore has the bookkeeping of leases and calls: leases are granted in order and
work starts when the lease is sent (`LeaseBook`), a call that is waited for is about the
report its runner has got to (`CallsOK`), and a runner waits for one call at a time
(`OneAtATime`).

*Run page.* `RowInv` says what finished rows, results and runs rest on: a finished row
has the outcome of one of its runners, with its result stored, or was skipped
and never handed out (`StatusFounded`, `ResultFounded`, `SkipsUngranted`; `GrantedLeasable` again
keeps the two apart); rows appear after what they need and are handed out only then
(`PlannedRows`); a run outside `early` that is rolled up, or that some call is about to
set, has no row still to come, is complete, and has or gets the status its rows add up to
(`RunsFounded`, `OverWith`). That no row comes later is what the early cases lack, so they are
left out where they arise and nowhere else. `PageInv` adds that a finished status the first `SELECT` returned is still the
status (`PageRead`), so the rows the second one returns add up to it. The attempt to prove
`RunPageConsistent` showed that the model had to remember which run a page
is of: with several runs, its second `SELECT` could have been about another one.

*Step rows.* `StepInv`: what a report has read is what the row still says, unless
another report about the job was between its two statements at the same time (`ReadFresh`,
`OverlapSeen`). `TidyInv` follows a runner that waits for its answers: the step rows are as far
as its reports (`StepsFollow`), and it completes the job after the last of them
(`FinishedAfter`). A page that sees the job finished reads the step rows later still.

*Needs.* `canonicalNeedRow` is a recursive function on the positions of a list. It has
the value its definition says if some function satisfies that definition; one does on every prefix
of the list, as the least prefix without one shows (`LeastNat`, `PassSteps`). That the row it
holds is the last one finished so far follows in the same way from the least position at which it
would not be (`PassBest`). A listing has every cell, because it has as many positions as there are
cells (`ListingFacts`). Then `NeedsTold`: the row picked was skipped or has the result its
runners agree on (`RowInv`), and a row that is leased without an override has only
successful needs.

*Notifier.* `WakeInv` adds to the types that a closed channel is the one some `select`
holds (`ClosedIsHeld`). That is what makes it safe to give the name of a
channel nobody refers to to the next one. The types need `TakenWhileClosing`: a
`notify` has channels in hand only between its lock and its last close, so nothing is
overwritten when it takes the list. Three kinds of steps touch the notifier (`TakeStep`, `CloseStep`,
`DropStep`), besides `wait()`; all others leave it alone.

*POST /runs.* `PostInv` says how much is written at each step of a request: nothing
up to `CreateRun`, all rows but those still on its list while they are inserted, all
from `Notify` on. Other requests, streams and the reaper never insert a row of it.

*Checks.* `CheckInv` follows a run from its row to its posts (`RunInv`, `PlanInv`). A
check shows the `runStatus` of a call that has posted (`Earned`), whatever the run's status is
by then. That it is the status of the run and of its rows is the part of `RunInv` about runs
outside `early`: once a call has listed the rows of a run that is no longer planned, no row is
added and all are finished, so every later call makes up the same status. For `CheckSettles` it
is also needed that a check that shows `pending` still has a run to hear from, and one that
shows nothing no reported run (`Owed`). Both fail after a lost or late post, hence the
hypotheses of `CheckSettles`.

*Fan-out.* `FanOutInv` adds that a handler that goes on was let through by its gates
(`Admitted`), plans only what is wanted, and has missed no more files than there were
faults (`Missed`). `GithubWants` and `GitlabWants` show that the order in which each handler tests
gates, filters and files does not matter: it selects what the request asks for. That GitLab's
first file exists is an argument by the least rank (`FirstExists`).

*Log order.* `InOrderOnce` with the types (`OrderInv`) is inductive. Replays list the
unseen rows of the table in ascending order (`RowsSortable` and `ReplayLists`: the place
of a row is the number of rows before it), and a chunk from the channel is dropped unless
its seq is beyond the last one shown.

*Log bridge.* `BridgeInv` is stated with the number n of stored chunks. `Ingest`: the
table is a prefix of the log, and the chunk a handler publishes is its last. `Feed`: what a channel
holds is a run of consecutive chunks that ends, while it is open, with the last one
published; and once a page has replayed, it has everything before that run. This is the
reason why `Subscribe` comes before `ReplayFrom`, and why a full channel must be closed and not
skipped. A dropped page keeps what it has of the run and replays. `Ending`: the end is
sent only by a page that saw the job finished before its last replay.

*Shutdown.* `StopInv` follows `run`: the pool is closed last (`~pool` only at
`return`), no request fails before that, and what each server was waited for does
not come back, because it accepts nothing any more. `RowsKept` counts: queued rows, rows
a stream has leased and not sent, and lost ones are together no more than the requests
answered.

*Induction over data.* Where a proof is about all sequences or sets of some kind it
does without induction: a minimal element (`WFMin`), a count (`FiniteSetTheorems`) or the
place of an element in a sequence stand in for it. A recursive function that goes
through a list is dealt with by the least place at which it could go wrong.

*Only model-checked.* Liveness (`LeasedSettles`, `RunFinishes`, `ReadersEnd`,
`DeadGoesOffline`, `PingingSeenOnline`, `QueuedIsServed`, `ShutdownEnds`) is out of the
prover's reach. What matters about `RunnerPresence` is of this kind, so it has no proof
module; its `TypeOK` is the one invariant that is checked and not proved.

## 5. Plan

Written, in this order: `Workflow`, `JobLifecycle`, `Store`, `Dispatch`, `JobLogs`,
`RunnerPresence`, `CommitStatus`, `JobViews`, `Wakeup`, `Shutdown`, each but
`Store` and `RunnerPresence` with its proofs. Every safety property of a passing run but the
types of `RunnerPresence` is now a theorem. When the code changes, the run of the module
concerned comes first, then its proofs: the lemmas named `...Shape` and `...Shapes` say which
steps can change what, and are where a new statement shows up.

## 6. Findings

Each of these is a run that ends in a counterexample to what a comment says.

- `find_outcome`: a completion resolves its lease, the reaper requeues the row, it
  is leased again, and the old completion finishes the new attempt
  (`service.go:452`; `queue.go:606` says late reports are stale everywhere).
- `find_running`: a runner that dies after its job has started leaves the row
  `running` for ever (`job_store.go:271`, against `queue.go:304`).

Others explain why a property is stated, or a run bounded, the way it is; they have
no run of their own.

- A row without an `if:` whose need failed is skipped by rule (`queue.go:135`). That is
  what `queue.go:122-127` describes and what `BlockedNeverRuns` and the refinement say;
  `job_store.go:27` ("empty/null = always") and `planner.go:75-78` (the "empty
  if_expr means always run" contract the gating is said to rely on) say the opposite.
  On such a row code and property side with the former.
- `gateRun` loses a skip to an `AcquireJob` scan, does not count it as progress and
  stops (`queue.go:184`, against `queue.go:187`). In a chain `a`, `b`, `c` with a failed
  `a` the scan skips `c` as well, but does not roll the run up, and nobody else does: without
  `OneLevel` TLC finds `RunFinishes` violated there. A single level of dependents is safe,
  since the loser still finalizes.
- Queued rows that wait for their needs count towards the candidate batch, and when
  it is full of them a leasable row behind them is never listed (`queue.go:381`, against
  `queue.go:52-54`). It takes ten such rows in the code; with `BatchSize` 1 TLC finds a run
  of two rows that never finishes, hence the bound in `RunFinishes`.
- A run is rolled up when the rows inserted so far are finished, although the planner goes
  on inserting (`planner.go:174`, against `service.go:621`). `RollUpSound` therefore speaks
  of pre-planned runs, and `RunPageConsistent` and `CheckIsEarned` leave such runs out: their
  page shows a finished run with unfinished rows, and their check may show a success of a run
  that fails in the end.
- A `Plan` that fails half way sets its run to `failure` while the rows inserted so far stay
  queued and are dispatched (`planner.go:205-213`). Its page shows a failed run with
  unfinished rows, which `RunPageConsistent` leaves out, and when those rows are done the
  `failure` is overwritten by their roll-up, perhaps with `success`. `github.go:255-256`
  says that no run is created when planning fails; `FanOut` does not rely on it.
- The log page closes its EventSource when its own poll, every two seconds, sees the job
  finished (`JobLogsPage.tsx:54`, `:87`), while the server looks at the job every fifteen: the
  last chunks and the end event may not arrive. After a 500 on connecting (`logs.go:114-116`) an
  EventSource gives up, while the page goes on showing `reconnecting`
  (`JobLogsPage.tsx:81-85`: "the browser owns the retry loop"). `ReadersEnd` therefore has
  three ways for a page to be over, and `EndIsComplete` is about one of them.
- `GracefulStop` waits for all RPCs and cancels none, and the Heartbeat and
  `AcquireJob` streams of a connected runner end only when it leaves, so a signal does
  not end the process (`main.go:151`, against `queue.go:302` and `main.go:4`).
  `ShutdownEnds` therefore speaks of runners that leave.
- A row is terminal before its outputs are written, so a dependent can be leased and
  sent without them (`service.go:483`, against `queue.go:463`). `NeedsTold` speaks of
  results only.
- `SetResult` runs before and regardless of the transition (`service.go:472`), so a
  late completion can change the `result` of a row whose `status` stays.
  `ReportedResultStored` therefore only says that there is one, and `NeedsTold` leaves
  out needs two runners came to different outcomes for.
- Step rows belong to the job, not to the lease: they survive a requeue, the next
  runner's steps keep the first one's start times, and a late `RUNNING` report can show
  a finished step as running (`service.go:384`). `JobPageConsistent` therefore speaks of
  jobs handed out once by a runner that waited for its answers, and `StepStartKept`
  leaves out overlapping reports.
- A skipped row has no result until `skipJob`'s second statement (`queue.go:219`); a
  dependent leased in between is told nothing of it. `NeedsTold` allows this for rows
  skipped by rule only.
- A stream that times out leaves its channel in the notifier's list (`queue.go:345`);
  with no `Notify`, one more is added every two seconds for each idle stream.
- A `Plan` that fails half way leaves queued rows and no `Notify` (`runs.go:344`); they
  are handed out by the poll timer.
- While `GracefulStop` waits, `AcquireJob` streams go on leasing rows and the job
  reaper goes on requeueing. A second signal is swallowed, since `stop` is deferred
  (`main.go:51`). Requests still at work after `shutdownTimeout` find the pool closed
  once the RPCs are over, and a failed listener cuts off everything; so
  `PoolOutlivesHandlers` leaves both out.
- Log seqs start over with each lease and pages compare them across leases
  (`logs.go:287`); a chunk stored by an `INSERT` that reported an error is not
  published (`service.go:327`); a stream can overtake one that broke off between
  append and publish. `NoGap` and `EndIsComplete` therefore speak of one lease, one
  stream at a time, and no failed statement.
- `RunReaper` can mark a runner between its ping's read and write
  (`service.go:208`): the ping is acknowledged and the runner stays offline until
  the next one. `PingingSeenOnline` shows it recovers.
- `pending` may be posted after the outcome of its run (`github.go:308`) and then
  stays, while `github/status.go` describes checks as going from pending to
  an outcome. `CheckSettles` leaves out commits with such a run.
- All runs of a commit share one context, so a later success hides an earlier
  failure; `CheckIsEarned` says that some run had the outcome shown, not that all
  had.
- `reportCommitStatus` leaves out runs planned by hand only, so the outcome of a
  run GitLab triggered is posted to GitHub too, though no `pending` was.

## 7. Not modelled

- Of the webhooks, signatures, JSON, the pattern language and the parsing of workflow
  files are inputs of the model; of the clients, requests, encodings, clone URLs and
  redaction.
- Of the REST API, `GET /runs`, `GET /runners` and `logs.txt` are single reads, and
  what is modelled of the others is which rows they read, not how they render them.
- Reading the configuration and dialling the database happen before anything is
  served and only fail.
- The generated stubs, migrations and the front end keep no state of their own or only
  render it; a log page's EventSource, and its closing by the page, are the reader of `JobLogs`.
- Cancellation has no writer in the code beyond a runner that reports `cancelled`.
- Values of outputs, tokens, log text and timestamps other than the ones named above
  are left out because no property depends on them.
