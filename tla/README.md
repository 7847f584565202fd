# TLA+ models of the AI Command Console

The repository is a command console that plans, reviews and executes multi-step
plans, with a Next.js front end, a large family of governance services, a
background job queue, and a separate .NET API (Proprium). This directory models
the parts that several actors change at the same time:

* how one plan is executed, interrupted, recovered and decided on by operators,
  in several operating-system processes that share one SQLite database;
* how background jobs are queued, run, timed out and recovered;
* how the Proprium API keeps households, invitations and bills, and how a change
  of a bill reaches the pages that show it;
* how the Proprium API keeps sessions, passwords, reset tokens and permissions.

Paths below are relative to the repository's `src/` directory.

## 1. Inventory

*State* is what survives a call.

| Part | State | Operations | Who it talks to |
|---|---|---|---|
| Execution store: `services/executionIntegrityStore.js`, `executionStateStore.js`, `lifecycleAtomic.js`, `lifecycleAttemptAtomic.js`, `transaction.js` | SQLite tables `execution_locks`, `execution_state` (the checkpoint), `executions` / `execution_stages` / `execution_steps` (the snapshot), `execution_attempts`, `execution_ledger`, `operator_recovery_queue` | acquire, reuse, release a lock; begin, heartbeat, complete, fail, pause an attempt; start, move, recover a checkpoint; persist a snapshot; finalize or pause an execution; queue and expire recovery items; retry or cancel for an operator | called by the engine, by reconciliation and by the operator surface, each call one `BEGIN IMMEDIATE` transaction |
| Reconciliation: `services/executionReconciliation.js` | none of its own | `validateExecutionIntegrity`, `reconcileExecutionState`, replay | reads every table; marks corrupted, pauses for the operator, abandons |
| Engine: `services/executionEngine.js`, with `stepController.js` | the in-memory run of a call; the document store's copy of runs | `execute`, `preflightRecovery`, `recoverExecution`, `resumeExecution` | calls all of the above, awaits `toolRouter.route` for each step |
| Operator recovery: `services/operatorRecovery.js` | `operator_action_idempotency` | approve, modify, reject, retry, cancel | engine, store |
| Runtime control: `services/runtimeControl.js`, `toolRouter.js` | mode and memory documents | classify, review and route plans | engine |
| Job queue: `services/jobQueue.js`, `jobQueueStore.js`, `scripts/job-worker.ts` | `jobs` table; the loop, timer and request flag of a process | enqueue, run, heartbeat, time out, retry, cancel, recover stale | API routes, worker processes, processors |
| Scheduler, watcher, task queue: `services/scheduler.js`, `watcher.js`, `taskQueue.js` | documents | timer loops | agents, jobs |
| Recovery services: `services/recovery*.js` | append-only audit streams | request, approve, commit, automate, verify | `recoverExecution` |
| Proprium households: invitation and bill services of `services/api` | PostgreSQL: `household_memberships`, `household_invitations`, `bills`, audit rows | invite, accept, revoke, remove; create, update and pay a bill | its clients, the outbox |
| Proprium event delivery: `OutboxProcessor`, the subscription registry, `RealtimeEndpoints`, and the client and page of `apps/household-manager` | `outbox_events`; subscriptions in memory; the browser's list of event ids | select, publish, mark; subscribe, stream, heartbeat; connect, handle, fetch, show | API instances, browsers |
| Proprium sessions: authentication, session, password and permission services of `services/api` | users with their security version, sessions, reset tokens, roles, the permission cache (Redis) | login, logout, change, reset, complete, revoke, assign and replace roles, validate, resolve | its clients |
| Governance, constitutional and learning services: `services/*/` | records passed to them | validate, hash, explain | mostly pure |
| Web console and API routes: `app/`, `apps/`, `src/` | browser and request state | routes and pages | services |

What makes these parts hard:

* **Two kinds of truth.** The transactions of the execution store are atomic, but
  a lifecycle step is several of them (attempt, then snapshot; mark, then ledger
  event), and the rows of six tables must agree for a later integrity check to
  accept them.
* **Takeover.** `acquireOrReuseExecutionLock` hands the lock of an execution to
  any worker that asks for the same execution; begin, complete, fail and
  finalize do not look at the lock's worker. An operator's retry or cancellation
  takes it the same way.
* **Stale copies.** A call carries a whole run in memory and writes it over the
  rows at every log entry; only the table of allowed status transitions stops a
  stale writer. `updateJob` and `appendJobEvent` rewrite a whole row that they
  read before, with no transaction. A batch of jobs, a reset token, a membership,
  a role and a cached set of permissions are all acted on after they were read.
* **Crashes** may come between any two transactions, and what a recovery does
  depends on what was left where. In the job queue they also lose the timer.
* **Awaits.** Node runs a call until it awaits; in a driving call that is only
  the tool, in a job the processor. Between processes there is no such
  protection, and every statement of a .NET request is an await.
* **Drops.** Events go to the subscriptions of one API instance only, through
  bounded channels that drop, to a client that forgets ids, to a page whose
  answers may overtake one another.

What makes each part correct, in one line each: the store never loses or doubles a
completion; reconciliation lets a call go on only from a state it can continue
safely; the engine runs each step in order, once where it must be once, and
leaves the plan in a state somebody can act on; an operator's action is applied
once, against whatever runs; a job runs within its budget of attempts, is shown
as completed only if it was, and ends; an invitation admits once and its answer
stands; an event is published before it is marked and pages catch up; a session
lives as long as the password and permissions it was opened under, a reset token
works once, and permissions in the cache are current.

## 2. Modules

```
ExecutionStore            one action per transaction; StoreSpec = any transaction, any time
  ExecutionStoreProofs    theorems about StoreSpec (TLAPS)
  MCExecutionStore        TLC instance of the store alone
  ExecutionReconciliation integrity check, reconciliation, recovery preflight
    ExecutionEngine       calls of execute / recover / approve / reject in processes
      ExecutionEngineProofs theorems about EngineSpec (TLAPS), with ExecutionStoreProofs
      ExecutionProperties what the engine is meant to guarantee; INSTANCE PlanExecution
        ExecutionOrderProofs theorems about order, place and lock (TLAPS), with ExecutionEngineProofs
        MCExecutionEngine TLC instances: who calls what, what steps may do
        OperatorRecovery  operators' requests: keys, safe actions, retry, cancel
          MCOperatorRecovery  TLC instances
          OperatorProofs    theorems about OperatorSpec (TLAPS), with ExecutionOrderProofs
PlanExecution             what the engine promises of one plan (abstract)

JobQueue                  the jobs table, the server, polling workers
  JobQueueProperties      INSTANCE JobLifecycle
    MCJobQueue
    JobQueueProofs        theorems about JobQueueSpec, both deployments and a server
                          without workers (TLAPS)
      LifecycleProofs     JobQueueSpec implements JobLifecycle
JobLifecycle              what the queue promises of a job (abstract)

Households                memberships, invitations, bill commands
  EventDelivery           outbox, subscriptions, stream, client, page
    HouseholdProperties
      MCHousehold
      HouseholdProofs     theorems about households and delivery (TLAPS)

Sessions                  sessions, passwords, reset tokens, permissions
  SessionProperties       INSTANCE Account
    MCSessions
    SessionProofs         theorems about SessionsSpec (TLAPS)
Account                   what one account is promised (abstract)
```

There are four refinements. `ExecutionStore` is both the lower layer of the engine
and its abstract specification: it says what the transactions promise *whoever
calls them in whatever order*. That every step of the engine is one of them (or
leaves the store alone) is checked by the run `crash_recover` on a small instance
and proved by `EngineImplementsStore` for all, so the theorems about `StoreSpec`
are theorems about the engine. `PlanExecution` says what the engine amounts to for
whoever asked for the plan: an execution tries a step only when exactly the earlier
ones are behind it and no other execution has tried anything, completes it once and
together with the checkpoint, and is closed when all are done. `PlanIsServed` maps
`ExecutionProperties` to it (`tries` is the number of attempts, `done` the steps
with a completed one, `saved` the checkpoint's last step, `closed` the ledger's
`execution.completed`); locks, rows, calls and crashes are all stutter. The run
`takeover` checks it. `JobLifecycle` says how the status of a job may
move, with and without a second writer; `Lifecycle` maps `JobQueue` to it.
`Account` serves each request at once; `AccountIsAtomic` maps `Sessions`, whose
requests overlap, to it. All four are checked by TLC on small instances and
proved for every value of the constants, under the hypotheses that section 4 states.

### ExecutionStore

| Variable | Code |
|---|---|
| `lock` | the plan's row of `execution_locks`; `held` is `released_at IS NULL`, and a release keeps the row's execution and worker |
| `ckpt` | the plan's row of `execution_state`: `status`, `cur` = `current_step + 1`, `last` = `last_completed_step_index + 1` |
| `snap[e]` | `executions` row with its lease columns (`owner`, `live`), the one stage and the steps |
| `attempts[e][s]` | `execution_attempts`, attempt number = position; `live` is an unexpired lease |
| `ledger[e]` | how many events of each kind, counted as far as the integrity check can tell apart (`CountCap`) |
| `queue` | the plan's unresolved item: none, open, or past its 24 h |

Lease expiry is the action of a lease becoming not live; the passing of 30 s or
24 h is otherwise not represented. Status values are those after the store's
normalisation functions (`blocked` and `timeout` steps are stored as `failed`).

### ExecutionReconciliation

The functions read several tables in separate reads and then write. Each is one
action here, reads included; the corrupting write (`Corrupt`, `Doubt` in the
engine) is a later action, as in the code. The terminal branches of
`reconcileExecutionState` are absent because the integrity check just before
them already rejects the states that would reach them.

### ExecutionEngine

A call is a program counter `pc[c]`, the run it carries, the execution it works
for and how it ended. One step of a call is one transaction, or one read it acts
on later. `At(c, l)` lets a call move only while no other call of its process is
on the stack: a process interleaves its calls only where the code awaits
(`Away`). A write that the transition table refuses throws: the step becomes an
`End(c, "thrown")`, or a jump to the catch of `executeSingleRoutedStep`.

Choices left to nondeterminism: what a step does (`Behaviour`), what becomes of
a staged run (`Admission`), which processes crash or stall (`CanCrash`,
`Stalls`), when leases and recovery items run out, whether an execution with an
attempt is older than the hour of `MAX_EXECUTION_DURATION_MS`
(`MayBeOverdue`).

Simplifications that keep every store-visible effect: a plan has one stage;
steps run one after the other (`executeReadySteps` has no caller); the persists
inside `applyCheckpointToRun`, and those of an approval and of a rejection up to
their ledger events, are one write, since no await and no other table lies
between them and the intermediate rows are the same rows half changed; a repeated
write of the same run is left out.

### OperatorRecovery

An operator's request wraps a call of the engine. Its own variables:

| Variable | Code |
|---|---|
| `place[c]` | where `performOperatorAction` stands: `new`, `lock` and `act` around `applyOperatorRecoveryAction`, `engine` while `resumeExecution` or `recoverExecution` runs, `store` before the key is written, `answered` |
| `keys` | rows of `operator_action_idempotency` |
| `acted` | history: the calls that have decided, retried or cancelled |

Up to the engine's first await, a request runs on the stack of its process;
`HasTurn` carries `At` of the engine over to the operator's own steps, so two
requests overlap only where one awaits or where they come to two processes. A
retry resets rows without asking the transition table, which is why its
transaction is not one of `StoreSpec`.

### JobQueue

| Variable | Code |
|---|---|
| `workers` | the polling processes; `{}` is `queueExecutionMode` `in_process` |
| `jobs` | the table: status, attempts, and whether lease, retry time and admission hold |
| `update[p]` | the `updateJob` or `appendJobEvent` that `p` is in the middle of: the row it read and is about to write back |
| `stale[p]` | what `recoverStaleJobs` has listed and not rewritten yet |
| `at[p]`, `job[p]`, `batch[p]` | `runPendingJobs` and `runJob`: the place, the job, the rest of the batch with the status it was listed in |
| `strays[p]` | processors whose run timed out and that nobody waits for |
| `timer`, `requested` | `workerTimer`, `workerLoopRequested` |
| `starts`, `manual`, `succeeded` | history: calls of a processor, operators' retries of failed jobs, processors that returned |
| `spent` | what is used of the bounds |

`Awaiting(p)` is where the event loop of `p` may turn to another callback. Two
processes interleave between every read and write.

### Households and EventDelivery

| Variable | Code |
|---|---|
| `members`, `invitation` | `household_memberships`, `household_invitations` (`live`: not expired) |
| `attempts` | audit rows of the last 24 hours that the daily limit counts |
| `audit` | the last audit row `Accepted` or `Removed` about each user, by its reason |
| `request[r]` | what a request has read, by which its place in the code shows |
| `changes` | committed bill commands; change *n* wrote outbox row *n* |
| `joins`, `crossed`, `contested` | history: joins by an invitation, removals inside an accept, overlapping answers |
| `fleet`, `open` | the API instances of the deployment; the page is open |
| `processed` | outbox rows with a `ProcessedAtUtc` |
| `batch`, `outcome`, `failed` | rows an instance has locked: not tried, published, failed |
| `on`, `channel` | the instance that serves the page's stream, and the subscription's channel there |
| `seen` | `processedEventIds` of the browser's client |
| `asked`, `answers`, `shown` | fetches under way, their answers, what the page shows |
| `published`, `last`, `handled`, `swallowed`, `spoiled` | history; `spoiled` names what may keep the page from catching up |

A request reads and decides, then saves everything at once; other requests save
in between, since neither invitations nor bills carry a concurrency token.
`EventDelivery` extends `Households`: a bill command writes its event in its own
transaction (`SaveBill`), and a crash of an instance also loses the requests it
served.

### Sessions

| Variable | Code |
|---|---|
| `password`, `dated`, `version` | the user row: password hash, hash format, `SecurityVersion`, which is also its concurrency token |
| `sessions`, `tokens` | session rows (`snapshot`: `SecurityVersionSnapshot`) and reset tokens |
| `assigned`, `granted` | the role of the account and its permissions |
| `cache` | `PostgresPermissionResolver`'s entries, by version |
| `request[r]` | what a request has read |
| `eras`, `overlaps` | history: the permissions the account has had; which calls overlapped |

A session, a token and a password are named after the request that made them,
so that the model can tell whose password a session was opened with.

## 3. Runs

"States" are distinct states; times are seconds with two workers.

### Passing

| Run | What it asks | Instance | States |
|---|---|---|---|
| `store` | Do the completion invariants hold if the engine did everything wrong? | 1 execution, 1 process, 2 steps, 2 attempts, callers write one of two runs, one mark, one event, one way to end | 340 368, 37 s |
| `concurrent` | Two clients execute one plan at once and an operator approves its last step: one execution, its driver holds the lock, nothing stays locked | 2 executions, 3 processes, 3 steps, every outcome, a review before the last step, held runs | 634 |
| `crash_recover` | A worker crashes anywhere, so may the recovery that follows, and a rejection comes at any time: is any step begun twice? is every engine step a transaction of the store? | 4 calls, 3 processes, 2 steps, the last of which may be blocked, two crashes, expiry, careful recovery | 5 682, 47 s |
| `takeover` | Two clients and a recovery at any time, crashes, stalls, lease expiry, runs set aside: are completions whole, steps in order, is the checkpoint true? is the plan served as `PlanExecution` has it? | 2 executions, 3 processes | 105 391, 20 s |
| `overtaken` | A recovery overtakes a worker that stalls: does the plan settle, do both calls end? | 2 calls, fairness | 16 243, 12 s |
| `operator` | Operators approve, reject, retry and cancel a plan from two processes while it runs: one driver, no completion doubled by a retry, cancelled stays cancelled | 5 calls, 2 processes, 3 steps: the first may fail, the second may ask for a review, the third is blocked | 230 118, 24 s |
| `job_queue` | Are completions real, starts within budget, waiting jobs awaited, running rows held, status changes legal, and does every job settle? | two jobs in process; one job with a worker beside the server; 2 attempts, one call, one untimely lease expiry, one crash | 151 940, 60 s |
| `household` | Do audit and memberships agree, do invitations admit once and answers stand? Are events published before they are marked, the newest kept, all processed, and do pages catch up? | 2 guests, 3 invitations, 2 requests; 2 changes, 1 page, one or two instances | 192 077, 85 s |
| `sessions` | Do overlapping calls look as if served at once? Are cached permissions current? Is one reset token usable? | up to 5 calls in seven mixes, symmetric | 148 678, 30 s |

What the properties say is in the comments before them. Some carry their
exception in the statement, because the code has it: an answer to an invitation
stands *unless two answers overlapped*, audit and membership agree *unless a
removal fell into an accept or the last row only repeats an accept*, one token is usable *unless two requests for one
overlapped*, cached permissions are current *unless a role was assigned while its
permissions were being replaced*, a page catches up *unless* one of the causes in
`spoiled` has happened. A run in which these exceptions could not happen would
show less: in each instance they do.

### Violations

Each shows that the code does not keep one sentence of the repository's
documents or comments. The traces are short and worth reading with TLC.

| Run | Property | What happens |
|---|---|---|
| `early_recovery` | `SideEffectOnce` | before its first attempt a worker has no lease on its rows and no attempt; a recovery takes its lock over and runs the first step beside it |
| `one_key` | `KeyActsOnce` | the idempotency key is read before the action and stored after it; an approval sent again to another process acts a second time |
| `event_stream` | `NewestIsStreamed` | a heartbeat that falls due while an event arrives throws the event away |

These are about what the documents promise under the interleavings named; the
safety invariants of the passing runs hold in the same schedules (a second
driver is possible, but no completion is ever doubled or lost).

Other schedules that the models reach, and that are not runs of their own:

* *Two executions of one plan.* A client that executes the plan under one id
  stalls after its checkpoint and before its rows; a recovery finds no rows,
  takes its lock over and releases it; a client that executes under a second id
  finds the lock free, and a second recovery adopts that id by its lock. Both
  executions get rows: `AtMostOneExecution` and `StepsInOrder` are then false (31
  steps). With one id, or without a recovery, that cannot
  happen (`OneExecutionHasRows`), nor with one recovery in the instance of
  `takeover`.
* *Execution.* Executing a completed plan again marks its checkpoint corrupted,
  because the newcomer's own lock fails the integrity check. A crash between the
  last completion and the finalization: recovery calls the finished plan
  corrupted. A crash after the stage is running and before the first attempt:
  recovery is let in, throws on the transition table and leaves the lock. A
  rejection fails ledger and rows, not the checkpoint, and keeps the lock. The
  preflight of a recovery marks a plan corrupted and is then refused. A
  confirm-required plan without a rewrite returns with the plan locked and its
  checkpoint pending.
* *Operators.* A refused cancellation of a running plan has taken its lock by
  then, and the live worker pauses. A retry that names a completed step
  (`Named`) completes it a second time. A failed plan that is retried and then
  succeeds has two terminal events in its ledger, and a later integrity check
  rejects it. A retry in another process may be let in while the worker that
  failed is still closing.
* *Execution, between two steps.* `setStepStatus` writes the run's own lease columns
  over the mirrored ones, so there too a recovery finds nobody at work. By then
  the checkpoint is running: a next step that is not idempotent goes to review and
  the worker loses its lock; an idempotent one is run beside it (`takeover`).
* *Households.* Two invitations made at once exceed the pending limit. An
  invitation accepted and revoked at once ends either way, with the target in.
  An accepted invitation accepted again after its target was removed leaves an
  `Accepted` row about somebody who is no member.
* *Delivery.* An event already known to the client can displace a new one in a
  full channel.
* *Sessions.* A role assigned while its permissions are being replaced leaves the
  account with a version, and a cached entry, from before the replacement
  (`services/api/README.md:91`: "a role-permission change increments each assigned
  user exactly once in the same transaction").

### Bounds

* `MaxAttempts` of the execution store bounds attempts per step (2 in `store`, 4 in
  `operator`, 3 elsewhere). In the engine runs a call begins a step at most
  once, so their calls never reach it; in `store` two attempts are what two
  completions need.
* `CountCap` stops the ledger's counters where the integrity check stops telling
  counts apart.
* Two steps distinguish first from last, and three add a middle one where a
  review or a blocked step must come between; two or three calls are the
  smallest number with an owner, a taker and a third party. Each process crashes
  once and does not come back under its worker id (a restart has a new one).
* `MCExecutionStore` narrows what callers may write to two runs, one mark, one
  event and one way to end, since unrestricted writes multiply states and not
  behaviours of the completion rows; the theorems have no such restriction.
* `operator` has one call of each kind. `Named` is empty there (see above), no
  process crashes (the runs above do that), and its steps do not pause for review
  before they start (one that asks while it runs does).
* `job_queue`: `Bound` limits jobs, calls of the API, lease expiries of held runs
  and crashes, by deployment. Two jobs make a batch go stale; with a second
  process each read and write interleaves and one job is enough. Two attempts
  have a first, a retry and an end.
* `household` and `sessions` choose one element of `Loads` at the start: a load
  says how many calls and faults of each kind the behaviour has. Together the
  loads pair every two kinds of call that touch the same rows. `Capacity`,
  `BatchSize` and the pending limit are 1 and `Remembered` is 2: full, empty and
  displaced are all reached with two changes. One page is enough, pages do not
  influence each other.
* `CHECK_DEADLOCK FALSE` except in `store`: calls, jobs and loads end, and then
  nothing happens.

### Fairness

* `FairSpec` (engine): weak fairness of each call that has begun. Node runs it to
  its next await, SQLite transactions finish or throw, and `withTimeout` bounds
  every tool. A crashed call is `dead`, which counts as over.
* `JobQueueFairSpec`: weak fairness of the synchronous block a process is in;
  strong fairness of the steps of its loop and of the end of a stray processor,
  since Node serves timers and settled promises in turn although heartbeats may
  come between; weak fairness of a retry time passing and of the expiry of a
  lease that nobody renews.
* `DeliveryFairSpec`: weak fairness of each instance's processor, of the client's
  connection timer, of reading the channel, of the database's answers and of
  their arrival.

Nobody is obliged to make a call, and crashes, failures, breaks and the expiry of
leases in use never have to happen.

## 4. Proofs

`ExecutionStoreProofs` proves, for every set of executions and processes, every
number of steps and every bound on attempts, from the three named assumptions of
`ExecutionStore` (a positive number of steps, a natural bound, null values
outside the sets):

* `TypeCorrect`: `StoreSpec => []TypeOK`;
* `OneCompletion`: `[]AtMostOneCompletion`;
* `RowsKeepCompletions`: `[]CompletionInRows`;
* `LastStepCompleted`: `[]LastStepIsCompleted`;
* `CompletedStaysSettled`: `CompletedIsSettled`, an action property.

The argument. `AtMostOneCompletion` is not inductive alone: a second completion
is refused because the step's *row* is completed, so the rows must be known to
reflect the attempts. `CompletionInv` is the conjunction of the three
invariants, inductive together with `TypeOK`. Every transaction is shown to be
one of two kinds: it adds no completion and keeps the rows' completed steps
completed, or it is a completion of one step that had none. Keeping completed
rows completed rests on the transition table alone: `LegalChange("completed",
to)` implies `to = "completed"`. The same split gives the action property.

`ExecutionEngineProofs` proves, from those assumptions and `CallsAssumption` (who
calls what, from which process, is well typed), for any calls, behaviours,
admissions, crashes and stalls:

* `EngineInvariant`: `EngineSpec => []EngineInv`, and from it `EngineTypeCorrect`;
* `EngineImplementsStore`: `EngineSpec => StoreSpec`;
* `EngineCompletesOnce`, `EngineKeepsCompletions`, `EngineNeverRepeats`: the
  store's theorems, carried over.

The argument. A transaction of the store is one of an execution, a process and a
step, so a step of the engine is a transaction only if the values in its hands
are: the run it writes must be well typed (it may come from rows or a checkpoint
read long ago), the step it completes must be a step, the execution it
reconciles or reports to must be the one a lock names. `EngineInv` says so: the
two type invariants, that a held lock names an execution (`LockNamed`), and that
a call has a step or a report in hand where it needs one (`CallsSound`). For
each action there is one lemma, with two conclusions: the store makes a
transaction or none (`Simulates`), and the call moves to a point that its run is
fit for (`Moves`).

`ExecutionOrderProofs` proves what the engine promises of a plan's steps, in every
behaviour of `EngineSpec` in which one execution of the plan has rows
(`[]AtMostOneExecution`), whatever crashes, stalls, is recovered or resumed:

* `StepsTakenInOrder`: `[]StepsInOrder`;
* `ClosedIsWhole`: `[]CompletionIsWhole`;
* `CheckpointHolds`: `[]CheckpointIsTrue`;
* `CheckpointNeverBack`: `CheckpointAdvances`, an action property (no run of its own:
  `PlanIsServed` says more);
* `EngineServesPlan`: `PlanIsServed`, the refinement of `PlanExecution`;
* `OneExecutionHasRows`: `[]AtMostOneExecution`, so the hypothesis above holds, when
  the calls all name one execution id or none of them is a recovery. The other
  schedules of section 3 say why not without either;
* `PlanServed`: so the engine implements `PlanExecution` under that condition alone.

The argument. What a call does next depends on the run it carries, and the run
on rows or a checkpoint that may have been read before another call moved on. It
is nevertheless never ahead of the attempts: `OrderInv` says that rows,
checkpoint and ledger claim no step without a completed attempt (`RowsTrue`,
`CheckpointTrue`, `Whole`), that an attempt has the earlier steps behind it
(`Sequential`), and of each call that what its run claims to be behind it has
completed (`Backed`), that its run has no failed step where it goes on to another
one (`CleanAt`) and only completed ones where it closes (`FinishedAt`). Completed
attempts stay completed, so a stale claim stays true; that is why a late worker
cannot take the checkpoint back either. With two executions a recovery writes
the steps of one over the rows of the other, and `Backed` has nothing to say. As
before there is one lemma for each action, with two conclusions: the store only
advances (`Advances`), and the run fits the point the call has moved to.

For the refinement, a transaction of the store begins a step that the rows have
open, ends one as completed, or does neither and at most logs (`Progresses`, one
lemma per group of transactions). `OrderInv` and `TriedInRows` (attempts belong to an
execution with rows) say that whoever begins or ends a step has the turn (`TurnOf`),
`CheckpointAdvances` that no other transaction moves the checkpoint, and
`CompletionIsWhole` that only a plan with every step done is logged as completed.

For `OneExecutionHasRows`, `Footprint` says of every step which rows it can write
and that a checkpoint stays. With one id only that execution is ever named
(`OnlyNamed`); without recoveries only the one call that found no checkpoint may
stage rows (`OneFounder`).

Two more theorems hold where nobody recovers, one operator decides and every
client that executes the plan names an execution id of its own (`Singles`), with
crashes, stalls, held, barred and set aside runs:

* `DriverKeepsLock`: `[]DriverHoldsLock`;
* `OneCallDrives`: `[]OneDriver`, of `EngineSpec` (the run `operator` asks the same of
  `OperatorSpec`, where it is only model-checked).

`CustodyInv` says that no two calls are at work on one execution, that a call
holds the lock from the validation of its integrity, or its decision, to its end
(a client whose reconciliation has given the lock to the operator goes on to find
a checkpoint, and stops), that a client who has not staged its run has no rows,
and that while it works they never ask for a decision, so that no operator
starts. All three hypotheses are needed: a recovery or a second decision takes
the lock over from a live worker of the same execution.

* `NoLockLeft`: `[]EndsUnlocked`, under four more hypotheses (`Orderly`): nothing
  crashes, no run is set aside, none is barred by its mode, and nobody rejects.

Each of the four can leave the lock behind by itself; so can a write that the
transition table refuses, and that none is refused is what has to be proved. It takes more than `CustodyInv`: `Mirrors` says that the rows of an
execution are the run of the call that drives it, stage and steps, except for
the step in hand just after an attempt of it has begun or ended (`InRows`), and
which status the stage and that step have at each point of the loop (`StageFits`,
`HandFits`). Then every status that the call writes is one the table allows.
`LockKept` says that a held lock is in the hands of a call at a point from which
it will be given back (`Keepers`). As only one call is at work on an execution, the
steps of the others disturb none of this; for each action there is one lemma
again, about the call that takes it (`Tidy`).

* `PlanEndsSettled`: `[]EndsSettled`, under the same hypotheses (and with at least one
  call: a plan nobody has executed is not settled).

A plan is unsettled at the end if a call stops half-way. `SettlingInv` says that a
plan whose checkpoint is pending or running has a call to carry it (`Carried`, from
the stage to the transaction that closes it), and before it has a checkpoint
somebody is about to give it one (`Newborn`): no row, attempt or event is there that
the integrity check could object to, and `LockKept` has the client that turned
another one away still at its point. `Mirrors` then shows that neither the end of an
attempt nor the close of the execution is refused to the carrier; a run closed as
failed has a failed step (`Failing`), without which its status would be pending, a
change the table forbids. Again one lemma per action (`Carries`). A crash and a run
set aside or barred leave a plan unsettled, as the hazards say. A live recovery is
outside the hypothesis: the run `overtaken` asks the same of it.

The last two theorems are about calls that execute, recover and reject the plan under
one execution id, where a recovery is called once the workers are gone
(`Careful`), with crashes, stalls and every outcome:

* `BegunAtMostOnce`: `[]AttemptedOnce`;
* `OneCarefulDrives`: `[]OneDriver`, here with recoveries.

`AttemptInv` follows a call by the steps it may yet begin (`ToBegin`: all of them
while it stages, those its run has pending in the loop, those past the checkpoint
while it recovers) and says that no execution has an attempt of these (`WorksOn`).
At most one call is at work, a recovery from its preflight on (`OneWorks`). What a
recovery reads is the checkpoint alone, so the invariant has to say what it stands
for (`Standing`): it has every completed step behind it, a running one is at the
step right behind those, and where it is none or pending nothing has been tried.
Then a checkpoint from which reconciliation lets a recovery go on has only
untried steps before it, and every other trace of an attempt goes to the operator
(`CarriesOn`, one lemma per action). A begin is the one step that adds an attempt:
`Sequential` keeps it from being past the next step, `Untried` from being a second.
Approvals are left out because an approval attempts again the step that asked for a
review while it ran. A second id, or a recovery while the worker is still alive, is
outside the hypothesis: two calls could then be at work on one plan.

`ExecutionEngineProofs` and `ExecutionOrderProofs` speak of `EngineSpec`.
`OperatorProofs` speaks of `OperatorSpec`, which does not implement `StoreSpec`: a
retry is a transaction of its own that reopens rows past the transition table.
What the engine's own steps do is taken from the two modules (`OperatorMoves`: a
step is one of the engine's or a request's), what a request does is added
(`RequestSteps`: it takes the lock over, cancels, retries or leaves the store alone).

* `OperatorTypeCorrect`: `[]EngineTypeOK`, with no hypothesis.
* `OperatorOneExecution`: `[]AtMostOneExecution`, if the calls name one execution
  id; with `OnlyNamed` again.
* `CancelStands`: `CancelHolds`, in the behaviours with `[]AtMostOneExecution`. The
  transition table keeps cancelled rows from every run that the engine carries;
  a retry does not ask it. What keeps a retry out is that a checkpoint never
  says failed while an execution is cancelled (`FailedNotCancelled`). With rows
  for two executions that is false: the plan's one checkpoint may say failed of
  the other.
* `OperatorCompletesOnce`, `OperatorKeepsCompletions`, `OperatorKeepsOrder`,
  `OperatorClosesWhole`, `OperatorCheckpointHolds`, `OperatorNeverBack`:
  `[]AtMostOneCompletion`, `[]CompletionInRows`, `[]StepsInOrder`,
  `[]CompletionIsWhole`, `[]CheckpointIsTrue` and `CheckpointAdvances`, in the
  behaviours with `[]AtMostOneExecution` in which no operator names the step to
  retry (`Named = {}`).
* `OperatorServesPlan`, `OperatorPlanServed`: `PlanIsServed` in those behaviours, and
  if the calls name one execution id. A request only logs (`RequestProgresses`).

For the last eight, `OperatorInv` joins `CompletionInv` and `OrderInv` with what makes
the retry's choice harmless. A failed step and one paused for review have not
completed by the rows; the step that the checkpoint stands at has not by
`CursorOpen`, which is kept because a transaction that completes a step moves the
checkpoint on, to a step that `Sequential` keeps from having completed, and
every other one that moves it names a step the rows have open (`CursorMoves`). So
the checkpoint's last step is before the retried one and stays (`RetryUndone`). A
request that has not been looked at carries no run (`NewcomersIdle`), so that it
may be given any execution to work for. The hypothesis is needed: with `Named = {1}` in the
run `operator` TLC finds a step completed twice, because the code accepts a
completed step that an operator names.

`JobQueueProofs` speaks of both deployments (`JobQueueSpec`, for every number of
jobs, set of workers, budgets and bounds, from `JobQueueAssumption`):

* `JobQueueIsTyped`: `[]JobQueueTypeOK`, from `TypeInv`, which adds to the shapes
  that a loop which is past its listing has a job in hand;
* `CompletedRan`: `[]CompletedMeansRan`. Not inductive alone: between the read and
  the write of an update the row that says "completed" is in a hand, so
  `CompletedInv` says of those rows what the property says of the table.

Its second part speaks of the server without workers, the deployment whose
properties need more than types. Everything is about `Coming`, the table as it
will read once the rewrite in progress is stored. `ServerInv` has a part for
each thing that changes hands: what was listed is still waiting or canceled and
is listed once (`BatchInv`), what the loop is about to check or mark can be
checked or marked (`PlaceInv`), attempts bound the calls of the processor and
leave one to spare (`RowsInv`, `StartInv`), a running row is in the loop's hand
(`HeldInv`), a waiting one has a timer (`WakeInv`). Together with `TypeInv` they
are inductive (`QueueStays`) and imply

* `StartsStayInBudget`: `[]StartsWithinBudget`,
* `NoWakeupLost`: `[]NoLostWakeup`,
* `RunningStaysHeld`: `[]RunningIsHeld`.

`LifecycleProofs` proves `QueueKeepsLifecycle`: `JobQueueSpec => Lifecycle`, the
refinement of `JobLifecycle`. With workers an overwritten row may go from any
status to any other, and what has to be shown is that only enqueued jobs move
(`KnownInv`) and that "completed" has a run behind it (`CompletedInv`). In
process each change must be one of the legal ones: `ChangeInv` says that the
rewrite under way, begun some steps earlier, is still legal when it is stored,
and `OpenInv` that the run in hand has not been completed. Each action of the
queue is one lemma for either deployment.

`HouseholdProofs` speaks of `DeliverySpec`, every action of the households and of
the delivery of their events, from `HouseholdAssumption` and `DeliveryAssumption`:

* `HouseholdIsTyped`: `[]HouseholdTypeOK`;
* `AuditTells`: `[]AuditTellsMembership`. A repeated accept (`SaveRepeat`) writes a row
  and changes nothing else, so nothing is said of a user whose last row it is.
  `MembersInv` adds that an accept which has found its user to be a member already
  is right until it saves, unless a removal crossed it;
* `InvitesOnce`: `[]InvitedOnce`, from `JoinsInv`: an invitation that has let its
  target in is answered, and an accept of it still under way finds a member;
* `AnswersStand`: `AnswerStands`, an action property, from `AnswersInv`: a request
  that answers an uncontested invitation is alone with it;
* `PublishedFirst` and `NewestWaits`: `[]ProcessedIsPublished`, `[]NewestIsKept`,
  from `DeliveryInv`: what an instance has as the outcome of its batch is
  published, and the newest event sent is in the channel or handled.

`SessionProofs` speaks of `Sessions`, for every number of overlapping requests,
from `SessionsAssumption` and `PasswordsAssumption`:

* `SessionsAreTyped`: `[]SessionsTypeOK`;
* `OneTokenIsUsable`: `[]OneUsableToken`, from `TokensInv`: without overlap a reset
  has in hand every token that is still usable;
* `CacheStaysCurrent`: `[]CacheIsCurrent`, from `FreshInv`: what a reader carries from
  the tables to the cache is what the account has if the version is still its own;
* `AnswersWereEffective`: `[]PermissionsWereEffective`, from `HeldInv`: what a request
  has been given, or may be given by the cache now or once another has stored
  what it read, the account had at some time since the request began;
* `AccountServesAtOnce`: `Spec => AccountIsAtomic`, the refinement of `Account`.
  `AccountInv` says that whoever holds the current version knows the current
  password, and that a token in the hand of a completion is unused while the
  version stands, so each commit is one request served at once and every other
  step is a stutter.

The exceptions that the statements carry (overlapped answers, removals, resets,
role assignments) are history variables that only the overlapping steps set, and
the runs of section 3 reach both sides of each.

Only model-checked:

* `EndsSettled` where a recovery overtakes a live worker (run `overtaken`): then two
  calls drive one execution, and neither `CustodyInv` nor `Mirrors` holds;
* `OneDriver` of `OperatorSpec`: an operator's request takes the lock over from a
  live worker. In the run `operator` it still cannot drive beside it, because retry
  and approval come to the worker's own process; there is no theorem for all
  instances, since a failed step's checkpoint lets a retry from another process in
  while the worker has yet to mark it;
* liveness, `CallsEnd`, `Settles`, `EventsAreProcessed`, `PageCatchesUp`: fairness
  and `ENABLED` are outside what the prover handles.

## 5. What is not modelled

* Execution: plans without stages, with several stages, with dependency cycles or
  missing dependencies; the cap on concurrent executions (it refuses before any
  write); timing and containment breach pauses and the idempotency review before
  a step, which take the same pause transaction as a review before a step (the
  breaches just before that review is asked for, the idempotency review just after
  it, with two writes of step and stage of its own before the pause); the breach
  that fails a step instead, after too many failures in a row; `MAX_EXECUTION_ATTEMPTS` (50 attempts), never reached by
  a handful of calls; `requestExecutionCancellation`, which has no production
  caller; the document store's copy of runs (the models take the review state that
  `resumeExecution` checks from the rows, which are written at the same time);
  resource locks inside a process, audit trail, review surfaces, payloads.
* Operators: `modify_resume`, an approval with new data; the expiry of keys;
  recommendations and timelines, which only read.
* Jobs: priorities (the oldest eligible job is taken first), pruning of old rows,
  the memory threshold of the worker process, metrics; the reasons for which an
  admission is refused are one flag.
* Proprium: rate limiters, registration and its defaults, recovery contacts,
  deactivated accounts, audit and authentication events that nothing reads back,
  what a bill says, handlers of the outbox other than the realtime one, tenant and
  permission checks of the stream, its limited lifetime.
* Scheduler, watcher and task queue: timer loops of one process over stored
  definitions. Recovery requests, automation, autonomy, verification and learning:
  append-only audit streams and gates in front of `recoverExecution`. Governance,
  constitutional and learning services: hundreds of pure validators, hashes and
  read models over records given to them. Routes and pages, schema and scripts.

## 6. Plan

Done: the execution runtime, operators, the job queue, households with event
delivery, sessions, and the proofs of section 4. Next, in order:

1. **Proofs about the engine**: `EndsSettled` with recoveries that wait for the
   workers; `OneDriver` of `OperatorSpec` when requests come to the worker's process.
2. **PlanExecution with outcomes**: holds, failures and the settled outcomes beside
   the progress of the steps that it states now.
3. **Recovery requests**: request, approval and commit of a recovery
   (`services/recovery*.js`) over `recoverExecution`.
