------------------------------ MODULE JobQueue ------------------------------
(***************************************************************************)
(* The background job queue: services/jobQueue.js over the table that      *)
(* services/jobQueueStore.js keeps, scripts/job-worker.ts, and the call    *)
(* ensureBackgroundJobProcessors makes of it on every API request.         *)
(*                                                                         *)
(* One server process answers the API.  In the "in_process" mode it also   *)
(* runs the jobs, from a timer; in the "external" mode worker processes    *)
(* poll for them.  `workers' is the set of worker processes, {} in the     *)
(* in-process mode.                                                        *)
(*                                                                         *)
(* updateJob reads a row and later writes the whole row back, and          *)
(* appendJobEvent does so once more, with no transaction: the statements   *)
(* of two processes interleave, those of one synchronous block of one      *)
(* process do not meet its own callbacks.  `update[p]' is the rewrite that *)
(* process p is in the middle of.                                          *)
(***************************************************************************)
EXTENDS Naturals, FiniteSets

CONSTANTS
    NumJobs,      \* bound: jobs ever enqueued
    MaxAttempts,  \* maxAttempts of every job
    Server,       \* the process that answers the API
    Staffs,       \* the sets of worker processes a deployment may have
    MaxPending,   \* maxPendingJobs
    MaxRunning,   \* maxRunningJobs
    Bound         \* Bound[s], where the worker processes are s: how many jobs are
                  \* enqueued, how many cancel, retry and recover calls the server
                  \* gets, how many leases expire while their processor still
                  \* runs, and how many crashes there are

Jobs == 1..NumJobs
Workers == UNION Staffs
Procs == {Server} \cup Workers

ASSUME JobQueueAssumption ==
    /\ NumJobs \in Nat \ {0} /\ MaxAttempts \in Nat \ {0}
    /\ MaxPending \in Nat \ {0} /\ MaxRunning \in Nat \ {0}
    /\ Bound \in [Staffs -> [jobs : 1..NumJobs, calls : Nat, lapses : Nat, crashes : Nat]]
    /\ {} \in Staffs /\ Server \notin Workers

VARIABLES
    workers,    \* the worker processes; {} when queueExecutionMode is "in_process"
    jobs,       \* the table: a row per job
    update,     \* update[p]: the row rewrite p is in the middle of
    stale,      \* stale[p]: rows recoverStaleJobs of p listed and has not rewritten yet
    at,         \* at[p]: where the worker loop of p is
    job,        \* job[p]: the job runJob of p works on, or 0
    batch,      \* batch[p]: the rest of the batch, [id, retry] with the status it was listed in
    strays,     \* strays[p]: processors of p whose run timed out and that still run
    timer,      \* workerTimer is armed at the server
    requested,  \* workerLoopRequested at the server
    starts,     \* history: processor invocations of each job (in-process mode)
    manual,     \* history: failed jobs put back by retryJob
    succeeded,  \* history: jobs one of whose processors returned
    spent       \* what is used of the bounds on calls, lapses and crashes

vars == <<workers, jobs, update, stale, at, job, batch, strays, timer, requested,
          starts, manual, succeeded, spent>>

InProcess == workers = {}
Runner == IF InProcess THEN {Server} ELSE workers

Statuses == {"absent", "queued", "running", "scheduled_retry", "completed", "failed", "canceled"}
\* `live': the lease of a running job has not expired.  `due': nextRetryAt has
\* passed.  `sound': a processor is registered for the type and the admission
\* evidence is in order.
Row == [status : Statuses, attempts : Nat, live : BOOLEAN, due : BOOLEAN, sound : BOOLEAN]
Absent == [status |-> "absent", attempts |-> 0, live |-> FALSE, due |-> FALSE, sound |-> FALSE]

NoUpdate == [phase |-> "none"]

In(statuses) == {j \in Jobs : jobs[j].status \in statuses}
Pending == In({"queued", "scheduled_retry"})
Enqueued == {j \in Jobs : jobs[j].status # "absent"}

(* Mistaken variants: a change of status gives the attempt back; a job gets *)
(* one run too many; a job out of attempts counts as completed; a heartbeat *)
(* marks its row running; a canceled job is run; stale runs are missed; the *)
(* loop goes on only if asked to.                                           *)
ToRefunded(row, status) ==
    [row EXCEPT !.status = status, !.live = FALSE, !.due = FALSE, !.attempts = @ - 1]
RetryOrFailLate(row) ==
    [row EXCEPT !.status = IF row.attempts <= MaxAttempts THEN "scheduled_retry" ELSE "failed",
                !.live = FALSE, !.due = FALSE]
RetryOrComplete(row) ==
    [row EXCEPT !.status = IF row.attempts < MaxAttempts THEN "scheduled_retry" ELSE "completed",
                !.live = FALSE, !.due = FALSE]
RenewedAnyway(row) == [row EXCEPT !.status = "running", !.live = TRUE]
MayRunAnyway(row) == TRUE
LapsedUnseen == {}
GoesOnIfAsked == requested

To(row, status) == [row EXCEPT !.status = status, !.live = FALSE, !.due = FALSE]

\* What runJob's catch branch and recoverStaleJobs make of a run that did not end well.
RetryOrFail(row) ==
    To(row, IF row.attempts < MaxAttempts THEN "scheduled_retry" ELSE "failed")

\* extendJobLease: any row but a running one is written back as it is.
Renewed(row) == [row EXCEPT !.live = (row.status = "running")]

\* runJob leaves a job alone only if it is canceled.
MayRun(row) == row.status # "canceled"

\* Running rows whose lease has expired, as recoverStaleJobs lists them.
Lapsed == {j \in In({"running"}) : ~jobs[j].live}

\* The in-process loop goes on while a job is queued or waits for a retry; a
\* request made meanwhile adds nothing, scheduleWorker asks the same again.
GoesOn == Pending # {}

-----------------------------------------------------------------------------
Init ==
    /\ workers \in Staffs
    /\ jobs = [j \in Jobs |-> Absent]
    /\ update = [p \in Procs |-> NoUpdate]
    /\ stale = [p \in Procs |-> {}]
    /\ at = [p \in Procs |-> "idle"]
    /\ job = [p \in Procs |-> 0]
    /\ batch = [p \in Procs |-> {}]
    /\ strays = [p \in Procs |-> {}]
    /\ timer = FALSE /\ requested = FALSE
    /\ starts = [j \in Jobs |-> 0] /\ manual = [j \in Jobs |-> 0]
    /\ succeeded = {}
    /\ spent = [calls |-> 0, lapses |-> 0, crashes |-> 0]

\* p is in no synchronous block of an update or of a recovery.
Free(p) == update[p] = NoUpdate /\ stale[p] = {}
\* The event loop of p may turn to another callback: the worker loop, if any,
\* is suspended at an await.
Awaiting(p) == Free(p) /\ at[p] \in {"idle", "batch", "run"}

\* updateJob: the row read now, to be written by Store; `log' when appendJobEvent follows.
Rewrite(p, j, row, log) ==
    update' = [update EXCEPT ![p] = [phase |-> "write", id |-> j, row |-> row, log |-> log]]

\* The upsert of the row that updateJob built.
Store(p) ==
    /\ update[p].phase = "write"
    /\ jobs' = [jobs EXCEPT ![update[p].id] = update[p].row]
    /\ update' = [update EXCEPT ![p] =
            IF update[p].log THEN [phase |-> "log", id |-> update[p].id] ELSE NoUpdate]
    /\ UNCHANGED <<workers, stale, at, job, batch, strays, timer, requested,
                   starts, manual, succeeded, spent>>

\* appendJobEvent: one more read and write of the whole row.
Append(p) ==
    /\ update[p].phase = "log"
    /\ Rewrite(p, update[p].id, jobs[update[p].id], FALSE)
    /\ UNCHANGED <<workers, jobs, stale, at, job, batch, strays, timer, requested,
                   starts, manual, succeeded, spent>>

-----------------------------------------------------------------------------
(* The API at the server.                                                  *)

\* scheduleWorker, once the table holds a queued job.
ScheduleWorker ==
    IF ~InProcess THEN UNCHANGED <<timer, requested>>
    ELSE IF at[Server] # "idle" THEN requested' = TRUE /\ UNCHANGED timer
    ELSE timer' = TRUE /\ UNCHANGED requested

\* enqueueJob, refused while getQueueCapacity is saturated.
EnqueueJob(j, sound) ==
    /\ Awaiting(Server)
    /\ j = Cardinality(Enqueued) + 1 /\ j <= Bound[workers].jobs
    /\ Cardinality(Pending) < MaxPending /\ Cardinality(In({"running"})) < MaxRunning
    /\ jobs' = [jobs EXCEPT ![j] = [Absent EXCEPT !.status = "queued", !.sound = sound]]
    /\ ScheduleWorker
    /\ UNCHANGED <<workers, update, stale, at, job, batch, strays, starts, manual, succeeded, spent>>

Call ==
    /\ Awaiting(Server)
    /\ spent.calls < Bound[workers].calls
    /\ spent' = [spent EXCEPT !.calls = @ + 1]

\* cancelJob: a job that is neither queued nor waiting for a retry is written back as it is.
CancelJob(j) ==
    /\ Call
    /\ j \in Enqueued
    /\ IF j \in Pending THEN Rewrite(Server, j, To(jobs[j], "canceled"), TRUE)
       ELSE Rewrite(Server, j, jobs[j], jobs[j].status = "canceled")
    /\ UNCHANGED <<workers, jobs, stale, at, job, batch, strays, timer, requested,
                   starts, manual, succeeded>>

\* retryJob: the attempts already made stay counted; any job that is queued
\* afterwards wakes the worker loop.
RetryJob(j) ==
    /\ Call
    /\ j \in Enqueued
    /\ LET row == IF jobs[j].status \in {"failed", "scheduled_retry"}
                  THEN To(jobs[j], "queued") ELSE jobs[j]
       IN  /\ Rewrite(Server, j, row, row.status = "queued")
           /\ IF row.status = "queued" THEN ScheduleWorker ELSE UNCHANGED <<timer, requested>>
    /\ manual' = [manual EXCEPT ![j] = IF jobs[j].status = "failed" THEN @ + 1 ELSE @]
    /\ UNCHANGED <<workers, jobs, stale, at, job, batch, strays, starts, succeeded>>

\* recoverStaleJobs, as ensureBackgroundJobProcessors calls it: one listing ...
RecoverStaleJobs ==
    /\ Call
    /\ Lapsed # {}
    /\ stale' = [stale EXCEPT ![Server] = Lapsed]
    /\ UNCHANGED <<workers, jobs, update, at, job, batch, strays, timer, requested,
                   starts, manual, succeeded>>

\* ... and an update of each row it listed, whatever the row says by then.
RecoverJob(p) ==
    /\ update[p] = NoUpdate
    /\ \E j \in stale[p] :
          /\ stale' = [stale EXCEPT ![p] = @ \ {j}]
          /\ Rewrite(p, j, RetryOrFail(jobs[j]), FALSE)
    /\ UNCHANGED <<workers, jobs, at, job, batch, strays, timer, requested,
                   starts, manual, succeeded, spent>>

-----------------------------------------------------------------------------
(* The worker loop: runPendingJobs and runJob.                             *)

\* The timer of the in-process loop fires.
TimerFires ==
    /\ InProcess /\ timer /\ Awaiting(Server) /\ at[Server] = "idle"
    /\ timer' = FALSE
    /\ at' = [at EXCEPT ![Server] = "list"]
    /\ UNCHANGED <<workers, jobs, update, stale, job, batch, strays, requested,
                   starts, manual, succeeded, spent>>

\* runJobWorkerCycle: a worker first recovers stale jobs.
WorkerCycle(p) ==
    /\ p \in workers /\ Awaiting(p) /\ at[p] = "idle"
    /\ In({"queued", "running", "scheduled_retry"}) # {}
    /\ stale' = [stale EXCEPT ![p] = Lapsed]
    /\ at' = [at EXCEPT ![p] = "list"]
    /\ UNCHANGED <<workers, jobs, update, job, batch, strays, timer, requested,
                   starts, manual, succeeded, spent>>

Eligible == {j \in Pending : jobs[j].status = "queued" \/ jobs[j].due}

\* listEligibleJobs: the batch carries the rows as they were at this moment.
ListEligible(p) ==
    /\ Free(p) /\ at[p] = "list"
    /\ batch' = [batch EXCEPT ![p] =
            {[id |-> j, retry |-> jobs[j].status = "scheduled_retry"] : j \in Eligible}]
    /\ at' = [at EXCEPT ![p] = "batch"]
    /\ UNCHANGED <<workers, jobs, update, stale, job, strays, timer, requested,
                   starts, manual, succeeded, spent>>

\* The oldest job of the batch; one that was listed for a retry is first put
\* back to queued, whatever its row says by now.
TakeNext(p) ==
    /\ Awaiting(p) /\ at[p] = "batch"
    /\ \E b \in batch[p] :
          /\ \A other \in batch[p] : b.id <= other.id
          /\ batch' = [batch EXCEPT ![p] = @ \ {b}]
          /\ job' = [job EXCEPT ![p] = b.id]
          /\ IF b.retry THEN Rewrite(p, b.id, To(jobs[b.id], "queued"), TRUE)
             ELSE UNCHANGED update
    /\ at' = [at EXCEPT ![p] = "check"]
    /\ UNCHANGED <<workers, jobs, stale, strays, timer, requested, starts, manual, succeeded, spent>>

\* The checks of runJob on a fresh read: a canceled job is left alone, a job
\* without a processor or without its admission fails.
Check(p) ==
    /\ Free(p) /\ at[p] = "check"
    /\ LET row == jobs[job[p]] IN
       \/ /\ ~MayRun(row)
          /\ at' = [at EXCEPT ![p] = "batch"]
          /\ job' = [job EXCEPT ![p] = 0]
          /\ UNCHANGED update
       \/ /\ MayRun(row) /\ ~row.sound
          /\ Rewrite(p, job[p], To(row, "failed"), TRUE)
          /\ at' = [at EXCEPT ![p] = "batch"]
          /\ job' = [job EXCEPT ![p] = 0]
       \/ /\ MayRun(row) /\ row.sound
          /\ at' = [at EXCEPT ![p] = "mark"]
          /\ UNCHANGED <<job, update>>
    /\ UNCHANGED <<workers, jobs, stale, batch, strays, timer, requested,
                   starts, manual, succeeded, spent>>

\* runJob marks the job running without a look at its status, and logs.
Mark(p) ==
    /\ Free(p) /\ at[p] = "mark"
    /\ Rewrite(p, job[p], [jobs[job[p]] EXCEPT !.status = "running", !.attempts = @ + 1,
                                               !.live = TRUE, !.due = FALSE], TRUE)
    /\ at' = [at EXCEPT ![p] = "start"]
    /\ UNCHANGED <<workers, jobs, stale, job, batch, strays, timer, requested,
                   starts, manual, succeeded, spent>>

\* The processor is called.
Invoke(p) ==
    /\ Free(p) /\ at[p] = "start"
    /\ at' = [at EXCEPT ![p] = "run"]
    /\ starts' = [starts EXCEPT ![job[p]] = IF InProcess THEN @ + 1 ELSE @]
    /\ UNCHANGED <<workers, jobs, update, stale, job, batch, strays, timer, requested,
                   manual, succeeded, spent>>

EndRun(p) ==
    /\ Awaiting(p) /\ at[p] = "run"
    /\ at' = [at EXCEPT ![p] = "settle"]
    /\ UNCHANGED <<workers, jobs, stale, job, batch, timer, requested, starts, manual, spent>>

\* The processor returns: the job is completed, whatever its row says.
Complete(p) ==
    /\ EndRun(p)
    /\ succeeded' = succeeded \cup {job[p]}
    /\ Rewrite(p, job[p], To(jobs[job[p]], "completed"), TRUE)
    /\ UNCHANGED strays

\* The processor throws, or the runtime limit passes and the processor goes on
\* with nobody waiting for it.
Fail(p, timedOut) ==
    /\ EndRun(p)
    /\ Rewrite(p, job[p], RetryOrFail(jobs[job[p]]), TRUE)
    /\ strays' = [strays EXCEPT ![p] = IF timedOut THEN @ \cup {job[p]} ELSE @]
    /\ UNCHANGED succeeded

\* runJob has written its outcome and returns to the batch.
Settled(p) ==
    /\ Free(p) /\ at[p] = "settle"
    /\ at' = [at EXCEPT ![p] = "batch"]
    /\ job' = [job EXCEPT ![p] = 0]
    /\ UNCHANGED <<workers, jobs, update, stale, batch, strays, timer, requested,
                   starts, manual, succeeded, spent>>

\* The heartbeat timer of a run, or a heartbeat or log call of a processor,
\* one of a stray run included.
Heartbeat(p, j, log) ==
    /\ Awaiting(p)
    /\ \/ at[p] = "run" /\ j = job[p]
       \/ j \in strays[p] /\ log
    /\ Rewrite(p, j, Renewed(jobs[j]), log)
    /\ UNCHANGED <<workers, jobs, stale, at, job, batch, strays, timer, requested,
                   starts, manual, succeeded, spent>>

StrayEnds(p, j) ==
    /\ Awaiting(p)
    /\ j \in strays[p]
    /\ strays' = [strays EXCEPT ![p] = @ \ {j}]
    /\ UNCHANGED <<workers, jobs, update, stale, at, job, batch, timer, requested,
                   starts, manual, succeeded, spent>>

\* The batch is done; the in-process loop may arm its timer again.
LoopEnds(p) ==
    /\ Awaiting(p) /\ at[p] = "batch" /\ batch[p] = {}
    /\ at' = [at EXCEPT ![p] = "idle"]
    /\ IF p = Server THEN timer' = GoesOn /\ requested' = FALSE
       ELSE UNCHANGED <<timer, requested>>
    /\ UNCHANGED <<workers, jobs, update, stale, job, batch, strays, starts, manual, succeeded, spent>>

-----------------------------------------------------------------------------
(* Time and crashes.                                                       *)

\* nextRetryAt passes, in the table and in the copies about to be written.
RetryWindowOpens(j) ==
    /\ jobs[j].status = "scheduled_retry" /\ ~jobs[j].due
    /\ jobs' = [jobs EXCEPT ![j].due = TRUE]
    /\ update' = [p \in Procs |->
            IF update[p].phase = "write" /\ update[p].id = j
            THEN [update[p] EXCEPT !.row.due = (@ \/ update[p].row.status = "scheduled_retry")]
            ELSE update[p]]
    /\ UNCHANGED <<workers, stale, at, job, batch, strays, timer, requested,
                   starts, manual, succeeded, spent>>

Held(j) == \E p \in Procs : at[p] = "run" /\ job[p] = j

\* A lease expires.  That of a run still held is renewed every 5 s of at least
\* 15 s, so it expires only when its process stalls or its writes are undone.
LeaseExpires(j) ==
    /\ jobs[j].status = "running" /\ jobs[j].live
    /\ Held(j) => spent.lapses < Bound[workers].lapses
    /\ jobs' = [jobs EXCEPT ![j].live = FALSE]
    /\ spent' = [spent EXCEPT !.lapses = IF Held(j) THEN @ + 1 ELSE @]
    /\ UNCHANGED <<workers, update, stale, at, job, batch, strays, timer, requested,
                   starts, manual, succeeded>>

\* A process dies and is started again: all it held in memory is gone, the
\* worker timer included; nothing at start arms it.
Crash(p) ==
    /\ p \in Runner \cup {Server}
    /\ spent.crashes < Bound[workers].crashes
    /\ spent' = [spent EXCEPT !.crashes = @ + 1]
    /\ update' = [update EXCEPT ![p] = NoUpdate]
    /\ stale' = [stale EXCEPT ![p] = {}]
    /\ at' = [at EXCEPT ![p] = "idle"]
    /\ job' = [job EXCEPT ![p] = 0]
    /\ batch' = [batch EXCEPT ![p] = {}]
    /\ strays' = [strays EXCEPT ![p] = {}]
    /\ IF p = Server THEN timer' = FALSE /\ requested' = FALSE
       ELSE UNCHANGED <<timer, requested>>
    /\ UNCHANGED <<workers, jobs, starts, manual, succeeded>>

Api ==
    \/ \E j \in Jobs, sound \in BOOLEAN : EnqueueJob(j, sound)
    \/ \E j \in Jobs : CancelJob(j) \/ RetryJob(j)
    \/ RecoverStaleJobs

\* The rest of the synchronous block p is in.
Block(p) == Store(p) \/ Append(p) \/ RecoverJob(p)

\* The steps of the worker loop of p.
Loop(p) ==
    \/ WorkerCycle(p) \/ (p = Server /\ TimerFires)
    \/ ListEligible(p) \/ TakeNext(p) \/ Check(p) \/ Mark(p) \/ Invoke(p)
    \/ Complete(p) \/ (\E timedOut \in BOOLEAN : Fail(p, timedOut)) \/ Settled(p)
    \/ LoopEnds(p)

Clock(j) == RetryWindowOpens(j) \/ LeaseExpires(j)

Next ==
    \/ Api
    \/ \E p \in Procs : Block(p) \/ Loop(p)
    \/ \E p \in Procs, j \in Jobs, log \in BOOLEAN : Heartbeat(p, j, log)
    \/ \E p \in Procs, j \in Jobs : StrayEnds(p, j)
    \/ \E j \in Jobs : Clock(j)
    \/ \E p \in Procs : Crash(p)

JobQueueSpec == Init /\ [][Next]_vars

\* Node's event loop serves due timers and settled promises in turn, so a step
\* of the loop that keeps being possible is taken even if other callbacks of
\* the process come between; time passes; nobody renews the lease of a run
\* that no process holds.
JobQueueFairSpec ==
    /\ JobQueueSpec
    /\ \A p \in Procs : WF_vars(Block(p)) /\ SF_vars(Loop(p))
    /\ \A p \in Procs : SF_vars(\E j \in Jobs : StrayEnds(p, j))
    /\ \A j \in Jobs : WF_vars(RetryWindowOpens(j)) /\ WF_vars(~Held(j) /\ LeaseExpires(j))
=============================================================================
