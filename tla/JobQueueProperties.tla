------------------------- MODULE JobQueueProperties -------------------------
(***************************************************************************)
(* What JobQueue is checked for.                                           *)
(***************************************************************************)
EXTENDS JobQueue

\* What update[p] may be.
Updates ==
    {NoUpdate} \cup [phase : {"log"}, id : Jobs]
        \cup [phase : {"write"}, id : Jobs, row : Row, log : BOOLEAN]

\* Where a worker loop may be.
Places == {"idle", "list", "batch", "check", "mark", "start", "run", "settle"}

\* The shape of the state.
JobQueueTypeOK ==
    /\ workers \in Staffs
    /\ jobs \in [Jobs -> Row]
    /\ update \in [Procs -> Updates]
    /\ at \in [Procs -> Places]
    /\ job \in [Procs -> Jobs \cup {0}]
    /\ batch \in [Procs -> SUBSET [id : Jobs, retry : BOOLEAN]]
    /\ stale \in [Procs -> SUBSET Jobs] /\ strays \in [Procs -> SUBSET Jobs]
    /\ timer \in BOOLEAN /\ requested \in BOOLEAN
    /\ starts \in [Jobs -> Nat] /\ manual \in [Jobs -> Nat]
    /\ succeeded \subseteq Jobs

\* The server runs the jobs and has not crashed.
Undisturbed == InProcess /\ spent.crashes = 0

\* A job shown as completed has had a processor return, however the rewrites
\* of several processes overlap (updateJob).
CompletedMeansRan == \A j \in In({"completed"}) : j \in succeeded

\* In process, a job's processor is called at most maxAttempts times and once
\* more for each time an operator retried the failed job, whatever leases
\* expire, timeouts leave strays behind or crashes repeat (runJob, recoverStaleJobs).
StartsWithinBudget ==
    InProcess => \A j \in Jobs : starts[j] <= MaxAttempts + manual[j]

\* While the in-process server lives, a job that waits has somebody coming for
\* it: the timer is armed or the loop is on its way (scheduleWorker).
NoLostWakeup ==
    Undisturbed /\ Pending # {} => timer \/ at[Server] # "idle"

\* While the in-process server lives, a row says running only while the loop
\* holds that very job: no path leaves a job running for ever.
RunningIsHeld ==
    Undisturbed /\ Free(Server) =>
        \A j \in In({"running"}) : at[Server] \in {"start", "run"} /\ job[Server] = j

\* The queue implements JobLifecycle: in process a job starts from the queue
\* only, a completed job stays completed, and a canceled one comes back only
\* through the requeue of a batch listed earlier or the run in hand.
InHand(p) ==
    LET writing == update[p].phase = "write" /\ update[p].log IN
    \/ at[p] = "run"
    \/ at[p] = "start" /\ ~writing
    \/ at[p] = "settle" /\ writing
Life == INSTANCE JobLifecycle WITH
    exclusive <- InProcess,
    phase <- [j \in Jobs |-> jobs[j].status],
    inHand <- IF InProcess /\ InHand(Server) THEN {job[Server]} ELSE {}
Lifecycle == Life!LifeSpec

\* Every accepted job settles: in process as long as the server does not
\* restart, and with one polling worker through crashes of either process
\* (scheduleWorker, runJobWorkerCycle, recoverStaleJobs).
Settles == \A j \in Jobs :
    j \in In({"queued", "running", "scheduled_retry"})
        ~> \/ j \in In({"completed", "failed", "canceled"})
           \/ InProcess /\ spent.crashes > 0
           \/ Cardinality(workers) > 1
=============================================================================
