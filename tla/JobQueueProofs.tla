--------------------------- MODULE JobQueueProofs ---------------------------
(***************************************************************************)
(* The safety properties of JobQueue, for any number of jobs, attempts,    *)
(* worker processes, calls, lapses and crashes.                            *)
(***************************************************************************)
EXTENDS JobQueueProperties, FiniteSetTheorems, TLAPS

(* The shape of the state, in three parts: the table and the rewrites of it, *)
(* where the loops are (one past its batch has a job in hand), and the rest. *)
TableOK ==
    /\ workers \in Staffs
    /\ jobs \in [Jobs -> Row]
    /\ update \in [Procs -> Updates]

AtJob == {"check", "mark", "start", "run", "settle"}
LoopsOK ==
    /\ at \in [Procs -> Places]
    /\ job \in [Procs -> Jobs \cup {0}]
    /\ \A p \in Procs : at[p] \in AtJob => job[p] \in Jobs

RestOK ==
    /\ batch \in [Procs -> SUBSET [id : Jobs, retry : BOOLEAN]]
    /\ stale \in [Procs -> SUBSET Jobs] /\ strays \in [Procs -> SUBSET Jobs]
    /\ timer \in BOOLEAN /\ requested \in BOOLEAN
    /\ starts \in [Jobs -> Nat] /\ manual \in [Jobs -> Nat]
    /\ succeeded \subseteq Jobs
    /\ spent \in [calls : Nat, lapses : Nat, crashes : Nat]

TypeInv == TableOK /\ LoopsOK /\ RestOK

LEMMA TypeIsShape == TypeInv => JobQueueTypeOK
BY DEF TypeInv, TableOK, LoopsOK, RestOK, JobQueueTypeOK

-----------------------------------------------------------------------------
(* The operators. *)

LEMMA ToType ==
  ASSUME NEW row \in Row, NEW status \in Statuses
  PROVE  /\ To(row, status) \in Row
         /\ To(row, status).status = status /\ To(row, status).attempts = row.attempts
BY DEF To, Row

LEMMA RetryOrFailType ==
  ASSUME NEW row \in Row
  PROVE  /\ RetryOrFail(row) \in Row /\ RetryOrFail(row).attempts = row.attempts
         /\ \/ RetryOrFail(row).status = "scheduled_retry" /\ row.attempts < MaxAttempts
            \/ RetryOrFail(row).status = "failed" /\ row.attempts >= MaxAttempts
<1>1. CASE row.attempts < MaxAttempts
  <2>1. RetryOrFail(row) = To(row, "scheduled_retry")
    BY <1>1 DEF RetryOrFail
  <2> QED  BY <1>1, <2>1, ToType DEF Statuses
<1>2. CASE ~(row.attempts < MaxAttempts)
  <2>1. RetryOrFail(row) = To(row, "failed")
    BY <1>2 DEF RetryOrFail
  <2>2. row.attempts >= MaxAttempts
    BY <1>2, JobQueueAssumption DEF Row
  <2> QED  BY <2>1, <2>2, ToType DEF Statuses
<1> QED  BY <1>1, <1>2

LEMMA RenewedType ==
  ASSUME NEW row \in Row
  PROVE  /\ Renewed(row) \in Row
         /\ Renewed(row).status = row.status /\ Renewed(row).attempts = row.attempts
<1>1. \E live \in BOOLEAN : Renewed(row) = [row EXCEPT !.live = live]
  BY DEF Renewed
<1> QED  BY <1>1 DEF Row

(* The row Mark writes.                                                     *)
Marked(row) ==
    [row EXCEPT !.status = "running", !.attempts = @ + 1, !.live = TRUE, !.due = FALSE]

LEMMA MarkedType ==
  ASSUME NEW row \in Row
  PROVE  /\ Marked(row) \in Row
         /\ Marked(row).status = "running" /\ Marked(row).attempts = row.attempts + 1
<1>1. PICK n \in Nat : n = row.attempts
  BY DEF Row
<1>2. n + 1 \in Nat /\ Marked(row) = [row EXCEPT !.status = "running", !.attempts = n + 1,
                                                 !.live = TRUE, !.due = FALSE]
  BY <1>1 DEF Marked
<1> QED  BY <1>1, <1>2 DEF Row, Statuses

(* p has row written over that of j, whether or not it logs afterwards.     *)
Rewrites(p, j, row) ==
    \E u \in Updates : /\ u.phase = "write" /\ u.id = j /\ u.row = row
                       /\ update' = [update EXCEPT ![p] = u]

LEMMA RewriteType ==
  ASSUME NEW p \in Procs, NEW j \in Jobs, NEW row \in Row, NEW log \in BOOLEAN,
         Rewrite(p, j, row, log)
  PROVE  Rewrites(p, j, row)
<1> DEFINE u == [phase |-> "write", id |-> j, row |-> row, log |-> log]
<1>1. u \in Updates /\ u.phase = "write" /\ u.id = j /\ u.row = row
  BY DEF Updates
<1>2. update' = [update EXCEPT ![p] = u]
  BY Zenon DEF Rewrite
<1> HIDE DEF u
<1> QED  BY <1>1, <1>2 DEF Rewrites

LEMMA UpdateShape ==
  ASSUME TableOK, NEW p \in Procs
  PROVE  /\ update[p].phase = "none" <=> update[p] = NoUpdate
         /\ update[p].phase # "none" => update[p].id \in Jobs
         /\ update[p].phase = "write" => update[p].row \in Row /\ update[p].log \in BOOLEAN
BY DEF TableOK, Updates, NoUpdate

(* A rewrite of a row, and a step of a loop, keep the shape.                *)
LEMMA RewriteKeeps ==
  ASSUME TableOK, NEW p \in Procs, NEW j \in Jobs, NEW row \in Row,
         Rewrites(p, j, row), UNCHANGED <<workers, jobs>>
  PROVE  TableOK'
BY DEF Rewrites, TableOK

LEMMA MoveKeeps ==
  ASSUME LoopsOK, NEW p \in Procs, NEW place \in Places, at' = [at EXCEPT ![p] = place],
         NEW j \in Jobs \cup {0}, job' = [job EXCEPT ![p] = j], place \in AtJob => j \in Jobs
  PROVE  LoopsOK'
BY DEF LoopsOK

LEMMA StandKeeps ==
  ASSUME LoopsOK, NEW p \in Procs, NEW place \in Places, at' = [at EXCEPT ![p] = place],
         UNCHANGED job, place \in AtJob => job[p] \in Jobs
  PROVE  LoopsOK'
BY DEF LoopsOK

-----------------------------------------------------------------------------
(* The rows the actions write. *)

LEMMA ScheduleType ==
  ASSUME RestOK, ScheduleWorker
  PROVE  timer' \in BOOLEAN /\ requested' \in BOOLEAN
BY DEF RestOK, ScheduleWorker

LEMMA CallType ==
  ASSUME RestOK, Call
  PROVE  spent' \in [calls : Nat, lapses : Nat, crashes : Nat]
BY DEF RestOK, Call

(* What cancelJob and retryJob write back.                                  *)
LEMMA CancelWrites ==
  ASSUME TableOK, NEW j \in Jobs, CancelJob(j)
  PROVE  \E row \in Row :
            /\ Rewrites(Server, j, row) /\ row.attempts = jobs[j].attempts
            /\ IF j \in Pending THEN row.status = "canceled" ELSE row = jobs[j]
<1>1. Server \in Procs /\ jobs[j] \in Row
  BY DEF Procs, TableOK
<1>2. CASE j \in Pending
  <2>1. To(jobs[j], "canceled") \in Row /\ To(jobs[j], "canceled").status = "canceled"
        /\ To(jobs[j], "canceled").attempts = jobs[j].attempts
    BY <1>1, ToType DEF Statuses
  <2>2. Rewrites(Server, j, To(jobs[j], "canceled"))
    BY <1>1, <1>2, <2>1, RewriteType DEF CancelJob
  <2> QED  BY <1>2, <2>1, <2>2
<1>3. CASE j \notin Pending
  <2>1. PICK log \in BOOLEAN : Rewrite(Server, j, jobs[j], log)
    BY <1>3 DEF CancelJob
  <2> QED  BY <1>1, <1>3, <2>1, RewriteType
<1> QED  BY <1>2, <1>3

LEMMA RetryWrites ==
  ASSUME TableOK, NEW j \in Jobs, RetryJob(j)
  PROVE  \E row \in Row :
            /\ Rewrites(Server, j, row) /\ row.attempts = jobs[j].attempts
            /\ IF jobs[j].status \in {"failed", "scheduled_retry"}
               THEN row.status = "queued" ELSE row = jobs[j]
            /\ IF row.status = "queued" THEN ScheduleWorker ELSE UNCHANGED <<timer, requested>>
<1> DEFINE row == IF jobs[j].status \in {"failed", "scheduled_retry"}
                  THEN To(jobs[j], "queued") ELSE jobs[j]
<1>1. Server \in Procs /\ jobs[j] \in Row
  BY DEF Procs, TableOK
<1>2. /\ row \in Row /\ row.attempts = jobs[j].attempts
      /\ IF jobs[j].status \in {"failed", "scheduled_retry"}
         THEN row.status = "queued" ELSE row = jobs[j]
  BY <1>1, ToType DEF Statuses
<1>3. PICK log \in BOOLEAN : Rewrite(Server, j, row, log)
  BY DEF RetryJob
<1>4. IF row.status = "queued" THEN ScheduleWorker ELSE UNCHANGED <<timer, requested>>
  BY DEF RetryJob
<1> HIDE DEF row
<1>5. Rewrites(Server, j, row)
  BY <1>1, <1>2, <1>3, RewriteType
<1> QED  BY <1>2, <1>4, <1>5

LEMMA AppendWrites ==
  ASSUME TypeInv, NEW p \in Procs, Append(p)
  PROVE  /\ update[p].id \in Jobs /\ jobs[update[p].id] \in Row
         /\ Rewrites(p, update[p].id, jobs[update[p].id])
<1>1. update[p].id \in Jobs /\ jobs[update[p].id] \in Row
  BY UpdateShape DEF Append, TypeInv, TableOK
<1> QED  BY <1>1, RewriteType DEF Append

LEMMA RecoverWrites ==
  ASSUME TypeInv, NEW p \in Procs, RecoverJob(p)
  PROVE  \E j \in stale[p] :
            /\ stale' = [stale EXCEPT ![p] = @ \ {j}]
            /\ j \in Jobs /\ jobs[j] \in Row /\ RetryOrFail(jobs[j]) \in Row
            /\ Rewrites(p, j, RetryOrFail(jobs[j]))
<1>1. PICK j \in stale[p] : /\ stale' = [stale EXCEPT ![p] = @ \ {j}]
                            /\ Rewrite(p, j, RetryOrFail(jobs[j]), FALSE)
  BY DEF RecoverJob
<1>2. j \in Jobs /\ jobs[j] \in Row
  BY DEF TypeInv, TableOK, RestOK
<1> QED  BY <1>1, <1>2, RetryOrFailType, RewriteType

(* The job taken from the batch is requeued if it was listed for a retry.   *)
LEMMA TakeWrites ==
  ASSUME TypeInv, NEW p \in Procs, TakeNext(p)
  PROVE  \E b \in batch[p] :
            /\ batch' = [batch EXCEPT ![p] = @ \ {b}]
            /\ job' = [job EXCEPT ![p] = b.id]
            /\ b.id \in Jobs /\ jobs[b.id] \in Row
            /\ \/ ~b.retry /\ UNCHANGED update
               \/ \E row \in Row : /\ b.retry /\ Rewrites(p, b.id, row)
                                   /\ row.status = "queued" /\ row.attempts = jobs[b.id].attempts
<1>1. PICK b \in batch[p] :
        /\ batch' = [batch EXCEPT ![p] = @ \ {b}]
        /\ job' = [job EXCEPT ![p] = b.id]
        /\ IF b.retry THEN Rewrite(p, b.id, To(jobs[b.id], "queued"), TRUE) ELSE UNCHANGED update
  BY DEF TakeNext
<1>2. b.id \in Jobs /\ jobs[b.id] \in Row
  BY DEF TypeInv, RestOK, TableOK
<1>3. /\ To(jobs[b.id], "queued") \in Row /\ To(jobs[b.id], "queued").status = "queued"
      /\ To(jobs[b.id], "queued").attempts = jobs[b.id].attempts
  BY <1>2, ToType DEF Statuses
<1>4. b.retry => Rewrites(p, b.id, To(jobs[b.id], "queued"))
  BY <1>1, <1>2, <1>3, RewriteType
<1> QED  BY <1>1, <1>2, <1>3, <1>4

LEMMA HeldRow ==
  ASSUME TypeInv, NEW p \in Procs, at[p] \in AtJob
  PROVE  job[p] \in Jobs /\ jobs[job[p]] \in Row
BY DEF TypeInv, LoopsOK, TableOK

(* The checks pass a row on, leave a canceled one, or fail it.              *)
LEMMA CheckWrites ==
  ASSUME TypeInv, NEW p \in Procs, Check(p)
  PROVE  /\ job[p] \in Jobs /\ jobs[job[p]] \in Row
         /\ \/ /\ at' = [at EXCEPT ![p] = "batch"] /\ job' = [job EXCEPT ![p] = 0]
               /\ UNCHANGED update
            \/ /\ at' = [at EXCEPT ![p] = "mark"] /\ UNCHANGED <<job, update>>
               /\ jobs[job[p]].status # "canceled"
            \/ /\ at' = [at EXCEPT ![p] = "batch"] /\ job' = [job EXCEPT ![p] = 0]
               /\ \E row \in Row :
                     /\ Rewrites(p, job[p], row)
                     /\ row.status = "failed" /\ row.attempts = jobs[job[p]].attempts
<1>1. job[p] \in Jobs /\ jobs[job[p]] \in Row
  BY HeldRow DEF Check, AtJob
<1>2. /\ To(jobs[job[p]], "failed") \in Row /\ To(jobs[job[p]], "failed").status = "failed"
      /\ To(jobs[job[p]], "failed").attempts = jobs[job[p]].attempts
  BY <1>1, ToType DEF Statuses
<1>3. Rewrite(p, job[p], To(jobs[job[p]], "failed"), TRUE)
        => Rewrites(p, job[p], To(jobs[job[p]], "failed"))
  BY <1>1, <1>2, RewriteType
<1> QED  BY <1>1, <1>2, <1>3 DEF Check, MayRun

LEMMA MarkWrites ==
  ASSUME TypeInv, NEW p \in Procs, Mark(p)
  PROVE  /\ job[p] \in Jobs /\ jobs[job[p]] \in Row /\ Marked(jobs[job[p]]) \in Row
         /\ Rewrites(p, job[p], Marked(jobs[job[p]]))
<1>1. job[p] \in Jobs /\ jobs[job[p]] \in Row
  BY HeldRow DEF Mark, AtJob
<1>2. Rewrite(p, job[p], Marked(jobs[job[p]]), TRUE)
  BY DEF Mark, Marked
<1> QED  BY <1>1, <1>2, MarkedType, RewriteType

LEMMA CompleteWrites ==
  ASSUME TypeInv, NEW p \in Procs, Complete(p)
  PROVE  /\ job[p] \in Jobs /\ jobs[job[p]] \in Row
         /\ \E row \in Row : /\ Rewrites(p, job[p], row)
                            /\ row.status = "completed" /\ row.attempts = jobs[job[p]].attempts
<1>1. job[p] \in Jobs /\ jobs[job[p]] \in Row
  BY HeldRow DEF Complete, EndRun, AtJob
<1>2. /\ To(jobs[job[p]], "completed") \in Row /\ To(jobs[job[p]], "completed").status = "completed"
      /\ To(jobs[job[p]], "completed").attempts = jobs[job[p]].attempts
  BY <1>1, ToType DEF Statuses
<1>3. Rewrites(p, job[p], To(jobs[job[p]], "completed"))
  BY <1>1, <1>2, RewriteType DEF Complete
<1> QED  BY <1>1, <1>2, <1>3

LEMMA FailWrites ==
  ASSUME TypeInv, NEW p \in Procs, NEW timedOut \in BOOLEAN, Fail(p, timedOut)
  PROVE  /\ job[p] \in Jobs /\ jobs[job[p]] \in Row /\ RetryOrFail(jobs[job[p]]) \in Row
         /\ Rewrites(p, job[p], RetryOrFail(jobs[job[p]]))
<1>1. job[p] \in Jobs /\ jobs[job[p]] \in Row
  BY HeldRow DEF Fail, EndRun, AtJob
<1> QED  BY <1>1, RetryOrFailType, RewriteType DEF Fail

LEMMA BeatWrites ==
  ASSUME TypeInv, NEW p \in Procs, NEW j \in Jobs, NEW log \in BOOLEAN, Heartbeat(p, j, log)
  PROVE  /\ jobs[j] \in Row /\ Renewed(jobs[j]) \in Row
         /\ Rewrites(p, j, Renewed(jobs[j]))
<1>1. jobs[j] \in Row
  BY DEF TypeInv, TableOK
<1> QED  BY <1>1, RenewedType, RewriteType DEF Heartbeat

(* The clock opens a retry window in a row about to be written as well.     *)
LEMMA WindowWrites ==
  ASSUME TableOK, NEW j \in Jobs, RetryWindowOpens(j), NEW p \in Procs
  PROVE  /\ update'[p] \in Updates
         /\ update'[p].phase = update[p].phase
         /\ update[p] = NoUpdate => update'[p] = NoUpdate
         /\ update[p].phase # "none" => update'[p].id = update[p].id
         /\ update[p].phase = "write" =>
              /\ update'[p].row.status = update[p].row.status
              /\ update'[p].row.attempts = update[p].row.attempts
              /\ update'[p].log = update[p].log
<1>1. update[p] \in Updates
  BY DEF TableOK
<1>2. CASE update[p].phase = "write" /\ update[p].id = j
  <2>1. \E due \in BOOLEAN : update'[p] = [update[p] EXCEPT !.row.due = due]
    BY <1>2 DEF RetryWindowOpens
  <2>2. update[p] \in [phase : {"write"}, id : Jobs, row : Row, log : BOOLEAN]
    BY <1>1, <1>2 DEF Updates, NoUpdate
  <2> QED  BY <1>2, <2>1, <2>2 DEF Updates, Row, NoUpdate
<1>3. CASE ~(update[p].phase = "write" /\ update[p].id = j)
  BY <1>1, <1>3 DEF RetryWindowOpens
<1> QED  BY <1>2, <1>3

-----------------------------------------------------------------------------
LEMMA TypeInit == Init => TypeInv
<1> SUFFICES ASSUME Init PROVE TypeInv
  OBVIOUS
<1>1. NoUpdate \in Updates
  BY DEF Updates
<1>2. Absent \in Row
  BY DEF Absent, Row, Statuses
<1>3. TableOK
  BY <1>1, <1>2 DEF Init, TableOK
<1>4. LoopsOK
  BY DEF Init, LoopsOK, Places, AtJob
<1>5. RestOK
  BY DEF Init, RestOK
<1> QED  BY <1>3, <1>4, <1>5 DEF TypeInv

LEMMA BlockType ==
  ASSUME TypeInv, NEW p \in Procs, Block(p)
  PROVE  TypeInv'
<1> USE DEF TypeInv
<1>1. CASE Store(p)
  <2>1. update[p].id \in Jobs /\ update[p].row \in Row
    BY <1>1, UpdateShape DEF Store
  <2>2. [phase |-> "log", id |-> update[p].id] \in Updates /\ NoUpdate \in Updates
    BY <2>1 DEF Updates
  <2>3. TableOK'
    BY <1>1, <2>1, <2>2 DEF Store, TableOK
  <2>4. LoopsOK'
    BY <1>1 DEF Store, LoopsOK
  <2>5. RestOK'
    BY <1>1 DEF Store, RestOK
  <2> QED  BY <2>3, <2>4, <2>5
<1>2. CASE Append(p)
  <2>3. TableOK'
    BY <1>2, AppendWrites, RewriteKeeps DEF Append
  <2>4. LoopsOK'
    BY <1>2 DEF Append, LoopsOK
  <2>5. RestOK'
    BY <1>2 DEF Append, RestOK
  <2> QED  BY <2>3, <2>4, <2>5
<1>3. CASE RecoverJob(p)
  <2>1. PICK j \in stale[p] :
          /\ stale' = [stale EXCEPT ![p] = @ \ {j}]
          /\ j \in Jobs /\ RetryOrFail(jobs[j]) \in Row
          /\ Rewrites(p, j, RetryOrFail(jobs[j]))
    BY <1>3, RecoverWrites
  <2>3. TableOK'
    BY <1>3, <2>1, RewriteKeeps DEF RecoverJob
  <2>4. LoopsOK'
    BY <1>3 DEF RecoverJob, LoopsOK
  <2>5. RestOK'
    BY <1>3, <2>1 DEF RecoverJob, RestOK
  <2> QED  BY <2>3, <2>4, <2>5
<1> QED  BY <1>1, <1>2, <1>3 DEF Block

LEMMA ApiType ==
  ASSUME TypeInv, Api
  PROVE  TypeInv'
<1> USE DEF TypeInv
<1>1. Server \in Procs
  BY DEF Procs
<1>2. ASSUME NEW j \in Jobs, NEW sound \in BOOLEAN, EnqueueJob(j, sound)
      PROVE  TypeInv'
  <2>1. [Absent EXCEPT !.status = "queued", !.sound = sound] \in Row
    BY DEF Absent, Row, Statuses
  <2>2. timer' \in BOOLEAN /\ requested' \in BOOLEAN
    BY <1>2, ScheduleType DEF EnqueueJob
  <2>3. TableOK'
    BY <1>2, <2>1 DEF EnqueueJob, TableOK
  <2>4. LoopsOK'
    BY <1>2 DEF EnqueueJob, LoopsOK
  <2>5. RestOK'
    BY <1>2, <2>2 DEF EnqueueJob, RestOK
  <2> QED  BY <2>3, <2>4, <2>5
<1>4. ASSUME NEW j \in Jobs, CancelJob(j)
      PROVE  TypeInv'
  <2>1. spent' \in [calls : Nat, lapses : Nat, crashes : Nat]
    BY <1>4, CallType DEF CancelJob
  <2>3. TableOK'
    BY <1>1, <1>4, CancelWrites, RewriteKeeps DEF CancelJob
  <2>4. LoopsOK'
    BY <1>4 DEF CancelJob, LoopsOK
  <2>5. RestOK'
    BY <1>4, <2>1 DEF CancelJob, RestOK
  <2> QED  BY <2>3, <2>4, <2>5
<1>5. ASSUME NEW j \in Jobs, RetryJob(j)
      PROVE  TypeInv'
  <2>1. spent' \in [calls : Nat, lapses : Nat, crashes : Nat]
    BY <1>5, CallType DEF RetryJob
  <2>2. timer' \in BOOLEAN /\ requested' \in BOOLEAN
    BY <1>5, RetryWrites, ScheduleType DEF RestOK
  <2>3. TableOK'
    BY <1>1, <1>5, RetryWrites, RewriteKeeps DEF RetryJob
  <2>4. LoopsOK'
    BY <1>5 DEF RetryJob, LoopsOK
  <2>6. manual' \in [Jobs -> Nat]
    BY <1>5 DEF RetryJob, RestOK
  <2>5. RestOK'
    BY <1>5, <2>1, <2>2, <2>6 DEF RetryJob, RestOK
  <2> QED  BY <2>3, <2>4, <2>5
<1>6. CASE RecoverStaleJobs
  <2>1. Lapsed \subseteq Jobs
    BY DEF Lapsed, In
  <2>2. spent' \in [calls : Nat, lapses : Nat, crashes : Nat]
    BY <1>6, CallType DEF RecoverStaleJobs
  <2>3. TableOK'
    BY <1>6 DEF RecoverStaleJobs, TableOK
  <2>4. LoopsOK'
    BY <1>6 DEF RecoverStaleJobs, LoopsOK
  <2>5. RestOK'
    BY <1>1, <1>6, <2>1, <2>2 DEF RecoverStaleJobs, RestOK
  <2> QED  BY <2>3, <2>4, <2>5
<1> QED  BY <1>2, <1>4, <1>5, <1>6 DEF Api

LEMMA LoopType ==
  ASSUME TypeInv, NEW p \in Procs, Loop(p)
  PROVE  TypeInv'
<1> USE DEF TypeInv
<1>1. CASE WorkerCycle(p)
  <2>1. Lapsed \subseteq Jobs
    BY DEF Lapsed, In
  <2>3. TableOK'
    BY <1>1 DEF WorkerCycle, TableOK
  <2>4. LoopsOK'
    BY <1>1, StandKeeps DEF WorkerCycle, Places, AtJob
  <2>5. RestOK'
    BY <1>1, <2>1 DEF WorkerCycle, RestOK
  <2> QED  BY <2>3, <2>4, <2>5
<1>2. CASE p = Server /\ TimerFires
  <2>3. TableOK'
    BY <1>2 DEF TimerFires, TableOK
  <2>4. LoopsOK'
    BY <1>2, StandKeeps DEF TimerFires, Places, AtJob
  <2>5. RestOK'
    BY <1>2 DEF TimerFires, RestOK
  <2> QED  BY <2>3, <2>4, <2>5
<1>3. CASE ListEligible(p)
  <2>1. {[id |-> j, retry |-> jobs[j].status = "scheduled_retry"] : j \in Eligible}
          \subseteq [id : Jobs, retry : BOOLEAN]
    <3>1. ASSUME NEW j \in Eligible
          PROVE  [id |-> j, retry |-> jobs[j].status = "scheduled_retry"]
                    \in [id : Jobs, retry : BOOLEAN]
      <4>1. j \in Jobs
        BY DEF Eligible, Pending, In
      <4>2. PICK retry \in BOOLEAN : retry = (jobs[j].status = "scheduled_retry")
        BY Zenon
      <4> QED  BY <4>1, <4>2, Zenon
    <3> QED  BY <3>1, Zenon
  <2>3. TableOK'
    BY <1>3 DEF ListEligible, TableOK
  <2>4. LoopsOK'
    BY <1>3, StandKeeps DEF ListEligible, Places, AtJob
  <2>5. RestOK'
    BY <1>3, <2>1 DEF ListEligible, RestOK
  <2> QED  BY <2>3, <2>4, <2>5
<1>4. CASE TakeNext(p)
  <2>1. PICK b \in batch[p] :
          /\ batch' = [batch EXCEPT ![p] = @ \ {b}]
          /\ job' = [job EXCEPT ![p] = b.id]
          /\ b.id \in Jobs
          /\ \/ UNCHANGED update
             \/ \E row \in Row : Rewrites(p, b.id, row)
    BY <1>4, TakeWrites
  <2>6. ASSUME NEW row \in Row, Rewrites(p, b.id, row)
        PROVE  TableOK'
    BY <1>4, <2>1, <2>6, RewriteKeeps DEF TakeNext
  <2>7. ASSUME UNCHANGED update
        PROVE  TableOK'
    BY <1>4, <2>7 DEF TakeNext, TableOK
  <2>3. TableOK'
    BY <2>1, <2>6, <2>7
  <2>4. LoopsOK'
    BY <1>4, <2>1, MoveKeeps DEF TakeNext, Places
  <2>5. RestOK'
    BY <1>4, <2>1 DEF TakeNext, RestOK
  <2> QED  BY <2>3, <2>4, <2>5
<1>5. CASE Check(p)
  <2>3. TableOK'
    <3>1. ASSUME NEW row \in Row, Rewrites(p, job[p], row)
          PROVE  TableOK'
      BY <1>5, <3>1, CheckWrites, RewriteKeeps DEF Check
    <3>2. ASSUME UNCHANGED update
          PROVE  TableOK'
      BY <1>5, <3>2 DEF Check, TableOK
    <3> QED  BY <1>5, <3>1, <3>2, CheckWrites
  <2>4. LoopsOK'
    <3>1. CASE at' = [at EXCEPT ![p] = "batch"] /\ job' = [job EXCEPT ![p] = 0]
      BY <3>1, MoveKeeps DEF Places, AtJob
    <3>2. CASE at' = [at EXCEPT ![p] = "mark"] /\ UNCHANGED job
      BY <1>5, <3>2, CheckWrites, StandKeeps DEF Places
    <3> QED  BY <1>5, <3>1, <3>2, CheckWrites
  <2>5. RestOK'
    BY <1>5 DEF Check, RestOK
  <2> QED  BY <2>3, <2>4, <2>5
<1>6. CASE Mark(p)
  <2>3. TableOK'
    BY <1>6, MarkWrites, RewriteKeeps DEF Mark
  <2>4. LoopsOK'
    BY <1>6, MarkWrites, StandKeeps DEF Mark, Places
  <2>5. RestOK'
    BY <1>6 DEF Mark, RestOK
  <2> QED  BY <2>3, <2>4, <2>5
<1>7. CASE Invoke(p)
  <2>1. job[p] \in Jobs
    BY <1>7, HeldRow DEF Invoke, AtJob
  <2>3. TableOK'
    BY <1>7 DEF Invoke, TableOK
  <2>4. LoopsOK'
    BY <1>7, <2>1, StandKeeps DEF Invoke, Places
  <2>6. starts' \in [Jobs -> Nat]
    BY <1>7, <2>1 DEF Invoke, RestOK
  <2>5. RestOK'
    BY <1>7, <2>6 DEF Invoke, RestOK
  <2> QED  BY <2>3, <2>4, <2>5
<1>8. CASE Complete(p)
  <2>1. job[p] \in Jobs
    BY <1>8, CompleteWrites
  <2>3. TableOK'
    BY <1>8, CompleteWrites, RewriteKeeps DEF Complete, EndRun
  <2>4. LoopsOK'
    BY <1>8, <2>1, StandKeeps DEF Complete, EndRun, Places
  <2>5. RestOK'
    BY <1>8, <2>1 DEF Complete, EndRun, RestOK
  <2> QED  BY <2>3, <2>4, <2>5
<1>9. ASSUME NEW timedOut \in BOOLEAN, Fail(p, timedOut)
      PROVE  TypeInv'
  <2>1. job[p] \in Jobs
    BY <1>9, FailWrites
  <2>3. TableOK'
    BY <1>9, FailWrites, RewriteKeeps DEF Fail, EndRun
  <2>4. LoopsOK'
    BY <1>9, <2>1, StandKeeps DEF Fail, EndRun, Places
  <2>5. RestOK'
    BY <1>9, <2>1 DEF Fail, EndRun, RestOK
  <2> QED  BY <2>3, <2>4, <2>5
<1>10. CASE Settled(p)
  <2>3. TableOK'
    BY <1>10 DEF Settled, TableOK
  <2>4. LoopsOK'
    BY <1>10, MoveKeeps DEF Settled, Places, AtJob
  <2>5. RestOK'
    BY <1>10 DEF Settled, RestOK
  <2> QED  BY <2>3, <2>4, <2>5
<1>11. CASE LoopEnds(p)
  <2>1. timer' \in BOOLEAN /\ requested' \in BOOLEAN
    BY <1>11 DEF LoopEnds, GoesOn, RestOK
  <2>3. TableOK'
    BY <1>11 DEF LoopEnds, TableOK
  <2>4. LoopsOK'
    BY <1>11, StandKeeps DEF LoopEnds, Places, AtJob
  <2>5. RestOK'
    BY <1>11, <2>1 DEF LoopEnds, RestOK
  <2> QED  BY <2>3, <2>4, <2>5
<1> QED  BY <1>1, <1>2, <1>3, <1>4, <1>5, <1>6, <1>7, <1>8, <1>9, <1>10, <1>11 DEF Loop

LEMMA OtherType ==
  ASSUME TypeInv,
         \/ \E p \in Procs, j \in Jobs, log \in BOOLEAN : Heartbeat(p, j, log)
         \/ \E p \in Procs, j \in Jobs : StrayEnds(p, j)
         \/ \E j \in Jobs : Clock(j)
         \/ \E p \in Procs : Crash(p)
  PROVE  TypeInv'
<1> USE DEF TypeInv
<1>1. ASSUME NEW p \in Procs, NEW j \in Jobs, NEW log \in BOOLEAN, Heartbeat(p, j, log)
      PROVE  TypeInv'
  <2>3. TableOK'
    BY <1>1, BeatWrites, RewriteKeeps DEF Heartbeat
  <2>4. LoopsOK'
    BY <1>1 DEF Heartbeat, LoopsOK
  <2>5. RestOK'
    BY <1>1 DEF Heartbeat, RestOK
  <2> QED  BY <2>3, <2>4, <2>5
<1>2. ASSUME NEW p \in Procs, NEW j \in Jobs, StrayEnds(p, j)
      PROVE  TypeInv'
  <2>3. TableOK'
    BY <1>2 DEF StrayEnds, TableOK
  <2>4. LoopsOK'
    BY <1>2 DEF StrayEnds, LoopsOK
  <2>5. RestOK'
    BY <1>2 DEF StrayEnds, RestOK
  <2> QED  BY <2>3, <2>4, <2>5
<1>3. ASSUME NEW j \in Jobs, RetryWindowOpens(j)
      PROVE  TypeInv'
  <2>1. update' \in [Procs -> Updates]
    <3>1. DOMAIN update' = Procs /\ update' = [p \in DOMAIN update' |-> update'[p]]
      BY <1>3 DEF RetryWindowOpens
    <3> QED  BY <1>3, <3>1, WindowWrites
  <2>2. jobs' \in [Jobs -> Row]
    BY <1>3 DEF RetryWindowOpens, TableOK, Row
  <2>3. TableOK'
    BY <1>3, <2>1, <2>2 DEF RetryWindowOpens, TableOK
  <2>4. LoopsOK'
    BY <1>3 DEF RetryWindowOpens, LoopsOK
  <2>5. RestOK'
    BY <1>3 DEF RetryWindowOpens, RestOK
  <2> QED  BY <2>3, <2>4, <2>5
<1>4. ASSUME NEW j \in Jobs, LeaseExpires(j)
      PROVE  TypeInv'
  <2>2. jobs' \in [Jobs -> Row]
    BY <1>4 DEF LeaseExpires, TableOK, Row
  <2>3. TableOK'
    BY <1>4, <2>2 DEF LeaseExpires, TableOK
  <2>4. LoopsOK'
    BY <1>4 DEF LeaseExpires, LoopsOK
  <2>5. RestOK'
    BY <1>4 DEF LeaseExpires, RestOK
  <2> QED  BY <2>3, <2>4, <2>5
<1>5. ASSUME NEW p \in Procs, Crash(p)
      PROVE  TypeInv'
  <2>1. NoUpdate \in Updates
    BY DEF Updates
  <2>3. TableOK'
    BY <1>5, <2>1 DEF Crash, TableOK
  <2>4. LoopsOK'
    BY <1>5, MoveKeeps DEF Crash, Places, AtJob
  <2>6. timer' \in BOOLEAN /\ requested' \in BOOLEAN
    BY <1>5 DEF Crash, RestOK
  <2>5. RestOK'
    BY <1>5, <2>6 DEF Crash, RestOK
  <2> QED  BY <2>3, <2>4, <2>5
<1> QED  BY <1>1, <1>2, <1>3, <1>4, <1>5 DEF Clock

LEMMA TypeNext == TypeInv /\ [Next]_vars => TypeInv'
<1> SUFFICES ASSUME TypeInv, [Next]_vars PROVE TypeInv'
  OBVIOUS
<1>1. CASE Next
  BY <1>1, ApiType, BlockType, LoopType, OtherType DEF Next
<1>2. CASE UNCHANGED vars
  BY <1>2 DEF vars, TypeInv, TableOK, LoopsOK, RestOK
<1> QED  BY <1>1, <1>2

(* The rows, the rewrites in progress, the loops, their batches and the     *)
(* counters keep their shape (jobQueue.js, jobQueueStore.js).               *)
THEOREM JobQueueIsTyped == JobQueueSpec => []JobQueueTypeOK
<1>1. JobQueueSpec => []TypeInv
  BY TypeInit, TypeNext, PTL DEF JobQueueSpec
<1> QED  BY <1>1, TypeIsShape, PTL
-----------------------------------------------------------------------------
(* No row reads completed, nor is about to, before a processor of the job   *)
(* has returned: the inductive form of CompletedMeansRan.                   *)
CompletedInv ==
    /\ \A j \in Jobs : jobs[j].status = "completed" => j \in succeeded
    /\ \A p \in Procs : update[p].phase = "write" /\ update[p].row.status = "completed"
                            => update[p].id \in succeeded

LEMMA RewriteCompleted ==
  ASSUME TypeInv, CompletedInv, UNCHANGED jobs, succeeded \subseteq succeeded',
         NEW p \in Procs, NEW j \in Jobs, NEW row \in Row, Rewrites(p, j, row),
         row.status = "completed" => jobs[j].status = "completed" \/ j \in succeeded'
  PROVE  CompletedInv'
<1>1. PICK u \in Updates : /\ u.phase = "write" /\ u.id = j /\ u.row = row
                           /\ update' = [update EXCEPT ![p] = u]
  BY DEF Rewrites
<1>2. ASSUME NEW q \in Procs, update'[q].phase = "write", update'[q].row.status = "completed"
      PROVE  update'[q].id \in succeeded'
  <2>1. CASE q = p
    BY <1>1, <1>2, <2>1 DEF CompletedInv, TypeInv, TableOK
  <2>2. CASE q # p
    BY <1>1, <1>2, <2>2 DEF CompletedInv, TypeInv, TableOK
  <2> QED  BY <2>1, <2>2
<1>3. \A i \in Jobs : jobs'[i].status = "completed" => i \in succeeded'
  BY DEF CompletedInv
<1> QED  BY <1>2, <1>3 DEF CompletedInv

LEMMA CompletedNext == TypeInv /\ CompletedInv /\ [Next]_vars => CompletedInv'
<1> SUFFICES ASSUME TypeInv, CompletedInv, [Next]_vars PROVE CompletedInv'
  OBVIOUS
<1>1. Server \in Procs
  BY DEF Procs
<1>2. ASSUME UNCHANGED <<jobs, update, succeeded>>
      PROVE  CompletedInv'
  BY <1>2 DEF CompletedInv
<1>3. ASSUME Api
      PROVE  CompletedInv'
  <2>1. ASSUME NEW j \in Jobs, NEW sound \in BOOLEAN, EnqueueJob(j, sound)
        PROVE  CompletedInv'
    <3>1. \A i \in Jobs : jobs'[i].status = "completed" => jobs[i].status = "completed"
      BY <2>1 DEF EnqueueJob, Absent, TypeInv, TableOK
    <3> QED  BY <2>1, <3>1 DEF EnqueueJob, CompletedInv
  <2>2. ASSUME NEW j \in Jobs, CancelJob(j)
        PROVE  CompletedInv'
    <3>1. PICK row \in Row : /\ Rewrites(Server, j, row)
                             /\ row.status = "completed" => jobs[j].status = "completed"
      BY <2>2, CancelWrites DEF TypeInv
    <3> QED  BY <1>1, <2>2, <3>1, RewriteCompleted DEF CancelJob
  <2>3. ASSUME NEW j \in Jobs, RetryJob(j)
        PROVE  CompletedInv'
    <3>1. PICK row \in Row : /\ Rewrites(Server, j, row)
                             /\ row.status = "completed" => jobs[j].status = "completed"
      BY <2>3, RetryWrites DEF TypeInv
    <3> QED  BY <1>1, <2>3, <3>1, RewriteCompleted DEF RetryJob
  <2>4. CASE RecoverStaleJobs
    BY <1>2, <2>4 DEF RecoverStaleJobs
  <2> QED  BY <1>3, <2>1, <2>2, <2>3, <2>4 DEF Api
<1>4. ASSUME NEW p \in Procs, Block(p)
      PROVE  CompletedInv'
  <2>1. CASE Store(p)
    <3>1. /\ update[p].phase = "write" /\ update[p].id \in Jobs
          /\ UNCHANGED succeeded
      BY <2>1, UpdateShape DEF Store, TypeInv
    <3>2. \A j \in Jobs : jobs'[j].status = "completed" => j \in succeeded'
      BY <2>1, <3>1 DEF Store, CompletedInv, TypeInv, TableOK
    <3>3. \A q \in Procs \ {p} : update'[q] = update[q]
      BY <2>1 DEF Store
    <3>4. update'[p].phase # "write"
      BY <2>1 DEF Store, NoUpdate, TypeInv, TableOK
    <3> QED  BY <3>1, <3>2, <3>3, <3>4 DEF CompletedInv
  <2>2. CASE Append(p)
    BY <2>2, AppendWrites, RewriteCompleted DEF Append
  <2>3. CASE RecoverJob(p)
    BY <2>3, RecoverWrites, RetryOrFailType, RewriteCompleted DEF RecoverJob
  <2> QED  BY <1>4, <2>1, <2>2, <2>3 DEF Block
<1>5. ASSUME NEW p \in Procs, Loop(p)
      PROVE  CompletedInv'
  <2>1. CASE WorkerCycle(p) \/ TimerFires \/ ListEligible(p) \/ Invoke(p) \/ Settled(p) \/ LoopEnds(p)
    BY <1>2, <2>1 DEF WorkerCycle, TimerFires, ListEligible, Invoke, Settled, LoopEnds
  <2>2. CASE TakeNext(p)
    <3>1. ASSUME UNCHANGED update
          PROVE  CompletedInv'
      BY <1>2, <2>2, <3>1 DEF TakeNext
    <3>2. ASSUME NEW j \in Jobs, NEW row \in Row, Rewrites(p, j, row), row.status = "queued"
          PROVE  CompletedInv'
      BY <2>2, <3>2, RewriteCompleted DEF TakeNext
    <3> QED  BY <2>2, <3>1, <3>2, TakeWrites
  <2>3. CASE Check(p)
    <3>1. ASSUME UNCHANGED update
          PROVE  CompletedInv'
      BY <1>2, <2>3, <3>1 DEF Check
    <3>2. ASSUME NEW row \in Row, Rewrites(p, job[p], row), row.status = "failed"
          PROVE  CompletedInv'
      BY <2>3, <3>2, CheckWrites, RewriteCompleted DEF Check
    <3> QED  BY <2>3, <3>1, <3>2, CheckWrites
  <2>4. CASE Mark(p)
    BY <2>4, MarkWrites, MarkedType, RewriteCompleted DEF Mark
  <2>5. CASE Complete(p)
    BY <2>5, CompleteWrites, RewriteCompleted DEF Complete, EndRun
  <2>6. ASSUME NEW timedOut \in BOOLEAN, Fail(p, timedOut)
        PROVE  CompletedInv'
    BY <2>6, FailWrites, RetryOrFailType, RewriteCompleted DEF Fail, EndRun
  <2> QED  BY <1>5, <2>1, <2>2, <2>3, <2>4, <2>5, <2>6 DEF Loop
<1>6. ASSUME NEW p \in Procs, NEW j \in Jobs, NEW log \in BOOLEAN, Heartbeat(p, j, log)
      PROVE  CompletedInv'
  BY <1>6, BeatWrites, RenewedType, RewriteCompleted DEF Heartbeat
<1>7. ASSUME NEW p \in Procs, NEW j \in Jobs, StrayEnds(p, j)
      PROVE  CompletedInv'
  BY <1>2, <1>7 DEF StrayEnds
<1>8. ASSUME NEW j \in Jobs, RetryWindowOpens(j)
      PROVE  CompletedInv'
  <2>1. \A i \in Jobs : jobs'[i].status = jobs[i].status
    BY <1>8 DEF RetryWindowOpens, TypeInv, TableOK, Row
  <2>2. \A p \in Procs : update'[p].phase = "write" =>
            update[p].phase = "write" /\ update'[p].id = update[p].id
            /\ update'[p].row.status = update[p].row.status
    BY <1>8, WindowWrites DEF TypeInv
  <2> QED  BY <1>8, <2>1, <2>2 DEF RetryWindowOpens, CompletedInv
<1>9. ASSUME NEW j \in Jobs, LeaseExpires(j)
      PROVE  CompletedInv'
  <2>1. \A i \in Jobs : jobs'[i].status = jobs[i].status
    BY <1>9 DEF LeaseExpires, TypeInv, TableOK, Row
  <2> QED  BY <1>9, <2>1 DEF LeaseExpires, CompletedInv
<1>10. ASSUME NEW p \in Procs, Crash(p)
       PROVE  CompletedInv'
  <2>1. \A q \in Procs : update'[q].phase = "write" => update'[q] = update[q]
    BY <1>10 DEF Crash, NoUpdate, TypeInv, TableOK
  <2> QED  BY <1>10, <2>1 DEF Crash, CompletedInv
<1>11. CASE UNCHANGED vars
  BY <1>2, <1>11 DEF vars
<1> QED  BY <1>3, <1>4, <1>5, <1>6, <1>7, <1>8, <1>9, <1>10, <1>11 DEF Next, Clock

(* However the row rewrites of the server and of any number of workers      *)
(* overlap, a job shown as completed has had a processor return (updateJob, *)
(* appendJobEvent).                                                         *)
THEOREM CompletedRan == JobQueueSpec => []CompletedMeansRan
<1>1. Init => CompletedInv
  BY DEF Init, CompletedInv, NoUpdate, Absent
<1>2. JobQueueSpec => [](TypeInv /\ CompletedInv)
  BY <1>1, TypeInit, TypeNext, CompletedNext, PTL DEF JobQueueSpec
<1>3. CompletedInv => CompletedMeansRan
  BY DEF CompletedInv, CompletedMeansRan, In
<1> QED  BY <1>2, <1>3, PTL

-----------------------------------------------------------------------------
(* The safety properties where the server runs the jobs itself, for any    *)
(* number of jobs, attempts, calls, lapses and crashes.                    *)

(* In process the server alone acts.  Coming is the table as it will read   *)
(* when the rewrite the server is in the middle of is stored.               *)
Coming ==
    [j \in Jobs |-> IF update[Server].phase = "write" /\ update[Server].id = j
                    THEN update[Server].row ELSE jobs[j]]
Waiting == {"queued", "scheduled_retry"}

OthersIdle ==
    \A p \in Procs \ {Server} :
        at[p] = "idle" /\ update[p] = NoUpdate /\ batch[p] = {} /\ stale[p] = {} /\ strays[p] = {}

(* The jobs enqueued are the first ones, and nothing is in hand but them.   *)
FirstEnqueued == \E n \in Nat : \A j \in Jobs : jobs[j].status # "absent" <=> j <= n
TableKnown ==
    /\ FirstEnqueued
    /\ \A j \in Jobs :
          /\ Coming[j].status = "absent" <=> jobs[j].status = "absent"
          /\ jobs[j].status = "absent" => jobs[j].attempts = 0 /\ Coming[j].attempts = 0

HandsKnown ==
    \A j \in Jobs : jobs[j].status = "absent" =>
        /\ j \notin stale[Server] /\ j \notin strays[Server]
        /\ at[Server] \in AtJob => j # job[Server]
        /\ \A b \in batch[Server] : b.id # j

(* What has become of a job between its listing and its turn.               *)
BatchInv ==
    \A b \in batch[Server] :
        /\ \/ Coming[b.id].status \in {"queued", "canceled"}
           \/ Coming[b.id].status = "scheduled_retry" /\ b.retry
        /\ b.id \notin stale[Server]
        /\ at[Server] \in AtJob => b.id # job[Server]
        /\ \A other \in batch[Server] : other.id = b.id => other = b

(* Recovery does not overlap the steps runJob takes without an await, and   *)
(* a job about to be marked running is a queued one.                        *)
PlaceInv ==
    /\ stale[Server] # {} => at[Server] \in {"idle", "batch", "run"}
    /\ at[Server] = "check" => Coming[job[Server]].status \in {"queued", "canceled"}
    /\ at[Server] = "mark" => Coming[job[Server]].status = "queued"

(* The attempts counted in a row bound the calls of the processor, and are  *)
(* within the budget, with one to spare while the job may run again.        *)
RowsInv ==
    \A j \in Jobs : \A row \in {jobs[j], Coming[j]} :
        /\ starts[j] <= row.attempts
        /\ row.attempts <= MaxAttempts + manual[j]
        /\ row.status \in Waiting \cup {"canceled"} => row.attempts < MaxAttempts + manual[j]
StartInv ==
    at[Server] = "start" => starts[job[Server]] < Coming[job[Server]].attempts

(* Until a crash, a running row is held, and a waiting job is come for.     *)
HeldInv ==
    spent.crashes = 0 =>
        \A j \in Jobs : Coming[j].status = "running" => at[Server] \in {"start", "run"} /\ job[Server] = j
WakeInv ==
    spent.crashes = 0 /\ at[Server] = "idle" =>
        /\ stale[Server] = {}
        /\ ~timer => \A j \in Jobs : jobs[j].status \notin Waiting /\ Coming[j].status \notin Waiting

ServerInv ==
    /\ OthersIdle /\ TableKnown /\ HandsKnown /\ BatchInv /\ PlaceInv
    /\ RowsInv /\ StartInv /\ HeldInv /\ WakeInv

-----------------------------------------------------------------------------
(* The table as it is and as it will read. *)

LEMMA ComingType == TypeInv => Coming \in [Jobs -> Row]
BY UpdateShape DEF TypeInv, TableOK, Coming, Procs

LEMMA ComingIsTable ==
  ASSUME TypeInv, update[Server].phase # "write"
  PROVE  Coming = jobs
BY DEF TypeInv, TableOK, Coming

LEMMA FreeIsTable ==
  ASSUME TypeInv, Free(Server)
  PROVE  Coming = jobs /\ update[Server].phase # "write"
BY ComingIsTable DEF Free, NoUpdate

LEMMA ComingRewrite ==
  ASSUME TypeInv, NEW j \in Jobs, NEW row \in Row, Rewrites(Server, j, row), UNCHANGED jobs,
         update[Server].phase # "write"
  PROVE  Coming = jobs /\ Coming' = [jobs EXCEPT ![j] = row]
<1>1. PICK u \in Updates : /\ u.phase = "write" /\ u.id = j /\ u.row = row
                           /\ update' = [update EXCEPT ![Server] = u]
  BY DEF Rewrites
<1>2. update'[Server] = u
  BY <1>1 DEF TypeInv, TableOK, Procs
<1> QED  BY <1>1, <1>2, ComingIsTable DEF TypeInv, TableOK, Coming

(* A row that is put in place of a known one, within the budget.            *)
LEMMA RewriteServer ==
  ASSUME TypeInv, TypeInv', TableKnown, RowsInv,
         NEW j \in Jobs, NEW row \in Row, Rewrites(Server, j, row),
         UNCHANGED <<jobs, starts>>, update[Server].phase # "write",
         \A i \in Jobs : manual[i] <= manual'[i],
         jobs[j].status # "absent", row.status # "absent",
         jobs[j].attempts <= row.attempts, row.attempts <= MaxAttempts + manual'[j],
         row.status \in Waiting \cup {"canceled"} => row.attempts < MaxAttempts + manual'[j]
  PROVE  TableKnown' /\ RowsInv'
<1>1. Coming = jobs /\ Coming' = [jobs EXCEPT ![j] = row] /\ jobs \in [Jobs -> Row]
  BY ComingRewrite DEF TypeInv, TableOK
<1>2. TableKnown'
  BY <1>1 DEF TableKnown, FirstEnqueued
<1>3. /\ \A i \in Jobs : manual[i] \in Nat /\ manual'[i] \in Nat /\ starts[i] \in Nat
      /\ MaxAttempts \in Nat /\ row.attempts \in Nat
      /\ \A i \in Jobs : jobs[i].attempts \in Nat
  BY <1>1, JobQueueAssumption DEF TypeInv, RestOK, Row
<1>4. ASSUME NEW i \in Jobs, NEW r \in {jobs[i], Coming'[i]}
      PROVE  /\ starts[i] <= r.attempts
             /\ r.attempts <= MaxAttempts + manual'[i]
             /\ r.status \in Waiting \cup {"canceled"} => r.attempts < MaxAttempts + manual'[i]
  <2>1. CASE r = jobs[i]
    BY <1>3, <2>1 DEF RowsInv
  <2>2. CASE i = j /\ r = row
    BY <1>3, <2>2 DEF RowsInv
  <2> QED  BY <1>1, <1>4, <2>1, <2>2
<1> QED  BY <1>2, <1>4 DEF RowsInv

(* The rows keep their status and attempts, and nothing else moves.         *)
LEMMA SameRows ==
  ASSUME TypeInv, ServerInv, 
         \A j \in Jobs : /\ jobs'[j].status = jobs[j].status /\ jobs'[j].attempts = jobs[j].attempts
                         /\ Coming'[j].status = Coming[j].status
                         /\ Coming'[j].attempts = Coming[j].attempts,
         UNCHANGED <<stale, at, job, batch, timer, starts, manual>>,
         \A p \in Procs : strays'[p] \subseteq strays[p],
         \A p \in Procs \ {Server} : update'[p] = update[p],
         spent'.crashes = spent.crashes
  PROVE  ServerInv'
<1>1. Server \in Procs
  BY DEF Procs
<1>2. \A b \in batch[Server] : b.id \in Jobs
  BY <1>1 DEF TypeInv, RestOK
<1>3. at[Server] \in AtJob => job[Server] \in Jobs
  BY <1>1 DEF TypeInv, LoopsOK
<1>4. OthersIdle'
  BY DEF ServerInv, OthersIdle
<1>5. TableKnown' /\ HandsKnown'
  BY <1>1 DEF ServerInv, TableKnown, FirstEnqueued, HandsKnown
<1>6. BatchInv' /\ PlaceInv'
  BY <1>2, <1>3 DEF ServerInv, BatchInv, PlaceInv, AtJob
<1>7. RowsInv'
  BY DEF ServerInv, RowsInv
<1>8. StartInv' /\ HeldInv' /\ WakeInv'
  BY <1>3 DEF ServerInv, StartInv, HeldInv, WakeInv, AtJob
<1> QED  BY <1>4, <1>5, <1>6, <1>7, <1>8 DEF ServerInv

-----------------------------------------------------------------------------
(* The steps of the API. *)

(* A new job takes the next number.                                         *)
LEMMA NextEnqueued ==
  ASSUME FirstEnqueued, NEW j \in Jobs, j = Cardinality(Enqueued) + 1
  PROVE  \A i \in Jobs : jobs[i].status # "absent" <=> i < j
<1>1. PICK n \in Nat : \A i \in Jobs : jobs[i].status # "absent" <=> i <= n
  BY DEF FirstEnqueued
<1>2. PICK m \in 0..NumJobs : m = IF n <= NumJobs THEN n ELSE NumJobs
  BY JobQueueAssumption
<1>3. Enqueued = 1..m
  BY <1>1, <1>2, JobQueueAssumption DEF Enqueued, Jobs
<1>4. Cardinality(1..m) = m
  <2>1. m \in Int /\ 1 \in Int /\ m \in Nat
    BY <1>2, JobQueueAssumption
  <2>2. Cardinality(1..m) = IF 1 > m THEN 0 ELSE m - 1 + 1
    BY <2>1, FS_Interval
  <2> QED  BY <2>1, <2>2
<1>5. j = m + 1 /\ j \in 1..NumJobs
  BY <1>3, <1>4 DEF Jobs
<1>6. n = m
  BY <1>2, <1>5, JobQueueAssumption
<1> QED  BY <1>1, <1>5, <1>6 DEF Jobs

LEMMA EnqueueServer ==
  ASSUME TypeInv, TypeInv', ServerInv, InProcess,
         NEW j \in Jobs, NEW sound \in BOOLEAN, EnqueueJob(j, sound)
  PROVE  ServerInv'
<1> USE DEF ServerInv
<1>1. Server \in Procs
  BY DEF Procs
<1>2. Coming = jobs /\ at[Server] \in {"idle", "batch", "run"}
      /\ UNCHANGED <<update, stale, at, job, batch, strays, starts, manual, spent>>
  BY FreeIsTable DEF EnqueueJob, Awaiting
<1>3. \E row \in Row : /\ jobs' = [jobs EXCEPT ![j] = row]
                       /\ row.status = "queued" /\ row.attempts = 0
  <2>1. [Absent EXCEPT !.status = "queued", !.sound = sound] \in Row
    BY DEF Absent, Row, Statuses
  <2> QED  BY <2>1 DEF EnqueueJob, Absent
<1>4. PICK row \in Row : /\ jobs' = [jobs EXCEPT ![j] = row]
                         /\ row.status = "queued" /\ row.attempts = 0
  BY <1>3
<1>5. Coming' = jobs'
  BY FreeIsTable DEF EnqueueJob, Awaiting, Free, Coming, NoUpdate, TypeInv, TableOK
<1>6. /\ jobs[j].status = "absent"
      /\ \A i \in Jobs : jobs[i].status # "absent" <=> i < j
  <2>1. \A i \in Jobs : jobs[i].status # "absent" <=> i < j
    BY NextEnqueued DEF EnqueueJob, TableKnown
  <2>2. ~(j < j)
    BY DEF Jobs
  <2> QED  BY <2>1, <2>2
<1>7. jobs \in [Jobs -> Row] /\ Jobs \subseteq Nat
  BY DEF TypeInv, TableOK, Jobs
<1>8. OthersIdle'
  BY <1>2 DEF OthersIdle
<1>9. TableKnown'
  <2>1. \A i \in Jobs : jobs'[i].status # "absent" <=> i <= j
    BY <1>4, <1>6, <1>7
  <2> QED  BY <1>2, <1>4, <1>5, <1>7, <2>1 DEF TableKnown, FirstEnqueued
<1>10. HandsKnown'
  BY <1>2, <1>4, <1>7 DEF HandsKnown
<1>11. BatchInv'
  <2>1. \A b \in batch[Server] : b.id # j /\ b.id \in Jobs
    BY <1>1, <1>6 DEF HandsKnown, TypeInv, RestOK
  <2> QED  BY <1>2, <1>4, <1>5, <1>7, <2>1 DEF BatchInv
<1>12. PlaceInv'
  BY <1>2 DEF PlaceInv
<1>13. RowsInv'
  <2>1. starts[j] = 0 /\ manual[j] \in Nat
    BY <1>6 DEF RowsInv, TableKnown, FirstEnqueued, TypeInv, RestOK
  <2> QED  BY <1>2, <1>4, <1>5, <1>7, <2>1, JobQueueAssumption DEF RowsInv
<1>14. StartInv' /\ HeldInv'
  BY <1>2, <1>4, <1>5, <1>7 DEF StartInv, HeldInv
<1>15. WakeInv'
  BY <1>2 DEF WakeInv, EnqueueJob, ScheduleWorker
<1> QED  BY <1>8, <1>9, <1>10, <1>11, <1>12, <1>13, <1>14, <1>15

LEMMA CancelServer ==
  ASSUME TypeInv, TypeInv', ServerInv, InProcess, NEW j \in Jobs, CancelJob(j)
  PROVE  ServerInv'
<1> USE DEF ServerInv
<1>1. Server \in Procs
  BY DEF Procs
<1>2. at[Server] \in {"idle", "batch", "run"} /\ jobs[j].status # "absent"
      /\ update[Server].phase # "write"
      /\ UNCHANGED <<jobs, stale, at, job, batch, strays, timer, starts, manual>>
      /\ spent'.crashes = spent.crashes
  BY FreeIsTable DEF CancelJob, Call, Awaiting, Enqueued, TypeInv, RestOK
<1>3. PICK row \in Row :
        /\ Rewrites(Server, j, row) /\ row.attempts = jobs[j].attempts
        /\ IF j \in Pending THEN row.status = "canceled" ELSE row = jobs[j]
  BY CancelWrites DEF TypeInv
<1>4. j \in Pending <=> jobs[j].status \in Waiting
  BY DEF Pending, In, Waiting
<1>5. Coming = jobs /\ Coming' = [jobs EXCEPT ![j] = row] /\ jobs \in [Jobs -> Row]
  BY <1>2, <1>3, ComingRewrite DEF TypeInv, TableOK
<1>6. TableKnown' /\ RowsInv'
  <2>1. row.attempts <= MaxAttempts + manual[j]
        /\ (row.status \in Waiting \cup {"canceled"} => row.attempts < MaxAttempts + manual[j])
    BY <1>3, <1>4 DEF RowsInv
  <2>2. row.status # "absent"
    BY <1>2, <1>3
  <2>3. /\ \A i \in Jobs : manual[i] <= manual'[i]
        /\ jobs[j].attempts <= row.attempts
    BY <1>2, <1>3 DEF TypeInv, RestOK, Row
  <2> QED  BY <1>2, <1>3, <2>1, <2>2, <2>3, RewriteServer
<1>7. OthersIdle'
  BY <1>2, <1>3 DEF OthersIdle, Rewrites, TypeInv, TableOK
<1>8. HandsKnown'
  BY <1>2 DEF HandsKnown
<1>9. BatchInv'
  BY <1>1, <1>2, <1>3, <1>4, <1>5 DEF BatchInv, Waiting, TypeInv, RestOK
<1>10. PlaceInv'
  BY <1>2 DEF PlaceInv
<1>11. StartInv' /\ HeldInv'
  BY <1>2, <1>3, <1>4, <1>5 DEF StartInv, HeldInv, Waiting
<1>12. WakeInv'
  BY <1>2, <1>3, <1>4, <1>5 DEF WakeInv, Waiting
<1> QED  BY <1>6, <1>7, <1>8, <1>9, <1>10, <1>11, <1>12

LEMMA RetryServer ==
  ASSUME TypeInv, TypeInv', ServerInv, InProcess, NEW j \in Jobs, RetryJob(j)
  PROVE  ServerInv'
<1> USE DEF ServerInv
<1>1. Server \in Procs
  BY DEF Procs
<1>2. at[Server] \in {"idle", "batch", "run"} /\ jobs[j].status # "absent"
      /\ update[Server].phase # "write"
      /\ UNCHANGED <<jobs, stale, at, job, batch, strays, starts>>
      /\ spent'.crashes = spent.crashes
  BY FreeIsTable DEF RetryJob, Call, Awaiting, Enqueued, TypeInv, RestOK
<1>3. PICK row \in Row :
        /\ Rewrites(Server, j, row) /\ row.attempts = jobs[j].attempts
        /\ IF jobs[j].status \in {"failed", "scheduled_retry"}
           THEN row.status = "queued" ELSE row = jobs[j]
        /\ IF row.status = "queued" THEN ScheduleWorker ELSE UNCHANGED <<timer, requested>>
  BY RetryWrites DEF TypeInv
<1>4. /\ manual \in [Jobs -> Nat]
      /\ manual' = [manual EXCEPT ![j] = IF jobs[j].status = "failed" THEN @ + 1 ELSE @]
  BY DEF RetryJob, TypeInv, RestOK
<1>5. Coming = jobs /\ Coming' = [jobs EXCEPT ![j] = row] /\ jobs \in [Jobs -> Row]
  BY <1>2, <1>3, ComingRewrite DEF TypeInv, TableOK
<1>6. TableKnown' /\ RowsInv'
  <2>1. /\ row.attempts <= MaxAttempts + manual'[j]
        /\ row.status \in Waiting \cup {"canceled"} => row.attempts < MaxAttempts + manual'[j]
    BY <1>3, <1>4, JobQueueAssumption DEF RowsInv, Waiting, Row
  <2>2. row.status # "absent"
    BY <1>2, <1>3
  <2>3. /\ \A i \in Jobs : manual[i] <= manual'[i]
        /\ jobs[j].attempts <= row.attempts
    BY <1>3, <1>4 DEF Row
  <2> QED  BY <1>2, <1>3, <2>1, <2>2, <2>3, RewriteServer
<1>7. OthersIdle'
  BY <1>2, <1>3 DEF OthersIdle, Rewrites, TypeInv, TableOK
<1>8. HandsKnown'
  BY <1>2 DEF HandsKnown
<1>9. BatchInv'
  BY <1>1, <1>2, <1>3, <1>5 DEF BatchInv, TypeInv, RestOK
<1>10. PlaceInv'
  BY <1>2 DEF PlaceInv
<1>11. StartInv' /\ HeldInv'
  BY <1>2, <1>3, <1>5 DEF StartInv, HeldInv
<1>12. WakeInv'
  <2>1. CASE row.status = "queued"
    BY <1>2, <1>3, <2>1 DEF WakeInv, ScheduleWorker
  <2>2. CASE row.status # "queued"
    BY <1>2, <1>3, <1>5, <2>2 DEF WakeInv
  <2> QED  BY <2>1, <2>2
<1> QED  BY <1>6, <1>7, <1>8, <1>9, <1>10, <1>11, <1>12

(* What recovery lists is running, so it is not in the batch; and if it is  *)
(* held the loop is not idle.                                               *)
LEMMA ListStaleServer ==
  ASSUME TypeInv, TypeInv', ServerInv, InProcess, RecoverStaleJobs
  PROVE  ServerInv'
<1> USE DEF ServerInv
<1>1. Server \in Procs
  BY DEF Procs
<1>2. /\ at[Server] \in {"idle", "batch", "run"} /\ Coming = jobs
      /\ UNCHANGED <<jobs, update, at, job, batch, strays, timer, starts, manual>>
      /\ spent'.crashes = spent.crashes
      /\ stale' = [stale EXCEPT ![Server] = Lapsed]
  BY FreeIsTable DEF RecoverStaleJobs, Call, Awaiting, TypeInv, RestOK
<1>3. \A j \in Lapsed : j \in Jobs /\ jobs[j].status = "running"
  BY DEF Lapsed, In
<1>4. Coming' = Coming
  BY <1>2 DEF Coming
<1>5. stale'[Server] = Lapsed /\ \A p \in Procs \ {Server} : stale'[p] = stale[p]
  BY <1>1, <1>2 DEF TypeInv, RestOK
<1>6. OthersIdle'
  BY <1>2, <1>5 DEF OthersIdle
<1>7. TableKnown' /\ HandsKnown'
  BY <1>2, <1>3, <1>4, <1>5 DEF TableKnown, FirstEnqueued, HandsKnown
<1>8. BatchInv'
  BY <1>1, <1>2, <1>3, <1>4, <1>5 DEF BatchInv
<1>9. PlaceInv' /\ RowsInv' /\ StartInv' /\ HeldInv'
  BY <1>2, <1>4 DEF PlaceInv, RowsInv, StartInv, HeldInv
<1>10. WakeInv'
  <2>1. spent.crashes = 0 /\ at[Server] = "idle" => Lapsed = {}
    BY <1>2, <1>3 DEF HeldInv
  <2> QED  BY <1>2, <1>4, <1>5, <2>1 DEF WakeInv
<1> QED  BY <1>6, <1>7, <1>8, <1>9, <1>10

-----------------------------------------------------------------------------
(* The rest of a synchronous block. *)

LEMMA StoreServer ==
  ASSUME TypeInv, TypeInv', ServerInv, InProcess, Store(Server)
  PROVE  ServerInv'
<1> USE DEF ServerInv
<1>1. Server \in Procs
  BY DEF Procs
<1>2. /\ update[Server].phase = "write" /\ update[Server].id \in Jobs
      /\ jobs' = [jobs EXCEPT ![update[Server].id] = update[Server].row]
      /\ jobs \in [Jobs -> Row]
      /\ UNCHANGED <<stale, at, job, batch, strays, timer, starts, manual, spent>>
  BY <1>1, UpdateShape DEF Store, TypeInv, TableOK
<1>3. update'[Server].phase # "write" /\ \A p \in Procs \ {Server} : update'[p] = update[p]
  BY <1>1 DEF Store, NoUpdate, TypeInv, TableOK
<1>4. /\ \A j \in Jobs : jobs'[j] = Coming[j]
      /\ Coming' = jobs'
  BY <1>2, <1>3, ComingIsTable DEF Coming
<1>5. OthersIdle'
  BY <1>2, <1>3 DEF OthersIdle
<1>6. TableKnown'
  <2>1. \A j \in Jobs : jobs'[j].status = "absent" <=> jobs[j].status = "absent"
    BY <1>4 DEF TableKnown, FirstEnqueued
  <2>2. ASSUME NEW j \in Jobs, jobs'[j].status = "absent"
        PROVE  jobs'[j].attempts = 0
    <3>1. jobs'[j] = Coming[j] /\ jobs[j].status = "absent"
      BY <1>4, <2>1, <2>2
    <3> QED  BY <3>1 DEF TableKnown, FirstEnqueued
  <2> QED  BY <1>4, <2>1, <2>2 DEF TableKnown, FirstEnqueued
<1>7. HandsKnown'
  BY <1>2, <1>4 DEF HandsKnown, TableKnown, FirstEnqueued
<1>8. BatchInv'
  BY <1>1, <1>2, <1>4 DEF BatchInv, TypeInv, RestOK
<1>9. PlaceInv'
  BY <1>1, <1>2, <1>4 DEF PlaceInv, TypeInv, LoopsOK, AtJob
<1>10. RowsInv'
  BY <1>2, <1>4 DEF RowsInv
<1>11. StartInv' /\ HeldInv'
  BY <1>1, <1>2, <1>4 DEF StartInv, HeldInv, TypeInv, LoopsOK, AtJob
<1>12. WakeInv'
  BY <1>2, <1>4 DEF WakeInv
<1> QED  BY <1>5, <1>6, <1>7, <1>8, <1>9, <1>10, <1>11, <1>12

LEMMA AppendServer ==
  ASSUME TypeInv, TypeInv', ServerInv, InProcess, Append(Server)
  PROVE  ServerInv'
<1>1. Server \in Procs
  BY DEF Procs
<1>2. update[Server].phase # "write" /\ UNCHANGED jobs
  BY DEF Append
<1>3. Coming = jobs /\ Coming' = jobs
  BY <1>1, <1>2, AppendWrites, ComingRewrite DEF TypeInv, TableOK
<1>4. \A p \in Procs \ {Server} : update'[p] = update[p]
  BY DEF Append, Rewrite, TypeInv, TableOK
<1> QED  BY <1>2, <1>3, <1>4, SameRows DEF Append

LEMMA RecoverServer ==
  ASSUME TypeInv, TypeInv', ServerInv, InProcess, RecoverJob(Server)
  PROVE  ServerInv'
<1> USE DEF ServerInv
<1>1. Server \in Procs
  BY DEF Procs
<1>2. /\ update[Server].phase # "write"
      /\ UNCHANGED <<jobs, at, job, batch, strays, timer, starts, manual, spent>>
  BY DEF RecoverJob, NoUpdate
<1>3. PICK j \in stale[Server] :
        /\ stale' = [stale EXCEPT ![Server] = @ \ {j}]
        /\ j \in Jobs /\ jobs[j] \in Row /\ RetryOrFail(jobs[j]) \in Row
        /\ Rewrites(Server, j, RetryOrFail(jobs[j]))
  BY <1>1, RecoverWrites
<1>4. PICK row \in Row :
        /\ row = RetryOrFail(jobs[j]) /\ row.attempts = jobs[j].attempts
        /\ \/ row.status = "scheduled_retry" /\ row.attempts < MaxAttempts
           \/ row.status = "failed"
  BY <1>3, RetryOrFailType
<1>5. Coming = jobs /\ Coming' = [jobs EXCEPT ![j] = row] /\ jobs \in [Jobs -> Row]
  BY <1>2, <1>3, <1>4, ComingRewrite DEF TypeInv, TableOK
<1>6. stale'[Server] \subseteq stale[Server] /\ \A p \in Procs \ {Server} : stale'[p] = stale[p]
  BY <1>1, <1>3 DEF TypeInv, RestOK
<1>7. /\ at[Server] \in {"idle", "batch", "run"} /\ jobs[j].status # "absent"
      /\ \A b \in batch[Server] : b.id # j
      /\ spent.crashes = 0 => at[Server] # "idle"
  BY <1>3 DEF PlaceInv, HandsKnown, BatchInv, WakeInv
<1>8. TableKnown' /\ RowsInv'
  <2>1. /\ row.attempts <= MaxAttempts + manual'[j]
        /\ row.status \in Waiting \cup {"canceled"} => row.attempts < MaxAttempts + manual'[j]
    BY <1>2, <1>3, <1>4, JobQueueAssumption DEF RowsInv, Waiting, Row, TypeInv, RestOK
  <2>2. row.status # "absent"
    BY <1>4
  <2>3. /\ \A i \in Jobs : manual[i] <= manual'[i]
        /\ jobs[j].attempts <= row.attempts
    BY <1>2, <1>3, <1>4 DEF TypeInv, RestOK, Row
  <2> QED  BY <1>2, <1>3, <1>4, <1>7, <2>1, <2>2, <2>3, RewriteServer
<1>9. OthersIdle'
  BY <1>2, <1>3, <1>6 DEF OthersIdle, Rewrites, TypeInv, TableOK
<1>10. HandsKnown'
  BY <1>2, <1>6 DEF HandsKnown
<1>11. BatchInv'
  BY <1>1, <1>2, <1>5, <1>6, <1>7 DEF BatchInv, TypeInv, RestOK
<1>12. PlaceInv' /\ StartInv'
  BY <1>2, <1>7 DEF PlaceInv, StartInv
<1>13. HeldInv' /\ WakeInv'
  BY <1>2, <1>4, <1>5, <1>7 DEF HeldInv, WakeInv
<1> QED  BY <1>8, <1>9, <1>10, <1>11, <1>12, <1>13

-----------------------------------------------------------------------------
(* The steps of the worker loop. *)

(* The loop moves on without touching the table.                            *)
LEMMA QuietKeeps ==
  ASSUME TypeInv, ServerInv, UNCHANGED <<jobs, update, starts, manual>>
  PROVE  Coming' = Coming /\ TableKnown' /\ RowsInv'
<1>1. Coming' = Coming
  BY DEF Coming
<1> QED  BY <1>1 DEF ServerInv, TableKnown, FirstEnqueued, RowsInv

LEMMA FiresServer ==
  ASSUME TypeInv, TypeInv', ServerInv, InProcess, TimerFires
  PROVE  ServerInv'
<1> USE DEF ServerInv
<1>1. Server \in Procs
  BY DEF Procs
<1>2. /\ at'[Server] = "list" /\ \A p \in Procs \ {Server} : at'[p] = at[p]
      /\ UNCHANGED <<jobs, update, stale, job, batch, strays, starts, manual, spent>>
      /\ stale[Server] = {}
  BY <1>1 DEF TimerFires, Awaiting, Free, TypeInv, LoopsOK
<1>3. Coming' = Coming /\ TableKnown' /\ RowsInv' /\ Coming = jobs
  BY <1>2, QuietKeeps, FreeIsTable DEF TimerFires, Awaiting
<1>4. OthersIdle' /\ HandsKnown' /\ BatchInv' /\ PlaceInv' /\ StartInv' /\ WakeInv'
  BY <1>2, <1>3 DEF OthersIdle, HandsKnown, BatchInv, PlaceInv, StartInv, WakeInv, AtJob
<1>5. HeldInv'
  BY <1>2, <1>3 DEF HeldInv, TimerFires
<1> QED  BY <1>3, <1>4, <1>5

LEMMA ListServer ==
  ASSUME TypeInv, TypeInv', ServerInv, InProcess, ListEligible(Server)
  PROVE  ServerInv'
<1> USE DEF ServerInv
<1>1. Server \in Procs
  BY DEF Procs
<1>2. /\ at[Server] = "list" /\ at'[Server] = "batch" /\ \A p \in Procs \ {Server} : at'[p] = at[p]
      /\ UNCHANGED <<jobs, update, stale, job, strays, timer, starts, manual, spent>>
      /\ stale[Server] = {}
  BY <1>1 DEF ListEligible, Free, TypeInv, LoopsOK
<1>3. Coming' = Coming /\ TableKnown' /\ RowsInv' /\ Coming = jobs
  BY <1>2, QuietKeeps, FreeIsTable DEF ListEligible
<1>4. /\ batch'[Server] = {[id |-> j, retry |-> jobs[j].status = "scheduled_retry"] : j \in Eligible}
      /\ \A p \in Procs \ {Server} : batch'[p] = batch[p]
  BY <1>1, Zenon DEF ListEligible, TypeInv, RestOK
<1>5. ASSUME NEW b \in batch'[Server]
      PROVE  /\ b.id \in Jobs /\ jobs[b.id].status \in Waiting
             /\ jobs[b.id].status = "scheduled_retry" => b.retry
             /\ \A other \in batch'[Server] : other.id = b.id => other = b
  <2>1. \A c \in batch'[Server] :
           \E j \in Eligible : c = [id |-> j, retry |-> jobs[j].status = "scheduled_retry"]
    BY <1>4, Zenon
  <2>2. PICK j \in Eligible : b = [id |-> j, retry |-> jobs[j].status = "scheduled_retry"]
    BY <1>5, <2>1, Zenon
  <2>3. b.id = j /\ b.retry = (jobs[j].status = "scheduled_retry")
    BY <2>2, Zenon
  <2>4. j \in Jobs /\ jobs[j].status \in Waiting
    BY DEF Eligible, Pending, In, Waiting
  <2>5. ASSUME NEW other \in batch'[Server], other.id = b.id
        PROVE  other = b
    <3>1. PICK i \in Eligible : other = [id |-> i, retry |-> jobs[i].status = "scheduled_retry"]
      BY <2>1, <2>5, Zenon
    <3>2. i = j
      BY <2>3, <2>5, <3>1, Zenon
    <3> QED  BY <2>2, <3>1, <3>2, Zenon
  <2> QED  BY <2>3, <2>4, <2>5, Zenon
<1>6. OthersIdle'
  BY <1>2, <1>4 DEF OthersIdle
<1>7. BatchInv'
  BY <1>2, <1>3, <1>5 DEF BatchInv, Waiting, AtJob
<1>8. HandsKnown'
  BY <1>2, <1>5 DEF HandsKnown, Waiting, AtJob
<1>9. PlaceInv' /\ StartInv' /\ HeldInv' /\ WakeInv'
  BY <1>2, <1>3 DEF PlaceInv, StartInv, HeldInv, WakeInv
<1> QED  BY <1>3, <1>6, <1>7, <1>8, <1>9

LEMMA TakeServer ==
  ASSUME TypeInv, TypeInv', ServerInv, InProcess, TakeNext(Server)
  PROVE  ServerInv'
<1> USE DEF ServerInv
<1>1. Server \in Procs
  BY DEF Procs
<1>2. /\ at[Server] = "batch" /\ at'[Server] = "check"
      /\ \A p \in Procs \ {Server} : at'[p] = at[p]
      /\ UNCHANGED <<jobs, stale, strays, timer, starts, manual, spent>>
      /\ stale[Server] = {} /\ update[Server].phase # "write" /\ Coming = jobs
  BY <1>1, FreeIsTable DEF TakeNext, Awaiting, Free, TypeInv, LoopsOK
<1>3. PICK b \in batch[Server] :
        /\ batch' = [batch EXCEPT ![Server] = @ \ {b}]
        /\ job' = [job EXCEPT ![Server] = b.id]
        /\ b.id \in Jobs /\ jobs[b.id] \in Row
        /\ \/ ~b.retry /\ UNCHANGED update
           \/ \E row \in Row : /\ b.retry /\ Rewrites(Server, b.id, row)
                               /\ row.status = "queued" /\ row.attempts = jobs[b.id].attempts
  BY <1>1, TakeWrites
<1>4. /\ batch'[Server] = batch[Server] \ {b} /\ job'[Server] = b.id
      /\ \A p \in Procs \ {Server} : batch'[p] = batch[p] /\ job'[p] = job[p]
  BY <1>1, <1>3 DEF TypeInv, RestOK, LoopsOK
<1>5. \A c \in batch'[Server] : c \in batch[Server] /\ c.id # b.id /\ c.id \in Jobs
  BY <1>1, <1>4 DEF BatchInv, TypeInv, RestOK
<1>6. jobs[b.id].status # "absent"
  BY <1>3 DEF HandsKnown
<1>7. HandsKnown'
  BY <1>2, <1>4, <1>5, <1>6 DEF HandsKnown
<1>8. ASSUME ~b.retry, UNCHANGED update
      PROVE  ServerInv'
  <2>1. Coming' = Coming /\ TableKnown' /\ RowsInv'
    BY <1>2, <1>8, QuietKeeps
  <2>2. jobs[b.id].status \in {"queued", "canceled"}
    BY <1>2, <1>8 DEF BatchInv
  <2>3. OthersIdle'
    BY <1>2, <1>4, <1>8 DEF OthersIdle
  <2>4. BatchInv'
    BY <1>2, <1>4, <1>5, <2>1 DEF BatchInv
  <2>5. PlaceInv' /\ StartInv' /\ HeldInv' /\ WakeInv'
    BY <1>2, <1>4, <2>1, <2>2 DEF PlaceInv, StartInv, HeldInv, WakeInv
  <2> QED  BY <1>7, <2>1, <2>3, <2>4, <2>5
<1>9. ASSUME NEW row \in Row, Rewrites(Server, b.id, row),
             row.status = "queued", row.attempts = jobs[b.id].attempts
      PROVE  ServerInv'
  <2>1. Coming' = [jobs EXCEPT ![b.id] = row] /\ jobs \in [Jobs -> Row]
    BY <1>2, <1>3, <1>9, ComingRewrite DEF TypeInv, TableOK
  <2>2. TableKnown' /\ RowsInv'
    <3>1. jobs[b.id].status \in {"queued", "canceled", "scheduled_retry"}
      BY <1>2 DEF BatchInv
    <3>2. row.attempts < MaxAttempts + manual[b.id]
      BY <1>3, <1>9, <3>1 DEF RowsInv, Waiting
    <3>3. /\ row.attempts <= MaxAttempts + manual'[b.id]
          /\ row.attempts < MaxAttempts + manual'[b.id]
          /\ \A i \in Jobs : manual[i] <= manual'[i]
          /\ jobs[b.id].attempts <= row.attempts
      BY <1>2, <1>3, <1>9, <3>2, JobQueueAssumption DEF TypeInv, RestOK, Row
    <3> QED  BY <1>2, <1>3, <1>6, <1>9, <3>3, RewriteServer
  <2>3. OthersIdle'
    BY <1>2, <1>4, <1>9 DEF OthersIdle, Rewrites, TypeInv, TableOK
  <2>4. BatchInv'
    BY <1>2, <1>4, <1>5, <2>1 DEF BatchInv
  <2>5. PlaceInv' /\ StartInv' /\ HeldInv' /\ WakeInv'
    BY <1>2, <1>3, <1>4, <1>9, <2>1 DEF PlaceInv, StartInv, HeldInv, WakeInv
  <2> QED  BY <1>7, <2>2, <2>3, <2>4, <2>5
<1> QED  BY <1>3, <1>8, <1>9

LEMMA CheckServer ==
  ASSUME TypeInv, TypeInv', ServerInv, InProcess, Check(Server)
  PROVE  ServerInv'
<1> USE DEF ServerInv
<1>1. Server \in Procs
  BY DEF Procs
<1>2. /\ at[Server] = "check"
      /\ UNCHANGED <<jobs, stale, batch, strays, timer, starts, manual, spent>>
      /\ stale[Server] = {} /\ update[Server].phase # "write" /\ Coming = jobs
      /\ job[Server] \in Jobs /\ jobs[job[Server]] \in Row
      /\ jobs \in [Jobs -> Row]
  BY <1>1, FreeIsTable, CheckWrites DEF Check, Free, TypeInv, TableOK
<1>3. /\ jobs[job[Server]].status \in {"queued", "canceled"}
      /\ \A b \in batch[Server] : b.id \in Jobs /\ b.id # job[Server]
  BY <1>1, <1>2 DEF PlaceInv, BatchInv, TypeInv, RestOK, AtJob
<1>4. ASSUME at' = [at EXCEPT ![Server] = "batch"], job' = [job EXCEPT ![Server] = 0],
             UNCHANGED update
      PROVE  ServerInv'
  <2>1. Coming' = Coming /\ TableKnown' /\ RowsInv'
    BY <1>2, <1>4, QuietKeeps
  <2>2. at'[Server] = "batch" /\ \A p \in Procs \ {Server} : at'[p] = at[p]
    BY <1>1, <1>4 DEF TypeInv, LoopsOK
  <2>3. OthersIdle' /\ HandsKnown' /\ BatchInv' /\ PlaceInv' /\ StartInv'
    BY <1>2, <1>4, <2>1, <2>2 DEF OthersIdle, HandsKnown, BatchInv, PlaceInv, StartInv, AtJob
  <2>4. HeldInv' /\ WakeInv'
    BY <1>2, <2>1, <2>2 DEF HeldInv, WakeInv
  <2> QED  BY <2>1, <2>3, <2>4
<1>5. ASSUME at' = [at EXCEPT ![Server] = "mark"], UNCHANGED <<job, update>>,
             jobs[job[Server]].status # "canceled"
      PROVE  ServerInv'
  <2>1. Coming' = Coming /\ TableKnown' /\ RowsInv'
    BY <1>2, <1>5, QuietKeeps
  <2>2. at'[Server] = "mark" /\ \A p \in Procs \ {Server} : at'[p] = at[p]
    BY <1>1, <1>5 DEF TypeInv, LoopsOK
  <2>3. OthersIdle' /\ HandsKnown' /\ BatchInv' /\ PlaceInv' /\ StartInv'
    BY <1>2, <1>3, <1>5, <2>1, <2>2 DEF OthersIdle, HandsKnown, BatchInv, PlaceInv, StartInv, AtJob
  <2>4. HeldInv' /\ WakeInv'
    BY <1>2, <2>1, <2>2 DEF HeldInv, WakeInv
  <2> QED  BY <2>1, <2>3, <2>4
<1>6. ASSUME at' = [at EXCEPT ![Server] = "batch"], job' = [job EXCEPT ![Server] = 0],
             NEW row \in Row, Rewrites(Server, job[Server], row),
             row.status = "failed", row.attempts = jobs[job[Server]].attempts
      PROVE  ServerInv'
  <2>1. Coming' = [jobs EXCEPT ![job[Server]] = row]
    BY <1>2, <1>6, ComingRewrite
  <2>2. TableKnown' /\ RowsInv'
    <3>1. /\ row.attempts <= MaxAttempts + manual'[job[Server]]
          /\ row.status \notin Waiting \cup {"canceled"}
          /\ \A i \in Jobs : manual[i] <= manual'[i]
          /\ jobs[job[Server]].attempts <= row.attempts
      BY <1>2, <1>6 DEF RowsInv, Waiting, TypeInv, RestOK, Row
    <3> QED  BY <1>2, <1>3, <1>6, <3>1, RewriteServer
  <2>3. at'[Server] = "batch" /\ \A p \in Procs \ {Server} : at'[p] = at[p]
    BY <1>1, <1>6 DEF TypeInv, LoopsOK
  <2>4. OthersIdle'
    BY <1>2, <1>6, <2>3 DEF OthersIdle, Rewrites, TypeInv, TableOK
  <2>5. HandsKnown' /\ BatchInv' /\ PlaceInv' /\ StartInv'
    BY <1>2, <1>3, <1>6, <2>1, <2>3 DEF HandsKnown, BatchInv, PlaceInv, StartInv, AtJob
  <2>6. HeldInv' /\ WakeInv'
    BY <1>2, <1>6, <2>1, <2>3 DEF HeldInv, WakeInv
  <2> QED  BY <2>2, <2>4, <2>5, <2>6
<1> QED  BY <1>1, <1>4, <1>5, <1>6, CheckWrites

LEMMA MarkServer ==
  ASSUME TypeInv, TypeInv', ServerInv, InProcess, Mark(Server)
  PROVE  ServerInv'
<1> USE DEF ServerInv
<1>1. Server \in Procs
  BY DEF Procs
<1>2. /\ at[Server] = "mark" /\ at'[Server] = "start"
      /\ \A p \in Procs \ {Server} : at'[p] = at[p]
      /\ UNCHANGED <<jobs, stale, job, batch, strays, timer, starts, manual, spent>>
      /\ stale[Server] = {} /\ update[Server].phase # "write" /\ Coming = jobs
      /\ job[Server] \in Jobs /\ jobs[job[Server]] \in Row
      /\ jobs \in [Jobs -> Row]
  BY <1>1, FreeIsTable, MarkWrites DEF Mark, Free, TypeInv, TableOK, LoopsOK
<1>3. PICK row \in Row :
        /\ Rewrites(Server, job[Server], row)
        /\ row.status = "running" /\ row.attempts = jobs[job[Server]].attempts + 1
  BY <1>1, <1>2, MarkWrites, MarkedType
<1>4. jobs[job[Server]].status = "queued"
  BY <1>2 DEF PlaceInv
<1>5. Coming' = [jobs EXCEPT ![job[Server]] = row]
  BY <1>2, <1>3, ComingRewrite
<1>6. \A b \in batch[Server] : b.id \in Jobs /\ b.id # job[Server]
  BY <1>1, <1>2 DEF BatchInv, TypeInv, RestOK, AtJob
<1>7. /\ starts[job[Server]] <= jobs[job[Server]].attempts
      /\ jobs[job[Server]].attempts < MaxAttempts + manual[job[Server]]
      /\ starts[job[Server]] \in Nat /\ manual[job[Server]] \in Nat
      /\ jobs[job[Server]].attempts \in Nat /\ MaxAttempts \in Nat
  BY <1>2, <1>4, JobQueueAssumption DEF RowsInv, Waiting, TypeInv, RestOK, Row
<1>8. TableKnown' /\ RowsInv'
  <2>1. /\ row.attempts <= MaxAttempts + manual'[job[Server]]
        /\ row.status \notin Waiting \cup {"canceled"}
        /\ \A i \in Jobs : manual[i] <= manual'[i]
        /\ jobs[job[Server]].attempts <= row.attempts
    BY <1>2, <1>3, <1>7 DEF Waiting, TypeInv, RestOK
  <2> QED  BY <1>2, <1>3, <1>4, <2>1, RewriteServer
<1>9. OthersIdle'
  BY <1>2, <1>3 DEF OthersIdle, Rewrites, TypeInv, TableOK
<1>10. HandsKnown' /\ BatchInv' /\ PlaceInv'
  BY <1>2, <1>4, <1>5, <1>6 DEF HandsKnown, BatchInv, PlaceInv, AtJob
<1>11. StartInv'
  BY <1>2, <1>3, <1>5, <1>7 DEF StartInv
<1>12. HeldInv' /\ WakeInv'
  BY <1>2, <1>5 DEF HeldInv, WakeInv
<1> QED  BY <1>8, <1>9, <1>10, <1>11, <1>12

LEMMA InvokeServer ==
  ASSUME TypeInv, TypeInv', ServerInv, InProcess, Invoke(Server)
  PROVE  ServerInv'
<1> USE DEF ServerInv
<1>1. Server \in Procs
  BY DEF Procs
<1>2. /\ at[Server] = "start" /\ at'[Server] = "run"
      /\ \A p \in Procs \ {Server} : at'[p] = at[p]
      /\ UNCHANGED <<jobs, update, stale, job, batch, strays, timer, manual, spent>>
      /\ Coming = jobs /\ Coming' = Coming
      /\ job[Server] \in Jobs
      /\ starts' = [starts EXCEPT ![job[Server]] = @ + 1]
  BY <1>1, FreeIsTable, HeldRow DEF Invoke, Coming, AtJob, TypeInv, LoopsOK
<1>3. OthersIdle' /\ TableKnown' /\ HandsKnown'
  BY <1>2 DEF OthersIdle, TableKnown, FirstEnqueued, HandsKnown, AtJob
<1>4. BatchInv' /\ PlaceInv' /\ StartInv' /\ HeldInv' /\ WakeInv'
  BY <1>2 DEF BatchInv, PlaceInv, StartInv, HeldInv, WakeInv, AtJob
<1>5. RowsInv'
  <2>1. starts[job[Server]] < jobs[job[Server]].attempts
    BY <1>2 DEF StartInv
  <2>2. starts \in [Jobs -> Nat] /\ \A j \in Jobs : jobs[j].attempts \in Nat
    BY DEF TypeInv, RestOK, TableOK, Row
  <2> QED  BY <1>2, <2>1, <2>2 DEF RowsInv
<1> QED  BY <1>3, <1>4, <1>5

(* The end of a run, well or badly: the row is rewritten whatever it says.  *)
LEMMA EndServer ==
  ASSUME TypeInv, TypeInv', ServerInv, InProcess, EndRun(Server),
         \A p \in Procs \ {Server} : strays'[p] = strays[p],
         strays'[Server] \subseteq strays[Server] \cup {job[Server]},
         NEW row \in Row, Rewrites(Server, job[Server], row),
         row.attempts = jobs[job[Server]].attempts,
         \/ row.status \in {"completed", "failed"}
         \/ row.status = "scheduled_retry" /\ row.attempts < MaxAttempts
  PROVE  ServerInv'
<1> USE DEF ServerInv
<1>1. Server \in Procs
  BY DEF Procs
<1>2. /\ at[Server] = "run" /\ at'[Server] = "settle"
      /\ \A p \in Procs \ {Server} : at'[p] = at[p]
      /\ UNCHANGED <<jobs, stale, job, batch, timer, starts, manual, spent>>
      /\ stale[Server] = {} /\ update[Server].phase # "write" /\ Coming = jobs
      /\ job[Server] \in Jobs /\ jobs[job[Server]] \in Row
      /\ jobs \in [Jobs -> Row]
  BY <1>1, FreeIsTable, HeldRow DEF EndRun, Awaiting, Free, AtJob, TypeInv, TableOK, LoopsOK
<1>3. Coming' = [jobs EXCEPT ![job[Server]] = row]
  BY <1>2, ComingRewrite
<1>4. \A b \in batch[Server] : b.id \in Jobs /\ b.id # job[Server]
  BY <1>1, <1>2 DEF BatchInv, TypeInv, RestOK, AtJob
<1>5. jobs[job[Server]].status # "absent"
  BY <1>2 DEF HandsKnown, AtJob
<1>6. TableKnown' /\ RowsInv'
  <2>1. /\ row.attempts <= MaxAttempts + manual'[job[Server]]
        /\ row.status \in Waiting \cup {"canceled"}
              => row.attempts < MaxAttempts + manual'[job[Server]]
        /\ \A i \in Jobs : manual[i] <= manual'[i]
        /\ jobs[job[Server]].attempts <= row.attempts
    BY <1>2, JobQueueAssumption DEF RowsInv, Waiting, TypeInv, RestOK, Row
  <2> QED  BY <1>2, <1>5, <2>1, RewriteServer
<1>7. OthersIdle'
  BY <1>2 DEF OthersIdle, Rewrites, TypeInv, TableOK
<1>8. HandsKnown'
  BY <1>2, <1>5 DEF HandsKnown, AtJob
<1>9. BatchInv' /\ PlaceInv' /\ StartInv'
  BY <1>2, <1>3, <1>4 DEF BatchInv, PlaceInv, StartInv
<1>10. HeldInv' /\ WakeInv'
  BY <1>2, <1>3 DEF HeldInv, WakeInv
<1> QED  BY <1>6, <1>7, <1>8, <1>9, <1>10

LEMMA CompleteServer ==
  ASSUME TypeInv, TypeInv', ServerInv, InProcess, Complete(Server)
  PROVE  ServerInv'
<1>1. Server \in Procs
  BY DEF Procs
<1>2. EndRun(Server) /\ UNCHANGED strays
  BY DEF Complete
<1> QED  BY <1>1, <1>2, CompleteWrites, EndServer

LEMMA FailServer ==
  ASSUME TypeInv, TypeInv', ServerInv, InProcess,
         NEW timedOut \in BOOLEAN, Fail(Server, timedOut)
  PROVE  ServerInv'
<1>1. Server \in Procs
  BY DEF Procs
<1>2. EndRun(Server)
  BY DEF Fail
<1>3. /\ \A p \in Procs \ {Server} : strays'[p] = strays[p]
      /\ strays'[Server] \subseteq strays[Server] \cup {job[Server]}
  BY <1>1 DEF Fail, TypeInv, RestOK
<1>4. PICK row \in Row : /\ Rewrites(Server, job[Server], row)
                         /\ row.attempts = jobs[job[Server]].attempts
                         /\ \/ row.status \in {"completed", "failed"}
                            \/ row.status = "scheduled_retry" /\ row.attempts < MaxAttempts
  BY <1>1, FailWrites, RetryOrFailType
<1> QED  BY <1>2, <1>3, <1>4, EndServer

LEMMA SettledServer ==
  ASSUME TypeInv, TypeInv', ServerInv, InProcess, Settled(Server)
  PROVE  ServerInv'
<1> USE DEF ServerInv
<1>1. Server \in Procs
  BY DEF Procs
<1>2. /\ at[Server] = "settle" /\ at'[Server] = "batch"
      /\ \A p \in Procs \ {Server} : at'[p] = at[p]
      /\ UNCHANGED <<jobs, update, stale, batch, strays, timer, starts, manual, spent>>
  BY <1>1 DEF Settled, TypeInv, LoopsOK
<1>3. Coming' = Coming /\ TableKnown' /\ RowsInv'
  BY <1>2, QuietKeeps
<1>4. OthersIdle' /\ HandsKnown' /\ BatchInv' /\ PlaceInv' /\ StartInv'
  BY <1>2, <1>3 DEF OthersIdle, HandsKnown, BatchInv, PlaceInv, StartInv, AtJob
<1>5. HeldInv' /\ WakeInv'
  BY <1>2, <1>3 DEF HeldInv, WakeInv
<1> QED  BY <1>3, <1>4, <1>5

(* The loop ends with its timer armed if anything waits.                    *)
LEMMA LoopEndsServer ==
  ASSUME TypeInv, TypeInv', ServerInv, InProcess, LoopEnds(Server)
  PROVE  ServerInv'
<1> USE DEF ServerInv
<1>1. Server \in Procs
  BY DEF Procs
<1>2. /\ at[Server] = "batch" /\ at'[Server] = "idle"
      /\ \A p \in Procs \ {Server} : at'[p] = at[p]
      /\ UNCHANGED <<jobs, update, stale, job, batch, strays, starts, manual, spent>>
      /\ stale[Server] = {} /\ Coming = jobs
      /\ timer' = (Pending # {})
  BY <1>1, FreeIsTable DEF LoopEnds, GoesOn, Awaiting, Free, TypeInv, LoopsOK
<1>3. Coming' = Coming /\ TableKnown' /\ RowsInv'
  BY <1>2, QuietKeeps
<1>4. OthersIdle' /\ HandsKnown' /\ BatchInv' /\ PlaceInv' /\ StartInv'
  BY <1>2, <1>3 DEF OthersIdle, HandsKnown, BatchInv, PlaceInv, StartInv, AtJob
<1>5. HeldInv'
  BY <1>2, <1>3 DEF HeldInv
<1>6. WakeInv'
  <2>1. ~timer' => \A j \in Jobs : jobs[j].status \notin Waiting
    BY <1>2 DEF Pending, In, Waiting
  <2> QED  BY <1>2, <1>3, <2>1 DEF WakeInv
<1> QED  BY <1>3, <1>4, <1>5, <1>6

-----------------------------------------------------------------------------
(* Heartbeats, time and crashes. *)

LEMMA BeatServer ==
  ASSUME TypeInv, TypeInv', ServerInv, InProcess,
         NEW j \in Jobs, NEW log \in BOOLEAN, Heartbeat(Server, j, log)
  PROVE  ServerInv'
<1>1. Server \in Procs
  BY DEF Procs
<1>2. update[Server].phase # "write" /\ UNCHANGED jobs
  BY FreeIsTable DEF Heartbeat, Awaiting
<1>3. PICK row \in Row : /\ Rewrites(Server, j, row)
                         /\ row.status = jobs[j].status /\ row.attempts = jobs[j].attempts
  BY <1>1, BeatWrites, RenewedType
<1>4. Coming = jobs /\ Coming' = [jobs EXCEPT ![j] = row] /\ jobs \in [Jobs -> Row]
  BY <1>2, <1>3, ComingRewrite DEF TypeInv, TableOK
<1>5. \A p \in Procs \ {Server} : update'[p] = update[p]
  BY <1>3 DEF Rewrites, TypeInv, TableOK
<1>6. UNCHANGED <<jobs, stale, at, job, batch, strays, timer, starts, manual, spent>>
  BY DEF Heartbeat
<1>7. \A i \in Jobs : Coming'[i].status = Coming[i].status /\ Coming'[i].attempts = Coming[i].attempts
  BY <1>3, <1>4
<1> QED  BY <1>5, <1>6, <1>7, SameRows

LEMMA StrayServer ==
  ASSUME TypeInv, TypeInv', ServerInv, InProcess, NEW p \in Procs, NEW j \in Jobs, StrayEnds(p, j)
  PROVE  ServerInv'
<1>1. Coming' = Coming
  BY DEF StrayEnds, Coming
<1>2. \A q \in Procs : strays'[q] \subseteq strays[q]
  BY DEF StrayEnds, TypeInv, RestOK
<1>3. UNCHANGED <<jobs, update, stale, at, job, batch, timer, starts, manual, spent>>
  BY DEF StrayEnds
<1> QED  BY <1>1, <1>2, <1>3, SameRows

LEMMA WindowServer ==
  ASSUME TypeInv, TypeInv', ServerInv, InProcess, NEW j \in Jobs, RetryWindowOpens(j)
  PROVE  ServerInv'
<1>1. Server \in Procs
  BY DEF Procs
<1>2. \A i \in Jobs : jobs'[i].status = jobs[i].status /\ jobs'[i].attempts = jobs[i].attempts
  BY DEF RetryWindowOpens, TypeInv, TableOK, Row
<1>3. \A i \in Jobs : Coming'[i].status = Coming[i].status /\ Coming'[i].attempts = Coming[i].attempts
  BY <1>1, <1>2, WindowWrites DEF Coming, TypeInv
<1>4. \A p \in Procs \ {Server} : update'[p] = update[p]
  BY DEF RetryWindowOpens, ServerInv, OthersIdle, NoUpdate
<1>5. UNCHANGED <<stale, at, job, batch, strays, timer, starts, manual, spent>>
  BY DEF RetryWindowOpens
<1> QED  BY <1>2, <1>3, <1>4, <1>5, SameRows

LEMMA LeaseServer ==
  ASSUME TypeInv, TypeInv', ServerInv, InProcess, NEW j \in Jobs, LeaseExpires(j)
  PROVE  ServerInv'
<1>1. \A i \in Jobs : jobs'[i].status = jobs[i].status /\ jobs'[i].attempts = jobs[i].attempts
  BY DEF LeaseExpires, TypeInv, TableOK, Row
<1>2. UNCHANGED <<update, stale, at, job, batch, strays, timer, starts, manual>>
      /\ spent'.crashes = spent.crashes
  BY DEF LeaseExpires, TypeInv, RestOK
<1>3. \A i \in Jobs : Coming'[i].status = Coming[i].status /\ Coming'[i].attempts = Coming[i].attempts
  BY <1>1, <1>2 DEF Coming
<1> QED  BY <1>1, <1>2, <1>3, SameRows

(* After a crash the table is all there is.                                 *)
LEMMA CrashServer ==
  ASSUME TypeInv, TypeInv', ServerInv, InProcess, Crash(Server)
  PROVE  ServerInv'
<1> USE DEF ServerInv
<1>1. Server \in Procs
  BY DEF Procs
<1>2. /\ update'[Server] = NoUpdate /\ stale'[Server] = {} /\ strays'[Server] = {}
      /\ batch'[Server] = {} /\ at'[Server] = "idle"
  BY <1>1 DEF Crash, TypeInv, TableOK, RestOK, LoopsOK
<1>3. \A p \in Procs \ {Server} :
         /\ update'[p] = update[p] /\ stale'[p] = stale[p] /\ strays'[p] = strays[p]
         /\ batch'[p] = batch[p] /\ at'[p] = at[p]
  BY DEF Crash, TypeInv, TableOK, RestOK, LoopsOK
<1>4. UNCHANGED <<jobs, starts, manual>> /\ spent'.crashes = spent.crashes + 1 /\ spent.crashes \in Nat
  BY DEF Crash, TypeInv, RestOK
<1>5. Coming' = jobs
  BY <1>2, <1>4 DEF Coming, NoUpdate, TypeInv, TableOK
<1>6. OthersIdle'
  BY <1>3 DEF OthersIdle
<1>7. TableKnown' /\ HandsKnown' /\ RowsInv'
  BY <1>2, <1>4, <1>5 DEF TableKnown, FirstEnqueued, HandsKnown, RowsInv, AtJob
<1>8. BatchInv' /\ PlaceInv' /\ StartInv'
  BY <1>2 DEF BatchInv, PlaceInv, StartInv
<1>9. HeldInv' /\ WakeInv'
  BY <1>4 DEF HeldInv, WakeInv
<1> QED  BY <1>6, <1>7, <1>8, <1>9

-----------------------------------------------------------------------------
(* Only the server acts. *)
LEMMA OnlyServer ==
  ASSUME TypeInv, OthersIdle, InProcess, NEW p \in Procs,
         \/ Block(p) \/ Loop(p) \/ Crash(p)
         \/ \E j \in Jobs, log \in BOOLEAN : Heartbeat(p, j, log)
         \/ \E j \in Jobs : StrayEnds(p, j)
  PROVE  p = Server
<1> SUFFICES ASSUME p # Server PROVE FALSE
  OBVIOUS
<1>1. at[p] = "idle" /\ update[p] = NoUpdate /\ batch[p] = {} /\ stale[p] = {} /\ strays[p] = {}
  BY DEF OthersIdle
<1>2. ~Block(p)
  BY <1>1 DEF Block, Store, Append, RecoverJob, NoUpdate
<1>3. ~Loop(p)
  BY <1>1 DEF Loop, WorkerCycle, InProcess, ListEligible, TakeNext, Check, Mark, Invoke, Complete,
              Fail, EndRun, Settled, LoopEnds
<1>4. ~Crash(p)
  BY DEF Crash, Runner, InProcess
<1> QED  BY <1>1, <1>2, <1>3, <1>4 DEF Heartbeat, StrayEnds

LEMMA ServerNext ==
  ASSUME TypeInv, TypeInv', ServerInv, InProcess, [Next]_vars
  PROVE  ServerInv'
<1>2. OthersIdle
  BY DEF ServerInv
<1>3. ASSUME Api PROVE ServerInv'
  BY <1>3, EnqueueServer, CancelServer, RetryServer, ListStaleServer DEF Api
<1>4. ASSUME NEW p \in Procs, Block(p) PROVE ServerInv'
  <2>1. p = Server
    BY <1>2, <1>4, OnlyServer
  <2> QED  BY <1>4, <2>1, StoreServer, AppendServer, RecoverServer DEF Block
<1>5. ASSUME NEW p \in Procs, Loop(p) PROVE ServerInv'
  <2>1. p = Server
    BY <1>2, <1>5, OnlyServer
  <2>2. ~WorkerCycle(p)
    BY DEF WorkerCycle, InProcess
  <2> QED  BY <1>5, <2>1, <2>2, FiresServer, ListServer, TakeServer, CheckServer, MarkServer,
              InvokeServer, CompleteServer, FailServer, SettledServer, LoopEndsServer DEF Loop
<1>6. ASSUME NEW p \in Procs, NEW j \in Jobs, NEW log \in BOOLEAN, Heartbeat(p, j, log)
      PROVE  ServerInv'
  <2>1. p = Server
    BY <1>2, <1>6, OnlyServer
  <2> QED  BY <1>6, <2>1, BeatServer
<1>7. ASSUME NEW p \in Procs, NEW j \in Jobs, StrayEnds(p, j) PROVE ServerInv'
  BY <1>7, StrayServer
<1>8. ASSUME NEW j \in Jobs, Clock(j) PROVE ServerInv'
  BY <1>8, WindowServer, LeaseServer DEF Clock
<1>9. ASSUME NEW p \in Procs, Crash(p) PROVE ServerInv'
  <2>1. p = Server
    BY <1>2, <1>9, OnlyServer
  <2> QED  BY <1>9, <2>1, CrashServer
<1>10. ASSUME UNCHANGED vars PROVE ServerInv'
  <2>1. UNCHANGED <<jobs, update, stale, at, job, batch, strays, timer, starts, manual, spent>>
    BY <1>10 DEF vars
  <2>2. Coming' = Coming
    BY <2>1 DEF Coming
  <2> QED  BY <2>1, <2>2, SameRows
<1> QED  BY <1>3, <1>4, <1>5, <1>6, <1>7, <1>8, <1>9, <1>10 DEF Next

LEMMA WorkersStay == [Next]_vars => workers' = workers
BY DEF Next, Api, EnqueueJob, CancelJob, RetryJob, RecoverStaleJobs, Block, Store, Append,
       RecoverJob, Loop, WorkerCycle, TimerFires, ListEligible, TakeNext, Check, Mark, Invoke,
       Complete, Fail, EndRun, Settled, LoopEnds, Heartbeat, StrayEnds, Clock,
       RetryWindowOpens, LeaseExpires, Crash, vars

LEMMA ServerInit == Init => ServerInv
<1> SUFFICES ASSUME Init PROVE ServerInv
  OBVIOUS
<1>1. Server \in Procs
  BY DEF Procs
<1>2. /\ update[Server] = NoUpdate /\ at[Server] = "idle" /\ batch[Server] = {}
      /\ stale[Server] = {} /\ strays[Server] = {}
      /\ \A j \in Jobs : jobs[j].status = "absent" /\ jobs[j].attempts = 0 /\ starts[j] = 0 /\ manual[j] = 0
  BY <1>1 DEF Init, Absent
<1>3. Coming = jobs
  BY <1>2, TypeInit, ComingIsTable DEF NoUpdate
<1>4. OthersIdle
  BY DEF Init, OthersIdle
<1>5. TableKnown
  <2>1. \A j \in Jobs : jobs[j].status # "absent" <=> j <= 0
    BY <1>2 DEF Jobs
  <2> QED  BY <1>2, <1>3, <2>1 DEF TableKnown, FirstEnqueued
<1>6. HandsKnown /\ BatchInv /\ PlaceInv /\ StartInv
  BY <1>2 DEF HandsKnown, BatchInv, PlaceInv, StartInv, AtJob
<1>7. RowsInv
  BY <1>2, <1>3, JobQueueAssumption DEF RowsInv, Waiting
<1>8. HeldInv /\ WakeInv
  BY <1>2, <1>3 DEF HeldInv, WakeInv, Waiting
<1> QED  BY <1>4, <1>5, <1>6, <1>7, <1>8 DEF ServerInv

(* The inductive invariant of the queue, whoever runs its jobs: its shape,  *)
(* and in process what the server keeps up.                                 *)
QueueInv == TypeInv /\ (InProcess => ServerInv)

(* Every step of the queue keeps it (jobQueue.js).                          *)
THEOREM QueueStays == JobQueueSpec => []QueueInv
<1>1. Init => QueueInv
  BY TypeInit, ServerInit DEF QueueInv
<1>2. QueueInv /\ [Next]_vars => QueueInv'
  <2> SUFFICES ASSUME QueueInv, [Next]_vars PROVE QueueInv'
    OBVIOUS
  <2>1. TypeInv'
    BY TypeNext DEF QueueInv
  <2>2. workers' = workers
    BY WorkersStay
  <2>3. CASE InProcess
    BY <2>1, <2>3, ServerNext DEF QueueInv
  <2>4. CASE ~InProcess
    BY <2>1, <2>2, <2>4 DEF QueueInv, InProcess
  <2> QED  BY <2>3, <2>4
<1> QED  BY <1>1, <1>2, PTL DEF JobQueueSpec

(* In process, the processor of a job is called at most maxAttempts times,  *)
(* and once more for each failed job an operator put back, whatever leases  *)
(* expire, runs time out or crashes repeat (runJob, recoverStaleJobs).      *)
THEOREM StartsStayInBudget == JobQueueSpec => []StartsWithinBudget
<1>1. QueueInv => StartsWithinBudget
  <2> SUFFICES ASSUME QueueInv, InProcess, NEW j \in Jobs
               PROVE  starts[j] <= MaxAttempts + manual[j]
    BY DEF StartsWithinBudget
  <2>1. /\ starts[j] <= jobs[j].attempts /\ jobs[j].attempts <= MaxAttempts + manual[j]
    BY DEF QueueInv, ServerInv, RowsInv
  <2>2. starts[j] \in Nat /\ jobs[j].attempts \in Nat /\ MaxAttempts \in Nat /\ manual[j] \in Nat
    BY JobQueueAssumption DEF QueueInv, TypeInv, RestOK, TableOK, Row
  <2> QED  BY <2>1, <2>2
<1> QED  BY <1>1, QueueStays, PTL

(* Until the server crashes, a job that waits has somebody coming for it    *)
(* (scheduleWorker, runPendingJobs).                                        *)
THEOREM NoWakeupLost == JobQueueSpec => []NoLostWakeup
<1>1. QueueInv => NoLostWakeup
  BY DEF QueueInv, ServerInv, WakeInv, NoLostWakeup, Undisturbed, Pending, In, Waiting
<1> QED  BY <1>1, QueueStays, PTL

(* Until the server crashes, no row says running but that of the job the    *)
(* loop holds (runJob, recoverStaleJobs).                                   *)
THEOREM RunningStaysHeld == JobQueueSpec => []RunningIsHeld
<1>1. QueueInv => RunningIsHeld
  BY FreeIsTable DEF QueueInv, ServerInv, HeldInv, RunningIsHeld, Undisturbed, In
<1> QED  BY <1>1, QueueStays, PTL
=============================================================================
