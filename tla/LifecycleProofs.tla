-------------------------- MODULE LifecycleProofs --------------------------
(***************************************************************************)
(* JobQueue implements JobLifecycle, whoever runs the jobs, for any number *)
(* of jobs, attempts, workers, calls, lapses and crashes.                  *)
(***************************************************************************)
EXTENDS JobQueueProofs

(* Nothing but what is enqueued is in a hand or about to be written.        *)
WritesEnqueued ==
    \A p \in Procs :
        /\ update[p].phase # "none" => update[p].id \in Enqueued
        /\ update[p].phase = "write" => update[p].row.status # "absent"
HandsEnqueued ==
    \A p \in Procs :
        /\ at[p] \in AtJob => job[p] \in Enqueued
        /\ stale[p] \subseteq Enqueued /\ strays[p] \subseteq Enqueued
        /\ \A b \in batch[p] : b.id \in Enqueued
KnownInv == FirstEnqueued /\ WritesEnqueued /\ HandsEnqueued

(* In process: the change of status that the rewrite in progress will make. *)
Allowed(from, to) ==
    \/ to = from
    \/ from \in Waiting /\ to = "canceled"
    \/ from \in {"scheduled_retry", "failed", "canceled"} /\ to = "queued"
    \/ from = "running" /\ to \in {"scheduled_retry", "failed"}
    \/ from = "queued" /\ to = "failed"
Writing == update[Server].phase = "write"
Logging == Writing /\ update[Server].log
ChangeInv ==
    /\ Logging /\ at[Server] = "start" =>
          /\ update[Server].id = job[Server] /\ update[Server].row.status = "running"
          /\ jobs[job[Server]].status = "queued"
    /\ Logging /\ at[Server] = "settle" =>
          /\ update[Server].id = job[Server]
          /\ \/ update[Server].row.status = "completed" /\ job[Server] \in succeeded
             \/ /\ update[Server].row.status \in {"scheduled_retry", "failed"}
                /\ jobs[job[Server]].status # "completed"
    /\ Writing /\ ~(Logging /\ at[Server] \in {"start", "settle"}) =>
          Allowed(jobs[update[Server].id].status, update[Server].row.status)
(* A run in hand is not completed yet, and recovery lists running rows.     *)
OpenInv ==
    /\ at[Server] \in {"start", "run"} => Coming[job[Server]].status # "completed"
    /\ \A j \in stale[Server] : Coming[j].status = "running"
LifeInv == ChangeInv /\ OpenInv

-----------------------------------------------------------------------------
(* What is enqueued. *)

(* The rows keep being there, and the hands take what is there.             *)
LEMMA SameEnqueued ==
  ASSUME FirstEnqueued, \A j \in Jobs : jobs'[j].status = "absent" <=> jobs[j].status = "absent"
  PROVE  FirstEnqueued' /\ Enqueued' = Enqueued
BY DEF FirstEnqueued, Enqueued

LEMMA RewriteKnown ==
  ASSUME TypeInv, KnownInv, UNCHANGED jobs,
         NEW p \in Procs, NEW j \in Enqueued, NEW row \in Row, Rewrites(p, j, row),
         row.status # "absent"
  PROVE  FirstEnqueued' /\ Enqueued' = Enqueued /\ WritesEnqueued'
<1>1. PICK u \in Updates : /\ u.phase = "write" /\ u.id = j /\ u.row = row
                           /\ update' = [update EXCEPT ![p] = u]
  BY DEF Rewrites
<1>2. FirstEnqueued' /\ Enqueued' = Enqueued
  BY SameEnqueued DEF KnownInv
<1>3. update'[p] = u /\ \A q \in Procs \ {p} : update'[q] = update[q]
  BY <1>1 DEF TypeInv, TableOK
<1>4. WritesEnqueued'
  BY <1>1, <1>2, <1>3 DEF KnownInv, WritesEnqueued
<1> QED  BY <1>2, <1>4

LEMMA HandsKeep ==
  ASSUME HandsEnqueued, Enqueued \subseteq Enqueued', UNCHANGED <<at, job, stale, strays, batch>>
  PROVE  HandsEnqueued'
BY DEF HandsEnqueued

LEMMA QuietKnown ==
  ASSUME KnownInv, UNCHANGED <<jobs, update>>
  PROVE  FirstEnqueued' /\ Enqueued' = Enqueued /\ WritesEnqueued'
<1>1. FirstEnqueued' /\ Enqueued' = Enqueued
  BY SameEnqueued DEF KnownInv
<1> QED  BY <1>1 DEF KnownInv, WritesEnqueued

LEMMA KnownApi ==
  ASSUME TypeInv, KnownInv, Api
  PROVE  KnownInv'
<1> USE DEF KnownInv
<1>1. Server \in Procs
  BY DEF Procs
<1>2. ASSUME NEW j \in Jobs, NEW sound \in BOOLEAN, EnqueueJob(j, sound)
      PROVE  KnownInv'
  <2>1. \A i \in Jobs : jobs[i].status # "absent" <=> i < j
    BY <1>2, NextEnqueued DEF EnqueueJob
  <2>2. \A i \in Jobs : jobs'[i].status # "absent" <=> i = j \/ jobs[i].status # "absent"
    BY <1>2 DEF EnqueueJob, Absent, TypeInv, TableOK
  <2>3. FirstEnqueued' /\ Enqueued \subseteq Enqueued'
    <3>1. \A i \in Jobs : jobs'[i].status # "absent" <=> i <= j
      BY <2>1, <2>2 DEF Jobs
    <3>2. j \in Nat
      BY DEF Jobs
    <3> QED  BY <2>2, <3>1, <3>2 DEF FirstEnqueued, Enqueued
  <2>4. WritesEnqueued' /\ HandsEnqueued'
    BY <1>2, <2>3, HandsKeep DEF EnqueueJob, WritesEnqueued
  <2> QED  BY <2>3, <2>4
<1>3. ASSUME NEW j \in Jobs, CancelJob(j)
      PROVE  KnownInv'
  <2>1. j \in Enqueued /\ UNCHANGED <<jobs, at, job, stale, strays, batch>>
    BY <1>3 DEF CancelJob
  <2>2. PICK row \in Row : Rewrites(Server, j, row) /\ row.status # "absent"
    BY <1>3, <2>1, CancelWrites DEF TypeInv, Enqueued
  <2> QED  BY <1>1, <2>1, <2>2, RewriteKnown, HandsKeep
<1>4. ASSUME NEW j \in Jobs, RetryJob(j)
      PROVE  KnownInv'
  <2>1. j \in Enqueued /\ UNCHANGED <<jobs, at, job, stale, strays, batch>>
    BY <1>4 DEF RetryJob
  <2>2. PICK row \in Row : Rewrites(Server, j, row) /\ row.status # "absent"
    BY <1>4, <2>1, RetryWrites DEF TypeInv, Enqueued
  <2> QED  BY <1>1, <2>1, <2>2, RewriteKnown, HandsKeep
<1>5. CASE RecoverStaleJobs
  <2>1. FirstEnqueued' /\ Enqueued' = Enqueued /\ WritesEnqueued'
    BY <1>5, QuietKnown DEF RecoverStaleJobs
  <2>2. Lapsed \subseteq Enqueued
    BY DEF Lapsed, In, Enqueued
  <2>3. HandsEnqueued'
    BY <1>1, <1>5, <2>1, <2>2 DEF RecoverStaleJobs, HandsEnqueued, TypeInv, RestOK
  <2> QED  BY <2>1, <2>3
<1> QED  BY <1>2, <1>3, <1>4, <1>5 DEF Api

LEMMA KnownBlock ==
  ASSUME TypeInv, KnownInv, NEW p \in Procs, Block(p)
  PROVE  KnownInv'
<1> USE DEF KnownInv
<1>1. CASE Store(p)
  <2>1. /\ update[p].phase = "write" /\ update[p].id \in Enqueued /\ update[p].row.status # "absent"
        /\ jobs' = [jobs EXCEPT ![update[p].id] = update[p].row]
    BY <1>1 DEF Store, WritesEnqueued
  <2>2. \A j \in Jobs : jobs'[j].status = "absent" <=> jobs[j].status = "absent"
    BY <2>1 DEF Enqueued, TypeInv, TableOK
  <2>3. FirstEnqueued' /\ Enqueued' = Enqueued
    BY <2>2, SameEnqueued
  <2>4. WritesEnqueued'
    <3>1. \A q \in Procs \ {p} : update'[q] = update[q]
      BY <1>1 DEF Store, TypeInv, TableOK
    <3>2. update'[p] \in {[phase |-> "log", id |-> update[p].id], NoUpdate}
      BY <1>1 DEF Store, TypeInv, TableOK
    <3> QED  BY <2>1, <2>3, <3>1, <3>2 DEF WritesEnqueued, NoUpdate
  <2>5. HandsEnqueued'
    BY <1>1, <2>3, HandsKeep DEF Store
  <2> QED  BY <2>3, <2>4, <2>5
<1>2. CASE Append(p)
  <2>1. /\ update[p].id \in Enqueued /\ jobs[update[p].id].status # "absent"
        /\ UNCHANGED <<jobs, at, job, stale, strays, batch>>
    BY <1>2 DEF Append, WritesEnqueued, Enqueued
  <2> QED  BY <1>2, <2>1, AppendWrites, RewriteKnown, HandsKeep
<1>3. CASE RecoverJob(p)
  <2>1. PICK j \in stale[p] :
          /\ stale' = [stale EXCEPT ![p] = @ \ {j}]
          /\ j \in Jobs /\ jobs[j] \in Row /\ RetryOrFail(jobs[j]) \in Row
          /\ Rewrites(p, j, RetryOrFail(jobs[j]))
    BY <1>3, RecoverWrites
  <2>2. j \in Enqueued /\ RetryOrFail(jobs[j]).status # "absent"
    BY <2>1, RetryOrFailType DEF HandsEnqueued
  <2>3. FirstEnqueued' /\ Enqueued' = Enqueued /\ WritesEnqueued'
    BY <1>3, <2>1, <2>2, RewriteKnown DEF RecoverJob
  <2>4. HandsEnqueued'
    BY <1>3, <2>1, <2>3 DEF RecoverJob, HandsEnqueued, TypeInv, RestOK
  <2> QED  BY <2>3, <2>4
<1> QED  BY <1>1, <1>2, <1>3 DEF Block

LEMMA KnownLoop ==
  ASSUME TypeInv, KnownInv, NEW p \in Procs, Loop(p)
  PROVE  KnownInv'
<1> USE DEF KnownInv
<1>1. CASE WorkerCycle(p)
  <2>1. FirstEnqueued' /\ Enqueued' = Enqueued /\ WritesEnqueued'
    BY <1>1, QuietKnown DEF WorkerCycle
  <2>2. Lapsed \subseteq Enqueued
    BY DEF Lapsed, In, Enqueued
  <2>3. HandsEnqueued'
    BY <1>1, <2>1, <2>2 DEF WorkerCycle, HandsEnqueued, AtJob, TypeInv, RestOK, LoopsOK
  <2> QED  BY <2>1, <2>3
<1>2. CASE p = Server /\ TimerFires
  <2>1. FirstEnqueued' /\ Enqueued' = Enqueued /\ WritesEnqueued'
    BY <1>2, QuietKnown DEF TimerFires
  <2>2. HandsEnqueued'
    BY <1>2, <2>1 DEF TimerFires, HandsEnqueued, AtJob, TypeInv, LoopsOK
  <2> QED  BY <2>1, <2>2
<1>3. CASE ListEligible(p)
  <2>1. FirstEnqueued' /\ Enqueued' = Enqueued /\ WritesEnqueued'
    BY <1>3, QuietKnown DEF ListEligible
  <2>2. \A b \in batch'[p] : b.id \in Enqueued
    <3>1. batch'[p] = {[id |-> j, retry |-> jobs[j].status = "scheduled_retry"] : j \in Eligible}
      BY <1>3, Zenon DEF ListEligible, TypeInv, RestOK
    <3>2. ASSUME NEW b \in batch'[p]
          PROVE  b.id \in Eligible
      <4>1. PICK j \in Eligible : b = [id |-> j, retry |-> jobs[j].status = "scheduled_retry"]
        BY <3>1, <3>2, Zenon
      <4> QED  BY <4>1, Zenon
    <3>3. Eligible \subseteq Enqueued
      BY DEF Eligible, Pending, In, Enqueued
    <3> QED  BY <3>2, <3>3
  <2>3. \A q \in Procs \ {p} : batch'[q] = batch[q]
    BY <1>3, Zenon DEF ListEligible, TypeInv, RestOK
  <2>4. /\ at'[p] = "batch" /\ \A q \in Procs \ {p} : at'[q] = at[q]
        /\ UNCHANGED <<job, stale, strays>>
    BY <1>3 DEF ListEligible, TypeInv, LoopsOK
  <2>5. HandsEnqueued'
    BY <2>1, <2>2, <2>3, <2>4 DEF HandsEnqueued, AtJob
  <2> QED  BY <2>1, <2>5
<1>4. CASE TakeNext(p)
  <2>1. PICK b \in batch[p] :
          /\ batch' = [batch EXCEPT ![p] = @ \ {b}]
          /\ job' = [job EXCEPT ![p] = b.id]
          /\ b.id \in Jobs
          /\ \/ UNCHANGED update
             \/ \E row \in Row : Rewrites(p, b.id, row) /\ row.status = "queued"
    BY <1>4, TakeWrites
  <2>2. b.id \in Enqueued
    BY DEF HandsEnqueued
  <2>3. FirstEnqueued' /\ Enqueued' = Enqueued /\ WritesEnqueued'
    BY <1>4, <2>1, <2>2, QuietKnown, RewriteKnown DEF TakeNext
  <2>4. /\ at'[p] = "check" /\ job'[p] = b.id /\ batch'[p] \subseteq batch[p]
        /\ \A q \in Procs \ {p} : at'[q] = at[q] /\ job'[q] = job[q] /\ batch'[q] = batch[q]
        /\ UNCHANGED <<stale, strays>>
    BY <1>4, <2>1 DEF TakeNext, TypeInv, LoopsOK, RestOK
  <2>5. HandsEnqueued'
    BY <2>2, <2>3, <2>4 DEF HandsEnqueued
  <2> QED  BY <2>3, <2>5
<1>5. CASE Check(p)
  <2>1. job[p] \in Enqueued /\ UNCHANGED <<jobs, batch, stale, strays>>
    BY <1>5 DEF Check, HandsEnqueued, AtJob
  <2>2. FirstEnqueued' /\ Enqueued' = Enqueued /\ WritesEnqueued'
    BY <1>5, <2>1, CheckWrites, QuietKnown, RewriteKnown
  <2>3. /\ at'[p] \in {"batch", "mark"} /\ \A q \in Procs \ {p} : at'[q] = at[q] /\ job'[q] = job[q]
        /\ at'[p] = "mark" => job'[p] = job[p]
    BY <1>5, CheckWrites DEF TypeInv, LoopsOK
  <2>4. HandsEnqueued'
    BY <2>1, <2>2, <2>3 DEF HandsEnqueued, AtJob
  <2> QED  BY <2>2, <2>4
<1>6. CASE Mark(p)
  <2>1. job[p] \in Enqueued /\ UNCHANGED <<jobs, job, batch, stale, strays>>
    BY <1>6 DEF Mark, HandsEnqueued, AtJob
  <2>2. FirstEnqueued' /\ Enqueued' = Enqueued /\ WritesEnqueued'
    BY <1>6, <2>1, MarkWrites, MarkedType, RewriteKnown
  <2>3. \A q \in Procs : at'[q] \in AtJob => at[q] \in AtJob
    BY <1>6 DEF Mark, AtJob, TypeInv, LoopsOK
  <2>4. HandsEnqueued'
    BY <2>1, <2>2, <2>3 DEF HandsEnqueued
  <2> QED  BY <2>2, <2>4
<1>7. CASE Invoke(p)
  <2>1. FirstEnqueued' /\ Enqueued' = Enqueued /\ WritesEnqueued'
    BY <1>7, QuietKnown DEF Invoke
  <2>2. \A q \in Procs : at'[q] \in AtJob => at[q] \in AtJob
    BY <1>7 DEF Invoke, AtJob, TypeInv, LoopsOK
  <2>3. HandsEnqueued'
    BY <1>7, <2>1, <2>2 DEF Invoke, HandsEnqueued
  <2> QED  BY <2>1, <2>3
<1>8. ASSUME EndRun(p), strays'[p] \subseteq strays[p] \cup {job[p]},
             \A q \in Procs \ {p} : strays'[q] = strays[q],
             NEW row \in Row, Rewrites(p, job[p], row), row.status # "absent"
      PROVE  KnownInv'
  <2>1. job[p] \in Enqueued /\ UNCHANGED <<jobs, job, batch, stale>>
    BY <1>8 DEF EndRun, HandsEnqueued, AtJob
  <2>2. FirstEnqueued' /\ Enqueued' = Enqueued /\ WritesEnqueued'
    BY <1>8, <2>1, RewriteKnown
  <2>3. \A q \in Procs : at'[q] \in AtJob => at[q] \in AtJob
    BY <1>8 DEF EndRun, AtJob, TypeInv, LoopsOK
  <2>4. HandsEnqueued'
    BY <1>8, <2>1, <2>2, <2>3 DEF HandsEnqueued
  <2> QED  BY <2>2, <2>4
<1>9. CASE Complete(p)
  BY <1>8, <1>9, CompleteWrites DEF Complete
<1>10. ASSUME NEW timedOut \in BOOLEAN, Fail(p, timedOut)
       PROVE  KnownInv'
  <2>1. /\ strays'[p] \subseteq strays[p] \cup {job[p]}
        /\ \A q \in Procs \ {p} : strays'[q] = strays[q]
    BY <1>10 DEF Fail, TypeInv, RestOK
  <2>2. EndRun(p)
    BY <1>10 DEF Fail
  <2> QED  BY <1>8, <1>10, <2>1, <2>2, FailWrites, RetryOrFailType
<1>11. CASE Settled(p) \/ LoopEnds(p)
  <2>1. UNCHANGED <<jobs, update, stale, strays, batch>>
    BY <1>11 DEF Settled, LoopEnds
  <2>2. FirstEnqueued' /\ Enqueued' = Enqueued /\ WritesEnqueued'
    BY <2>1, QuietKnown
  <2>3. \A q \in Procs : at'[q] \in AtJob => at[q] \in AtJob /\ job'[q] = job[q]
    BY <1>11 DEF Settled, LoopEnds, AtJob, TypeInv, LoopsOK
  <2>4. HandsEnqueued'
    BY <2>1, <2>2, <2>3 DEF HandsEnqueued
  <2> QED  BY <2>2, <2>4
<1> QED  BY <1>1, <1>2, <1>3, <1>4, <1>5, <1>6, <1>7, <1>9, <1>10, <1>11 DEF Loop

LEMMA KnownNext ==
  ASSUME TypeInv, KnownInv, [Next]_vars
  PROVE  KnownInv'
<1> USE DEF KnownInv
<1>1. ASSUME NEW p \in Procs, NEW j \in Jobs, NEW log \in BOOLEAN, Heartbeat(p, j, log)
      PROVE  KnownInv'
  <2>1. j \in Enqueued /\ UNCHANGED <<jobs, at, job, stale, strays, batch>>
    BY <1>1 DEF Heartbeat, HandsEnqueued, AtJob
  <2>2. Renewed(jobs[j]).status # "absent" /\ Renewed(jobs[j]) \in Row
        /\ Rewrites(p, j, Renewed(jobs[j]))
    BY <1>1, <2>1, BeatWrites, RenewedType DEF Enqueued
  <2> QED  BY <2>1, <2>2, RewriteKnown, HandsKeep
<1>2. ASSUME NEW p \in Procs, NEW j \in Jobs, StrayEnds(p, j)
      PROVE  KnownInv'
  <2>1. FirstEnqueued' /\ Enqueued' = Enqueued /\ WritesEnqueued'
    BY <1>2, QuietKnown DEF StrayEnds
  <2>2. HandsEnqueued'
    BY <1>2, <2>1 DEF StrayEnds, HandsEnqueued, TypeInv, RestOK
  <2> QED  BY <2>1, <2>2
<1>3. ASSUME NEW j \in Jobs, RetryWindowOpens(j)
      PROVE  KnownInv'
  <2>1. \A i \in Jobs : jobs'[i].status = jobs[i].status
    BY <1>3 DEF RetryWindowOpens, TypeInv, TableOK, Row
  <2>2. FirstEnqueued' /\ Enqueued' = Enqueued
    BY <2>1, SameEnqueued
  <2>3. WritesEnqueued'
    BY <1>3, <2>2, WindowWrites DEF WritesEnqueued, TypeInv
  <2> QED  BY <1>3, <2>2, <2>3, HandsKeep DEF RetryWindowOpens
<1>4. ASSUME NEW j \in Jobs, LeaseExpires(j)
      PROVE  KnownInv'
  <2>1. \A i \in Jobs : jobs'[i].status = jobs[i].status
    BY <1>4 DEF LeaseExpires, TypeInv, TableOK, Row
  <2>2. FirstEnqueued' /\ Enqueued' = Enqueued
    BY <2>1, SameEnqueued
  <2> QED  BY <1>4, <2>2, HandsKeep DEF LeaseExpires, WritesEnqueued
<1>5. ASSUME NEW p \in Procs, Crash(p)
      PROVE  KnownInv'
  <2>1. /\ update'[p] = NoUpdate /\ at'[p] = "idle" /\ batch'[p] = {} /\ stale'[p] = {}
        /\ strays'[p] = {}
    BY <1>5 DEF Crash, TypeInv, TableOK, LoopsOK, RestOK
  <2>2. \A q \in Procs \ {p} :
           /\ update'[q] = update[q] /\ at'[q] = at[q] /\ job'[q] = job[q]
           /\ batch'[q] = batch[q] /\ stale'[q] = stale[q] /\ strays'[q] = strays[q]
    BY <1>5 DEF Crash, TypeInv, TableOK, LoopsOK, RestOK
  <2>3. FirstEnqueued' /\ Enqueued' = Enqueued
    BY <1>5, SameEnqueued DEF Crash
  <2>4. WritesEnqueued' /\ HandsEnqueued'
    BY <2>1, <2>2, <2>3 DEF WritesEnqueued, HandsEnqueued, NoUpdate, AtJob
  <2> QED  BY <2>3, <2>4
<1>6. ASSUME UNCHANGED vars
      PROVE  KnownInv'
  BY <1>6, QuietKnown, HandsKeep DEF vars
<1> QED  BY <1>1, <1>2, <1>3, <1>4, <1>5, <1>6, KnownApi, KnownBlock, KnownLoop DEF Next, Clock

-----------------------------------------------------------------------------
(* In process: the changes under way. *)

LEMMA RewriteLife ==
  ASSUME TypeInv, LifeInv, NEW j \in Jobs, NEW row \in Row, Rewrites(Server, j, row),
         UNCHANGED jobs, update[Server].phase # "write",
         Allowed(jobs[j].status, row.status),
         at'[Server] \notin {"start", "settle"},
         at'[Server] = "run" => at[Server] = "run" /\ job'[Server] = job[Server],
         stale'[Server] \subseteq stale[Server] \ {j}
  PROVE  LifeInv'
<1>1. PICK u \in Updates : /\ u.phase = "write" /\ u.id = j /\ u.row = row
                           /\ update' = [update EXCEPT ![Server] = u]
  BY DEF Rewrites
<1>2. update'[Server] = u
  BY <1>1 DEF TypeInv, TableOK, Procs
<1>3. ChangeInv'
  BY <1>1, <1>2 DEF ChangeInv, Logging, Writing, Allowed
<1>4. Coming = jobs /\ Coming' = [jobs EXCEPT ![j] = row] /\ jobs \in [Jobs -> Row]
  BY ComingRewrite DEF TypeInv, TableOK
<1>5. Server \in Procs /\ stale[Server] \subseteq Jobs
  BY DEF Procs, TypeInv, RestOK
<1>6. OpenInv'
  <2>1. ASSUME at'[Server] \in {"start", "run"}
        PROVE  Coming'[job'[Server]].status # "completed"
    <3>1. at[Server] = "run" /\ job'[Server] = job[Server] /\ job[Server] \in Jobs
      BY <1>5, <2>1, HeldRow DEF AtJob
    <3>2. jobs[job[Server]].status # "completed"
      BY <1>4, <3>1 DEF LifeInv, OpenInv
    <3> QED  BY <1>4, <3>1, <3>2 DEF Allowed, Waiting
  <2>2. \A i \in stale'[Server] : Coming'[i].status = "running"
    BY <1>4, <1>5 DEF LifeInv, OpenInv
  <2> QED  BY <2>1, <2>2 DEF OpenInv
<1> QED  BY <1>3, <1>6 DEF LifeInv

LEMMA QuietLife ==
  ASSUME LifeInv, UNCHANGED <<jobs, update>>, update[Server].phase # "write",
         at'[Server] \in {"start", "run"} => at[Server] \in {"start", "run"} /\ job'[Server] = job[Server],
         \A j \in stale'[Server] : j \in stale[Server] \/ Coming[j].status = "running"
  PROVE  LifeInv'
<1>1. Coming' = Coming
  BY DEF Coming
<1>2. ChangeInv'
  BY DEF ChangeInv, Logging, Writing
<1>3. OpenInv'
  BY <1>1 DEF LifeInv, OpenInv
<1> QED  BY <1>2, <1>3 DEF LifeInv

LEMMA SameLife ==
  ASSUME TypeInv, LifeInv,
         \A j \in Jobs : jobs'[j].status = jobs[j].status /\ Coming'[j].status = Coming[j].status,
         UNCHANGED <<at, job, stale, succeeded>>,
         /\ update'[Server].phase = update[Server].phase
         /\ Writing => /\ update'[Server].id = update[Server].id
                       /\ update'[Server].log = update[Server].log
                       /\ update'[Server].row.status = update[Server].row.status
  PROVE  LifeInv'
<1>1. Server \in Procs
  BY DEF Procs
<1>2. at[Server] \in AtJob => job[Server] \in Jobs
  BY <1>1, HeldRow
<1>3. Writing => update[Server].id \in Jobs
  BY <1>1, UpdateShape DEF Writing, TypeInv
<1>4. Writing' = Writing /\ Logging' = Logging
  BY DEF Writing, Logging
<1>5. ChangeInv'
  <2>1. ASSUME Logging, at[Server] = "start"
        PROVE  /\ update'[Server].id = job[Server] /\ update'[Server].row.status = "running"
               /\ jobs'[job[Server]].status = "queued"
    BY <1>2, <2>1 DEF LifeInv, ChangeInv, Logging, AtJob
  <2>2. ASSUME Logging, at[Server] = "settle"
        PROVE  /\ update'[Server].id = job[Server]
               /\ \/ update'[Server].row.status = "completed" /\ job[Server] \in succeeded
                  \/ /\ update'[Server].row.status \in {"scheduled_retry", "failed"}
                     /\ jobs'[job[Server]].status # "completed"
    BY <1>2, <2>2 DEF LifeInv, ChangeInv, Logging, AtJob
  <2>3. ASSUME Writing, ~(Logging /\ at[Server] \in {"start", "settle"})
        PROVE  Allowed(jobs[update[Server].id].status, update[Server].row.status)
    BY <2>3 DEF LifeInv, ChangeInv
  <2>4. Writing => jobs'[update'[Server].id].status = jobs[update[Server].id].status
    BY <1>3
  <2> QED  BY <1>4, <2>1, <2>2, <2>3, <2>4 DEF ChangeInv, Allowed, Writing
<1>6. OpenInv'
  <2>1. stale[Server] \subseteq Jobs
    BY <1>1 DEF TypeInv, RestOK
  <2> QED  BY <1>2, <2>1 DEF LifeInv, OpenInv, AtJob
<1> QED  BY <1>5, <1>6 DEF LifeInv

LEMMA LifeApi ==
  ASSUME TypeInv, ServerInv, LifeInv, InProcess, Api
  PROVE  LifeInv'
<1>1. Server \in Procs
  BY DEF Procs
<1>2. ASSUME Awaiting(Server)
      PROVE  /\ Coming = jobs /\ update[Server].phase # "write" /\ stale[Server] = {}
             /\ at[Server] \notin {"start", "settle"}
  BY <1>2, FreeIsTable DEF Awaiting, Free
<1>3. ASSUME NEW j \in Jobs, NEW sound \in BOOLEAN, EnqueueJob(j, sound)
      PROVE  LifeInv'
  <2>1. /\ Awaiting(Server) /\ UNCHANGED <<update, stale, at, job, succeeded>>
        /\ \A i \in Jobs : jobs'[i] = jobs[i] \/ jobs'[i].status = "queued"
    BY <1>3 DEF EnqueueJob, Absent, TypeInv, TableOK
  <2>2. ~Writing' /\ stale'[Server] = {}
    BY <1>2, <2>1 DEF Writing
  <2>3. \A i \in Jobs : Coming'[i] = jobs'[i]
    BY <2>2 DEF Coming, Writing
  <2>4. at[Server] \in AtJob => job[Server] \in Jobs
    BY <1>1, HeldRow
  <2> QED  BY <1>2, <2>1, <2>2, <2>3, <2>4 DEF LifeInv, ChangeInv, OpenInv, Logging, AtJob
<1>4. ASSUME NEW j \in Jobs, CancelJob(j)
      PROVE  LifeInv'
  <2>1. Awaiting(Server) /\ UNCHANGED <<jobs, at, job, stale>>
    BY <1>4 DEF CancelJob, Call
  <2>2. PICK row \in Row : Rewrites(Server, j, row) /\ Allowed(jobs[j].status, row.status)
    BY <1>4, CancelWrites DEF TypeInv, Allowed, Pending, In, Waiting
  <2> QED  BY <1>2, <2>1, <2>2, RewriteLife
<1>5. ASSUME NEW j \in Jobs, RetryJob(j)
      PROVE  LifeInv'
  <2>1. Awaiting(Server) /\ UNCHANGED <<jobs, at, job, stale>>
    BY <1>5 DEF RetryJob, Call
  <2>2. PICK row \in Row : Rewrites(Server, j, row) /\ Allowed(jobs[j].status, row.status)
    BY <1>5, RetryWrites DEF TypeInv, Allowed
  <2> QED  BY <1>2, <2>1, <2>2, RewriteLife
<1>6. CASE RecoverStaleJobs
  <2>1. /\ Awaiting(Server) /\ UNCHANGED <<jobs, update, at, job>>
        /\ stale'[Server] = Lapsed
    BY <1>1, <1>6 DEF RecoverStaleJobs, Call, TypeInv, RestOK
  <2>2. \A j \in Lapsed : jobs[j].status = "running"
    BY DEF Lapsed, In
  <2> QED  BY <1>2, <2>1, <2>2, QuietLife
<1> QED  BY <1>3, <1>4, <1>5, <1>6 DEF Api

LEMMA LifeBlock ==
  ASSUME TypeInv, ServerInv, LifeInv, InProcess, Block(Server)
  PROVE  LifeInv'
<1>1. Server \in Procs
  BY DEF Procs
<1>2. at[Server] \in AtJob => job[Server] \in Jobs
  BY <1>1, HeldRow
<1>3. stale[Server] \subseteq Jobs
  BY <1>1 DEF TypeInv, RestOK
<1>4. CASE Store(Server)
  <2>1. /\ update[Server].phase = "write" /\ update[Server].id \in Jobs
        /\ jobs' = [jobs EXCEPT ![update[Server].id] = update[Server].row]
        /\ jobs \in [Jobs -> Row] /\ UNCHANGED <<stale, at, job>>
    BY <1>1, <1>4, UpdateShape DEF Store, TypeInv, TableOK
  <2>2. ~Writing'
    BY <1>1, <1>4 DEF Store, Writing, NoUpdate, TypeInv, TableOK
  <2>3. \A j \in Jobs : Coming'[j] = Coming[j]
    BY <2>1, <2>2 DEF Coming, Writing
  <2> QED  BY <1>2, <1>3, <2>1, <2>2, <2>3 DEF LifeInv, ChangeInv, OpenInv, Logging, AtJob
<1>5. CASE Append(Server)
  <2>1. /\ update[Server].phase = "log" /\ update[Server].id \in Jobs
        /\ update'[Server] = [phase |-> "write", id |-> update[Server].id,
                              row |-> jobs[update[Server].id], log |-> FALSE]
        /\ UNCHANGED <<jobs, at, job, stale>>
    BY <1>1, <1>5, AppendWrites DEF Append, Rewrite, TypeInv, TableOK
  <2>2. \A j \in Jobs : Coming'[j] = Coming[j]
    BY <2>1 DEF Coming
  <2>3. ChangeInv'
    BY <2>1 DEF ChangeInv, Logging, Writing, Allowed
  <2>4. OpenInv'
    BY <1>2, <1>3, <2>1, <2>2 DEF LifeInv, OpenInv, AtJob
  <2> QED  BY <2>3, <2>4 DEF LifeInv
<1>6. CASE RecoverJob(Server)
  <2>1. PICK j \in stale[Server] :
          /\ stale' = [stale EXCEPT ![Server] = @ \ {j}]
          /\ j \in Jobs /\ jobs[j] \in Row /\ RetryOrFail(jobs[j]) \in Row
          /\ Rewrites(Server, j, RetryOrFail(jobs[j]))
    BY <1>1, <1>6, RecoverWrites
  <2>2. update[Server].phase # "write" /\ UNCHANGED <<jobs, at, job>>
    BY <1>6 DEF RecoverJob, NoUpdate
  <2>3. jobs[j].status = "running"
    BY <2>1, <2>2, ComingIsTable DEF LifeInv, OpenInv
  <2>4. Allowed(jobs[j].status, RetryOrFail(jobs[j]).status)
    BY <2>1, <2>3, RetryOrFailType DEF Allowed
  <2>5. at[Server] \in {"idle", "batch", "run"}
    BY <2>1 DEF ServerInv, PlaceInv
  <2>6. stale'[Server] = stale[Server] \ {j}
    BY <1>1, <2>1 DEF TypeInv, RestOK
  <2> QED  BY <2>1, <2>2, <2>4, <2>5, <2>6, RewriteLife
<1> QED  BY <1>4, <1>5, <1>6 DEF Block

LEMMA LifeLoop ==
  ASSUME TypeInv, ServerInv, LifeInv, InProcess, Loop(Server)
  PROVE  LifeInv'
<1>1. Server \in Procs
  BY DEF Procs
<1>2. ASSUME Free(Server)
      PROVE  Coming = jobs /\ update[Server].phase # "write" /\ stale[Server] = {}
  BY <1>2, FreeIsTable DEF Free
<1>3. CASE TimerFires \/ ListEligible(Server) \/ Invoke(Server) \/ Settled(Server) \/ LoopEnds(Server)
  <2>1. Free(Server) /\ UNCHANGED <<jobs, update, stale>>
    BY <1>3 DEF TimerFires, ListEligible, Invoke, Settled, LoopEnds, Awaiting
  <2>2. at'[Server] \in {"start", "run"} =>
            at[Server] \in {"start", "run"} /\ job'[Server] = job[Server]
    BY <1>1, <1>3 DEF TimerFires, ListEligible, Invoke, Settled, LoopEnds, TypeInv, LoopsOK
  <2> QED  BY <1>2, <2>1, <2>2, QuietLife
<1>4. CASE TakeNext(Server)
  <2>1. Free(Server) /\ UNCHANGED <<jobs, stale>> /\ at'[Server] = "check"
    BY <1>1, <1>4 DEF TakeNext, Awaiting, TypeInv, LoopsOK
  <2>2. PICK b \in batch[Server] :
          /\ b.id \in Jobs
          /\ \/ UNCHANGED update
             \/ \E row \in Row : Rewrites(Server, b.id, row) /\ row.status = "queued"
    BY <1>1, <1>4, TakeWrites
  <2>3. Allowed(jobs[b.id].status, "queued")
    BY <1>2, <2>1, <2>2 DEF ServerInv, BatchInv, Allowed
  <2> QED  BY <1>2, <2>1, <2>2, <2>3, QuietLife, RewriteLife
<1>5. CASE Check(Server)
  <2>1. Free(Server) /\ UNCHANGED <<jobs, stale>> /\ at[Server] = "check"
    BY <1>5 DEF Check
  <2>2. at'[Server] \in {"batch", "mark"}
    BY <1>1, <1>5, CheckWrites DEF TypeInv, LoopsOK
  <2>3. jobs[job[Server]].status \in {"queued", "canceled"}
    BY <1>2, <2>1 DEF ServerInv, PlaceInv
  <2>4. ASSUME UNCHANGED update
        PROVE  LifeInv'
    BY <1>2, <2>1, <2>2, <2>4, QuietLife
  <2>5. ASSUME ~UNCHANGED update
        PROVE  LifeInv'
    <3>1. Rewrite(Server, job[Server], To(jobs[job[Server]], "failed"), TRUE)
          /\ jobs[job[Server]].status # "canceled"
      BY <1>5, <2>5 DEF Check, MayRun
    <3>2. job[Server] \in Jobs /\ To(jobs[job[Server]], "failed") \in Row
          /\ To(jobs[job[Server]], "failed").status = "failed"
      BY <1>1, <1>5, CheckWrites, ToType DEF Statuses
    <3>3. Rewrites(Server, job[Server], To(jobs[job[Server]], "failed"))
      BY <1>1, <3>1, <3>2, RewriteType
    <3>4. Allowed(jobs[job[Server]].status, "failed")
      BY <2>3, <3>1 DEF Allowed
    <3> QED  BY <1>2, <2>1, <2>2, <3>2, <3>3, <3>4, RewriteLife
  <2> QED  BY <2>4, <2>5
<1>6. CASE Mark(Server)
  <2>1. /\ Free(Server) /\ at[Server] = "mark" /\ at'[Server] = "start" /\ UNCHANGED <<jobs, job, stale>>
        /\ job[Server] \in Jobs /\ jobs[job[Server]] \in Row
        /\ Rewrite(Server, job[Server], Marked(jobs[job[Server]]), TRUE)
        /\ Rewrites(Server, job[Server], Marked(jobs[job[Server]]))
    BY <1>1, <1>6, MarkWrites DEF Mark, Marked, TypeInv, LoopsOK
  <2>2. PICK row \in Row : row = Marked(jobs[job[Server]]) /\ row.status = "running"
    BY <2>1, MarkedType
  <2>3. /\ update'[Server].phase = "write" /\ update'[Server].id = job[Server]
        /\ update'[Server].row = row /\ update'[Server].log
    BY <1>1, <2>1, <2>2 DEF Rewrite, TypeInv, TableOK
  <2>4. Coming' = [jobs EXCEPT ![job[Server]] = row] /\ jobs \in [Jobs -> Row]
    BY <1>2, <2>1, <2>2, ComingRewrite DEF TypeInv, TableOK
  <2>5. jobs[job[Server]].status = "queued"
    BY <1>2, <2>1 DEF ServerInv, PlaceInv
  <2>6. ChangeInv'
    BY <2>1, <2>2, <2>3, <2>5 DEF ChangeInv, Logging, Writing
  <2>7. OpenInv'
    BY <1>2, <2>1, <2>2, <2>4 DEF OpenInv
  <2> QED  BY <2>6, <2>7 DEF LifeInv
<1>7. CASE Complete(Server) \/ \E timedOut \in BOOLEAN : Fail(Server, timedOut)
  <2>1. /\ Free(Server) /\ at[Server] = "run" /\ at'[Server] = "settle" /\ UNCHANGED <<jobs, job, stale>>
        /\ job[Server] \in Jobs /\ jobs[job[Server]] \in Row
    BY <1>1, <1>7, HeldRow DEF Complete, Fail, EndRun, Awaiting, AtJob, TypeInv, LoopsOK
  <2>2. jobs[job[Server]].status # "completed"
    BY <1>2, <2>1 DEF LifeInv, OpenInv
  <2>3. PICK row \in Row :
          /\ Rewrite(Server, job[Server], row, TRUE)
          /\ \/ row.status = "completed" /\ job[Server] \in succeeded'
             \/ row.status \in {"scheduled_retry", "failed"}
    <3>1. CASE Complete(Server)
      BY <2>1, <3>1, ToType DEF Complete, Statuses
    <3>2. CASE \E timedOut \in BOOLEAN : Fail(Server, timedOut)
      BY <2>1, <3>2, RetryOrFailType DEF Fail
    <3> QED  BY <1>7, <3>1, <3>2
  <2>4. /\ update'[Server].phase = "write" /\ update'[Server].id = job[Server]
        /\ update'[Server].row = row /\ update'[Server].log
    BY <1>1, <2>3 DEF Rewrite, TypeInv, TableOK
  <2>5. ChangeInv'
    BY <2>1, <2>2, <2>3, <2>4 DEF ChangeInv, Logging, Writing
  <2>6. OpenInv'
    BY <1>2, <2>1 DEF OpenInv
  <2> QED  BY <2>5, <2>6 DEF LifeInv
<1>8. ~WorkerCycle(Server)
  BY DEF WorkerCycle, InProcess
<1> QED  BY <1>3, <1>4, <1>5, <1>6, <1>7, <1>8 DEF Loop

LEMMA LifeStays ==
  ASSUME TypeInv, ServerInv, LifeInv, InProcess, [Next]_vars
  PROVE  LifeInv'
<1>1. Server \in Procs
  BY DEF Procs
<1>2. OthersIdle
  BY DEF ServerInv
<1>3. ASSUME NEW p \in Procs, Block(p) PROVE LifeInv'
  BY <1>2, <1>3, OnlyServer, LifeBlock
<1>4. ASSUME NEW p \in Procs, Loop(p) PROVE LifeInv'
  BY <1>2, <1>4, OnlyServer, LifeLoop
<1>5. ASSUME NEW p \in Procs, NEW j \in Jobs, NEW log \in BOOLEAN, Heartbeat(p, j, log)
      PROVE  LifeInv'
  <2>1. p = Server
    BY <1>2, <1>5, OnlyServer
  <2>2. /\ Awaiting(Server) /\ UNCHANGED <<jobs, at, job, stale>>
        /\ update[Server].phase # "write" /\ stale[Server] = {}
    BY <1>5, <2>1, FreeIsTable DEF Heartbeat, Awaiting, Free
  <2>3. Rewrites(Server, j, Renewed(jobs[j])) /\ Renewed(jobs[j]) \in Row
        /\ Allowed(jobs[j].status, Renewed(jobs[j]).status)
    BY <1>1, <1>5, <2>1, BeatWrites, RenewedType DEF Allowed
  <2>4. at'[Server] \notin {"start", "settle"}
    BY <2>2 DEF Awaiting
  <2> QED  BY <2>2, <2>3, <2>4, RewriteLife
<1>6. ASSUME NEW p \in Procs, NEW j \in Jobs, StrayEnds(p, j) PROVE LifeInv'
  <2>1. UNCHANGED <<jobs, update, at, job, stale, succeeded>>
    BY <1>6 DEF StrayEnds
  <2>2. Coming' = Coming
    BY <2>1 DEF Coming
  <2> QED  BY <2>1, <2>2, SameLife
<1>7. ASSUME NEW j \in Jobs, RetryWindowOpens(j) PROVE LifeInv'
  <2>1. UNCHANGED <<at, job, stale, succeeded>>
    BY <1>7 DEF RetryWindowOpens
  <2>2. \A i \in Jobs : jobs'[i].status = jobs[i].status
    BY <1>7 DEF RetryWindowOpens, TypeInv, TableOK, Row
  <2>3. /\ update'[Server].phase = update[Server].phase
        /\ Writing => /\ update'[Server].id = update[Server].id
                      /\ update'[Server].log = update[Server].log
                      /\ update'[Server].row.status = update[Server].row.status
    BY <1>1, <1>7, WindowWrites DEF Writing, TypeInv
  <2>4. \A i \in Jobs : Coming'[i].status = Coming[i].status
    BY <2>2, <2>3 DEF Coming, Writing
  <2> QED  BY <2>1, <2>2, <2>3, <2>4, SameLife
<1>8. ASSUME NEW j \in Jobs, LeaseExpires(j) PROVE LifeInv'
  <2>1. UNCHANGED <<update, at, job, stale, succeeded>>
    BY <1>8 DEF LeaseExpires
  <2>2. \A i \in Jobs : jobs'[i].status = jobs[i].status
    BY <1>8 DEF LeaseExpires, TypeInv, TableOK, Row
  <2>3. \A i \in Jobs : Coming'[i].status = Coming[i].status
    BY <2>1, <2>2 DEF Coming
  <2> QED  BY <2>1, <2>2, <2>3, SameLife
<1>9. ASSUME NEW p \in Procs, Crash(p) PROVE LifeInv'
  <2>1. p = Server
    BY <1>2, <1>9, OnlyServer
  <2>2. update'[Server] = NoUpdate /\ stale'[Server] = {} /\ at'[Server] = "idle"
    BY <1>1, <1>9, <2>1 DEF Crash, TypeInv, TableOK, RestOK, LoopsOK
  <2> QED  BY <2>2 DEF LifeInv, ChangeInv, OpenInv, Logging, Writing, NoUpdate
<1>10. ASSUME UNCHANGED vars PROVE LifeInv'
  <2>1. UNCHANGED <<jobs, update, at, job, stale, succeeded>>
    BY <1>10 DEF vars
  <2>2. Coming' = Coming
    BY <2>1 DEF Coming
  <2> QED  BY <2>1, <2>2, SameLife
<1> QED  BY <1>3, <1>4, <1>5, <1>6, <1>7, <1>8, <1>9, <1>10, LifeApi DEF Next, Clock

-----------------------------------------------------------------------------
(* The refinement. *)

Shown == [j \in Jobs |-> jobs[j].status]
Hand == IF InProcess /\ InHand(Server) THEN {job[Server]} ELSE {}
Stands == Shown' = Shown /\ succeeded' = succeeded

LEMMA HandIs ==
  ASSUME InProcess
  PROVE  Hand = IF \/ at[Server] = "run"
                   \/ at[Server] = "start" /\ ~Logging
                   \/ at[Server] = "settle" /\ Logging
                THEN {job[Server]} ELSE {}
BY DEF Hand, InHand, Logging, Writing

(* A step that shows no change, and takes nothing new in hand.              *)
LEMMA NothingShown ==
  ASSUME UNCHANGED workers, Stands, Hand' = Hand \/ Hand' = {}
  PROVE  [Life!LifeNext]_(Life!lifeVars)
<1>1. 1 \in Jobs
  BY JobQueueAssumption DEF Jobs
<1>2. CASE Hand' = Hand
  BY <1>2 DEF Stands, Shown, Hand, InProcess, Life!lifeVars
<1>3. CASE Hand' = {}
  <2>1. Life!Lose
    BY <1>3 DEF Stands, Shown, Hand, InProcess, Life!Lose
  <2> QED  BY <1>1, <2>1 DEF Life!LifeNext
<1> QED  BY <1>2, <1>3

LEMMA StoreShows ==
  ASSUME TypeInv, NEW p \in Procs, Store(p)
  PROVE  /\ update[p].phase = "write" /\ update[p].id \in Jobs
         /\ Shown' = [Shown EXCEPT ![update[p].id] = update[p].row.status]
         /\ UNCHANGED <<workers, at, job, succeeded>>
<1>1. /\ update[p].phase = "write" /\ update[p].id \in Jobs
      /\ jobs' = [jobs EXCEPT ![update[p].id] = update[p].row]
      /\ UNCHANGED <<workers, at, job, succeeded>>
  BY UpdateShape DEF Store, TypeInv
<1> QED  BY <1>1 DEF Shown, TypeInv, TableOK

LEMMA EnqueueAccepts ==
  ASSUME TypeInv, KnownInv, NEW j \in Jobs, NEW sound \in BOOLEAN, EnqueueJob(j, sound)
  PROVE  [Life!LifeNext]_(Life!lifeVars)
<1>1. jobs[j].status = "absent"
  <2>1. \A i \in Jobs : jobs[i].status # "absent" <=> i < j
    BY NextEnqueued DEF EnqueueJob, KnownInv
  <2>2. ~(j < j)
    BY DEF Jobs
  <2> QED  BY <2>1, <2>2
<1>2. Shown' = [Shown EXCEPT ![j] = "queued"] /\ Shown[j] = "absent"
  BY <1>1 DEF EnqueueJob, Absent, Shown, TypeInv, TableOK
<1>3. UNCHANGED <<workers, succeeded>> /\ Hand' = Hand
  BY DEF EnqueueJob, Hand, InHand, InProcess
<1>4. Life!Accept(j)
  BY <1>2, <1>3 DEF Shown, Hand, InProcess, Life!Accept, Life!Move
<1> QED  BY <1>4 DEF Life!LifeNext

(* The steps that store no row and return from no processor.                *)
LEMMA OthersStand ==
  ASSUME TypeInv,
         \/ \E j \in Jobs : CancelJob(j) \/ RetryJob(j) \/ Clock(j)
         \/ RecoverStaleJobs \/ TimerFires \/ UNCHANGED vars
         \/ \E p \in Procs :
               \/ Append(p) \/ RecoverJob(p) \/ WorkerCycle(p) \/ ListEligible(p) \/ TakeNext(p)
               \/ Check(p) \/ Mark(p) \/ Invoke(p) \/ (\E timedOut \in BOOLEAN : Fail(p, timedOut))
               \/ Settled(p) \/ LoopEnds(p) \/ Crash(p)
               \/ \E j \in Jobs : StrayEnds(p, j) \/ \E log \in BOOLEAN : Heartbeat(p, j, log)
  PROVE  Stands
<1>1. succeeded' = succeeded /\ (UNCHANGED jobs \/ \E j \in Jobs : Clock(j))
  <2>1. CASE \/ \E j \in Jobs : CancelJob(j) \/ RetryJob(j) \/ Clock(j)
             \/ RecoverStaleJobs \/ TimerFires \/ UNCHANGED vars
    BY <2>1 DEF CancelJob, RetryJob, Clock, RetryWindowOpens, LeaseExpires, RecoverStaleJobs,
                TimerFires, vars
  <2>2. ASSUME NEW p \in Procs,
               \/ Append(p) \/ RecoverJob(p) \/ WorkerCycle(p) \/ ListEligible(p) \/ TakeNext(p)
               \/ Check(p) \/ Mark(p) \/ Invoke(p)
        PROVE  UNCHANGED <<jobs, succeeded>>
    BY <2>2 DEF Append, RecoverJob, WorkerCycle, ListEligible, TakeNext, Check, Mark, Invoke
  <2>3. ASSUME NEW p \in Procs,
               \/ \E timedOut \in BOOLEAN : Fail(p, timedOut)
               \/ Settled(p) \/ LoopEnds(p) \/ Crash(p)
               \/ \E j \in Jobs : StrayEnds(p, j) \/ \E log \in BOOLEAN : Heartbeat(p, j, log)
        PROVE  UNCHANGED <<jobs, succeeded>>
    BY <2>3 DEF Fail, EndRun, Settled, LoopEnds, Crash, StrayEnds, Heartbeat
  <2> QED  BY <2>1, <2>2, <2>3
<1>2. ASSUME NEW j \in Jobs, Clock(j)
      PROVE  \A i \in Jobs : jobs'[i].status = jobs[i].status
  BY <1>2 DEF Clock, RetryWindowOpens, LeaseExpires, TypeInv, TableOK, Row
<1> QED  BY <1>1, <1>2 DEF Stands, Shown

(* Where workers share the table, a row is overwritten by what was read     *)
(* before, and a processor's return is remembered.                          *)
LEMMA SharedServed ==
  ASSUME TypeInv, CompletedInv, KnownInv, ~InProcess, [Next]_vars
  PROVE  [Life!LifeNext]_(Life!lifeVars)
<1>1. workers' = workers /\ Hand = {} /\ Hand' = {}
  BY WorkersStay DEF Hand, InProcess
<1>2. ASSUME NEW p \in Procs, Store(p)
      PROVE  [Life!LifeNext]_(Life!lifeVars)
  <2>1. PICK j \in Jobs : j = update[p].id
    BY <1>2, StoreShows
  <2>2. PICK to \in Statuses : to = update[p].row.status
    BY <1>2, StoreShows, UpdateShape DEF TypeInv, Row
  <2>3. Shown' = [Shown EXCEPT ![j] = to] /\ succeeded' = succeeded
    BY <1>2, <2>1, <2>2, StoreShows
  <2>4. to # "absent" /\ Shown[j] \in Life!Phases /\ to \in Life!Phases
    BY <1>2, <2>1, <2>2, StoreShows
       DEF KnownInv, WritesEnqueued, Enqueued, Shown, Life!Phases, Life!Live, Statuses,
           TypeInv, TableOK, Row
  <2>5. to = "completed" => j \in succeeded
    BY <1>2, <2>1, <2>2, StoreShows DEF CompletedInv
  <2>6. Life!Overwrite(j)
    BY <1>1, <2>3, <2>4, <2>5
       DEF Shown, Hand, InProcess, Life!Overwrite, Life!Move, Life!Phases, Life!Live
  <2> QED  BY <2>6 DEF Life!LifeNext
<1>3. ASSUME NEW p \in Procs, Complete(p)
      PROVE  [Life!LifeNext]_(Life!lifeVars)
  <2>1. PICK j \in Jobs : j = job[p]
    BY <1>3, CompleteWrites
  <2>2. Life!ReturnShared(j)
    BY <1>1, <1>3, <2>1 DEF Complete, EndRun, Hand, InProcess, Life!ReturnShared
  <2> QED  BY <2>2 DEF Life!LifeNext
<1>4. ASSUME Stands
      PROVE  [Life!LifeNext]_(Life!lifeVars)
  BY <1>1, <1>4, NothingShown
<1> QED  BY <1>2, <1>3, <1>4, EnqueueAccepts, OthersStand DEF Next, Api, Block, Loop

(* In process: what a step makes of the run in hand.                        *)
LEMMA HandGone ==
  ASSUME UNCHANGED workers, at'[Server] \notin {"start", "run", "settle"}
  PROVE  Hand' = {}
BY DEF Hand, InHand, InProcess

LEMMA HandStays ==
  ASSUME UNCHANGED <<workers, at, job>>,
         at[Server] \in {"start", "settle"} => Logging' = Logging
  PROVE  Hand' = Hand
BY DEF Hand, InHand, InProcess, Logging, Writing

LEMMA ServerHand ==
  ASSUME TypeInv, ServerInv, InProcess, UNCHANGED workers,
         \/ \E j \in Jobs : CancelJob(j) \/ RetryJob(j) \/ Clock(j) \/ StrayEnds(Server, j)
                            \/ \E log \in BOOLEAN : Heartbeat(Server, j, log)
         \/ RecoverStaleJobs \/ TimerFires \/ UNCHANGED vars
         \/ Append(Server) \/ RecoverJob(Server) \/ ListEligible(Server) \/ TakeNext(Server)
         \/ Check(Server) \/ Mark(Server) \/ Invoke(Server)
         \/ (\E timedOut \in BOOLEAN : Fail(Server, timedOut))
         \/ Settled(Server) \/ LoopEnds(Server) \/ Crash(Server)
  PROVE  Hand' = Hand \/ Hand' = {}
<1>1. Server \in Procs
  BY DEF Procs
<1>2. CASE \/ \E j \in Jobs : CancelJob(j) \/ RetryJob(j) \/ StrayEnds(Server, j)
                              \/ \E log \in BOOLEAN : Heartbeat(Server, j, log)
           \/ RecoverStaleJobs
  <2>1. UNCHANGED <<at, job>> /\ at[Server] \notin {"start", "settle"}
    BY <1>2 DEF CancelJob, RetryJob, StrayEnds, Heartbeat, RecoverStaleJobs, Call, Awaiting
  <2> QED  BY <2>1, HandStays
<1>3. ASSUME NEW j \in Jobs, Clock(j)
      PROVE  Hand' = Hand
  <2>1. CASE LeaseExpires(j)
    BY <2>1, HandStays DEF LeaseExpires, Logging, Writing
  <2>2. CASE RetryWindowOpens(j)
    <3>1. /\ update'[Server].phase = update[Server].phase
          /\ Writing => update'[Server].log = update[Server].log
      BY <1>1, <2>2, WindowWrites DEF TypeInv, Writing
    <3> QED  BY <2>2, <3>1, HandStays DEF RetryWindowOpens, Logging, Writing
  <2> QED  BY <1>3, <2>1, <2>2 DEF Clock
<1>4. CASE UNCHANGED vars
  BY <1>4, HandStays DEF vars, Logging, Writing
<1>5. CASE Append(Server)
  <2>1. ~Writing /\ ~Logging'
    BY <1>1, <1>5 DEF Append, Rewrite, Logging, Writing, TypeInv, TableOK
  <2> QED  BY <1>5, <2>1, HandStays DEF Append, Logging
<1>6. CASE RecoverJob(Server)
  <2>1. UNCHANGED <<at, job>> /\ at[Server] \notin {"start", "settle"}
    BY <1>6 DEF RecoverJob, ServerInv, PlaceInv
  <2> QED  BY <2>1, HandStays
<1>7. CASE \/ TimerFires \/ ListEligible(Server) \/ TakeNext(Server) \/ Check(Server)
           \/ Settled(Server) \/ LoopEnds(Server) \/ Crash(Server)
  <2>1. at'[Server] \in {"list", "batch", "check", "mark", "idle"}
    BY <1>1, <1>7
       DEF TimerFires, ListEligible, TakeNext, Check, Settled, LoopEnds, Crash, TypeInv, LoopsOK
  <2> QED  BY <2>1, HandGone
<1>8. CASE Mark(Server)
  <2>1. at'[Server] = "start" /\ Logging'
    BY <1>1, <1>8 DEF Mark, Rewrite, Logging, Writing, TypeInv, LoopsOK, TableOK
  <2> QED  BY <2>1 DEF Hand, InHand, InProcess, Logging, Writing
<1>9. CASE Invoke(Server)
  <2>1. /\ at[Server] = "start" /\ at'[Server] = "run" /\ job' = job /\ update' = update
        /\ ~Writing
    BY <1>1, <1>9 DEF Invoke, Free, NoUpdate, Writing, TypeInv, LoopsOK
  <2> QED  BY <2>1 DEF Hand, InHand, InProcess, Logging, Writing
<1>10. ASSUME NEW timedOut \in BOOLEAN, Fail(Server, timedOut)
       PROVE  Hand' = Hand
  <2>1. at[Server] = "run" /\ at'[Server] = "settle" /\ job' = job /\ Logging'
    BY <1>1, <1>10 DEF Fail, EndRun, Rewrite, Logging, Writing, TypeInv, LoopsOK, TableOK
  <2> QED  BY <2>1 DEF Hand, InHand, InProcess, Logging, Writing
<1> QED  BY <1>2, <1>3, <1>4, <1>5, <1>6, <1>7, <1>8, <1>9, <1>10

(* A row is stored: the change of status that was under way.                *)
LEMMA StoreServed ==
  ASSUME TypeInv, KnownInv, ServerInv, LifeInv, InProcess, Store(Server)
  PROVE  [Life!LifeNext]_(Life!lifeVars)
<1>1. Server \in Procs
  BY DEF Procs
<1>2. /\ Writing /\ update[Server].id \in Jobs
      /\ Shown' = [Shown EXCEPT ![update[Server].id] = update[Server].row.status]
      /\ UNCHANGED <<workers, at, job, succeeded>>
  BY <1>1, StoreShows DEF Writing
<1>3. ~Writing' /\ ~Logging'
  BY <1>1 DEF Store, Writing, Logging, NoUpdate, TypeInv, TableOK
<1>4. PICK j \in Jobs : j = update[Server].id
  BY <1>2
<1>5. PICK to \in Statuses : to = update[Server].row.status
  BY <1>1, <1>2, UpdateShape DEF TypeInv, Writing, Row
<1>6. Shown' = [Shown EXCEPT ![j] = to] /\ Shown[j] = jobs[j].status /\ Shown[j] \in Life!Phases
  BY <1>1, <1>2, <1>4, <1>5
     DEF KnownInv, WritesEnqueued, Enqueued, Shown, Writing, Life!Phases, Life!Live, Statuses,
         TypeInv, TableOK, Row
<1>7. CASE Logging /\ at[Server] = "start"
  <2>1. /\ j = job[Server] /\ to = "running" /\ Shown[j] = "queued"
        /\ Hand = {} /\ Hand' = {j}
    BY <1>2, <1>3, <1>4, <1>5, <1>6, <1>7, HandIs
       DEF LifeInv, ChangeInv, Hand, InHand, InProcess, Logging, Writing
  <2>2. Life!Start(j)
    BY <1>2, <1>6, <2>1 DEF Shown, Hand, InProcess, Life!Start, Life!Move
  <2> QED  BY <2>2 DEF Life!LifeNext
<1>8. CASE Logging /\ at[Server] = "settle"
  <2>1. /\ j = job[Server]
        /\ \/ to = "completed" /\ j \in succeeded
           \/ to \in {"scheduled_retry", "failed"} /\ Shown[j] # "completed"
        /\ Hand = {j} /\ Hand' = {}
    BY <1>2, <1>3, <1>4, <1>5, <1>6, <1>8, HandIs
       DEF LifeInv, ChangeInv, Hand, InHand, InProcess, Logging, Writing
  <2>2. CASE to = "completed" /\ j \in succeeded
    <3>1. Life!Show(j)
      BY <1>2, <1>6, <2>1, <2>2 DEF Shown, Hand, InProcess, Life!Show, Life!Move
    <3> QED  BY <3>1 DEF Life!LifeNext
  <2>3. CASE to \in {"scheduled_retry", "failed"} /\ Shown[j] # "completed"
    <3>1. Life!GiveUp(j)
      BY <1>2, <1>6, <2>1, <2>3 DEF Shown, Hand, InProcess, Life!GiveUp, Life!Move
    <3> QED  BY <3>1 DEF Life!LifeNext
  <2> QED  BY <2>1, <2>2, <2>3
<1>9. CASE ~(Logging /\ at[Server] \in {"start", "settle"})
  <2>1. Hand' = Hand /\ Allowed(Shown[j], to)
    <3>1. Hand' = Hand
      BY <1>2, <1>3, <1>9, HandStays DEF Logging
    <3>2. Allowed(jobs[j].status, to)
      BY <1>2, <1>4, <1>5, <1>9 DEF LifeInv, ChangeInv, Allowed
    <3> QED  BY <1>6, <3>1, <3>2 DEF Allowed
  <2>2. CASE to = Shown[j]
    BY <1>2, <1>6, <2>1, <2>2, NothingShown DEF Stands, Shown
  <2>3. CASE Shown[j] \in Waiting /\ to = "canceled"
    <3>1. Life!Cancel(j)
      BY <1>2, <1>6, <2>1, <2>3 DEF Shown, Hand, InProcess, Waiting, Life!Cancel, Life!Move
    <3> QED  BY <3>1 DEF Life!LifeNext
  <2>4. CASE Shown[j] \in {"scheduled_retry", "failed", "canceled"} /\ to = "queued"
    <3>1. Life!Requeue(j)
      BY <1>2, <1>6, <2>1, <2>4 DEF Shown, Hand, InProcess, Life!Requeue, Life!Move
    <3> QED  BY <3>1 DEF Life!LifeNext
  <2>5. CASE Shown[j] = "running" /\ to \in {"scheduled_retry", "failed"}
    <3>1. Life!Recover(j)
      BY <1>2, <1>6, <2>1, <2>5 DEF Shown, Hand, InProcess, Life!Recover, Life!Move
    <3> QED  BY <3>1 DEF Life!LifeNext
  <2>6. CASE Shown[j] = "queued" /\ to = "failed"
    <3>1. Life!Refuse(j)
      BY <1>2, <1>6, <2>1, <2>6 DEF Shown, Hand, InProcess, Life!Refuse, Life!Move
    <3> QED  BY <3>1 DEF Life!LifeNext
  <2> QED  BY <2>1, <2>2, <2>3, <2>4, <2>5, <2>6 DEF Allowed
<1> QED  BY <1>7, <1>8, <1>9

LEMMA ServerServed ==
  ASSUME TypeInv, KnownInv, ServerInv, LifeInv, InProcess, [Next]_vars
  PROVE  [Life!LifeNext]_(Life!lifeVars)
<1>1. Server \in Procs /\ OthersIdle
  BY DEF Procs, ServerInv
<1>2. workers' = workers
  BY WorkersStay
<1>3. ASSUME Stands, Hand' = Hand \/ Hand' = {}
      PROVE  [Life!LifeNext]_(Life!lifeVars)
  BY <1>2, <1>3, NothingShown
<1>4. CASE Api
  BY <1>2, <1>3, <1>4, EnqueueAccepts, OthersStand, ServerHand DEF Api
<1>5. ASSUME NEW p \in Procs, Block(p)
      PROVE  [Life!LifeNext]_(Life!lifeVars)
  <2>1. p = Server
    BY <1>1, <1>5, OnlyServer
  <2> QED  BY <1>2, <1>3, <1>5, <2>1, StoreServed, OthersStand, ServerHand DEF Block
<1>6. CASE Complete(Server)
  <2>1. PICK j \in Jobs : j = job[Server]
    BY <1>1, <1>6, CompleteWrites
  <2>2. at[Server] = "run" /\ at'[Server] = "settle" /\ job' = job /\ Logging'
    BY <1>1, <1>6 DEF Complete, EndRun, Rewrite, Logging, Writing, TypeInv, LoopsOK, TableOK
  <2>3. Hand = {j} /\ Hand' = {j} /\ Shown' = Shown /\ succeeded' = succeeded \cup {j}
    BY <1>2, <1>6, <2>1, <2>2
       DEF Complete, EndRun, Hand, InHand, InProcess, Shown, Logging, Writing
  <2>4. Life!Return(j)
    BY <1>2, <2>3 DEF Shown, Hand, InProcess, Life!Return
  <2> QED  BY <2>4 DEF Life!LifeNext
<1>7. ASSUME NEW p \in Procs, Loop(p)
      PROVE  [Life!LifeNext]_(Life!lifeVars)
  <2>1. p = Server /\ ~WorkerCycle(Server)
    BY <1>1, <1>7, OnlyServer DEF WorkerCycle, InProcess
  <2> QED  BY <1>1, <1>2, <1>3, <1>6, <1>7, <2>1, OthersStand, ServerHand DEF Loop
<1>8. ASSUME NEW p \in Procs,
             \/ Crash(p)
             \/ \E j \in Jobs : StrayEnds(p, j) \/ \E log \in BOOLEAN : Heartbeat(p, j, log)
      PROVE  [Life!LifeNext]_(Life!lifeVars)
  <2>1. p = Server
    BY <1>1, <1>8, OnlyServer
  <2> QED  BY <1>1, <1>2, <1>3, <1>8, <2>1, OthersStand, ServerHand
<1>9. CASE UNCHANGED vars \/ \E j \in Jobs : Clock(j)
  BY <1>2, <1>3, <1>9, OthersStand, ServerHand
<1> QED  BY <1>4, <1>5, <1>7, <1>8, <1>9 DEF Next

(* The invariant of the queue as the refinement needs it.                   *)
LifecycleInv == QueueInv /\ CompletedInv /\ KnownInv /\ (InProcess => LifeInv)

LEMMA LifecycleInit == Init => LifecycleInv /\ Life!LifeInit
<1> SUFFICES ASSUME Init PROVE LifecycleInv /\ Life!LifeInit
  OBVIOUS
<1>1. Server \in Procs
  BY DEF Procs
<1>2. QueueInv
  BY TypeInit, ServerInit DEF QueueInv
<1>3. CompletedInv
  BY DEF Init, CompletedInv, NoUpdate, Absent
<1>4. KnownInv
  <2>1. \A j \in Jobs : jobs[j].status = "absent"
    BY DEF Init, Absent
  <2>2. FirstEnqueued
    <3>1. \A j \in Jobs : ~(j <= 0)
      BY DEF Jobs
    <3> QED  BY <2>1, <3>1 DEF FirstEnqueued
  <2> QED  BY <2>2 DEF Init, KnownInv, WritesEnqueued, HandsEnqueued, NoUpdate, AtJob
<1>5. LifeInv
  BY <1>1 DEF Init, LifeInv, ChangeInv, OpenInv, Logging, Writing, NoUpdate
<1>6. Life!LifeInit
  <2>1. Hand = {}
    BY <1>1 DEF Init, Hand, InHand, NoUpdate
  <2>2. Shown = [j \in Jobs |-> "absent"]
    BY DEF Init, Shown, Absent
  <2>3. InProcess \in BOOLEAN /\ succeeded = {}
    BY DEF Init, InProcess
  <2> QED  BY <2>1, <2>2, <2>3 DEF Shown, Hand, Life!LifeInit
<1> QED  BY <1>2, <1>3, <1>4, <1>5, <1>6 DEF LifecycleInv

(* JobQueue implements JobLifecycle: in process a job starts from the queue *)
(* only, completes only by the end of a run in hand and stays completed;    *)
(* with workers no row reads completed unless a processor returned, however *)
(* the rewrites of the processes overlap (updateJob, runJob).               *)
THEOREM QueueKeepsLifecycle == JobQueueSpec => Lifecycle
<1>1. LifecycleInv /\ [Next]_vars => LifecycleInv' /\ [Life!LifeNext]_(Life!lifeVars)
  <2> SUFFICES ASSUME LifecycleInv, [Next]_vars
               PROVE  LifecycleInv' /\ [Life!LifeNext]_(Life!lifeVars)
    OBVIOUS
  <2>1. TypeInv'
    BY TypeNext DEF LifecycleInv, QueueInv
  <2>2. workers' = workers
    BY WorkersStay
  <2>3. CompletedInv' /\ KnownInv'
    BY CompletedNext, KnownNext DEF LifecycleInv, QueueInv
  <2>4. CASE InProcess
    <3>1. ServerInv'
      BY <2>1, <2>4, ServerNext DEF LifecycleInv, QueueInv
    <3>2. LifeInv'
      BY <2>4, LifeStays DEF LifecycleInv, QueueInv
    <3>3. [Life!LifeNext]_(Life!lifeVars)
      BY <2>4, ServerServed DEF LifecycleInv, QueueInv
    <3> QED  BY <2>1, <2>3, <3>1, <3>2, <3>3 DEF LifecycleInv, QueueInv
  <2>5. CASE ~InProcess
    <3>1. [Life!LifeNext]_(Life!lifeVars)
      BY <2>5, SharedServed DEF LifecycleInv, QueueInv
    <3> QED  BY <2>1, <2>2, <2>3, <2>5, <3>1 DEF LifecycleInv, QueueInv, InProcess
  <2> QED  BY <2>4, <2>5
<1> QED  BY <1>1, LifecycleInit, PTL DEF JobQueueSpec, Lifecycle, Life!LifeSpec
=============================================================================
