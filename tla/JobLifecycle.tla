---------------------------- MODULE JobLifecycle ----------------------------
(***************************************************************************)
(* What the job queue promises of a job, whoever runs it and whatever      *)
(* crashes.  When one process writes the table (`exclusive') a job starts  *)
(* from the queue only, completes only by the end of a run that is in      *)
(* hand, and a completed job stays completed.  When several processes      *)
(* write it, the one promise left is that a job shown as completed has     *)
(* had a processor return.                                                 *)
(***************************************************************************)
EXTENDS Naturals

CONSTANT Jobs

VARIABLES
    exclusive,  \* one process writes the table
    phase,      \* the status a job is shown in
    inHand,     \* the jobs a run of which has been begun and has not ended
    succeeded   \* the jobs a processor of which has returned

lifeVars == <<exclusive, phase, inHand, succeeded>>

Live == {"queued", "running", "scheduled_retry"}
Phases == Live \cup {"completed", "failed", "canceled"}

LifeInit ==
    /\ exclusive \in BOOLEAN
    /\ phase = [j \in Jobs |-> "absent"]
    /\ inHand = {} /\ succeeded = {}

Move(j, from, to) ==
    /\ phase[j] \in from
    /\ phase' = [phase EXCEPT ![j] = to]

Accept(j) == Move(j, {"absent"}, "queued") /\ UNCHANGED <<exclusive, inHand, succeeded>>

\* A run begins with the job marked as running.
Start(j) ==
    /\ inHand = {}
    /\ Move(j, {"queued"}, "running")
    /\ inHand' = {j}
    /\ UNCHANGED <<exclusive, succeeded>>

\* The processor of the run in hand returns: this is remembered, then shown.
Return(j) ==
    /\ j \in inHand
    /\ succeeded' = succeeded \cup {j}
    /\ UNCHANGED <<exclusive, phase, inHand>>
Show(j) ==
    /\ j \in inHand \cap succeeded
    /\ Move(j, Phases, "completed")
    /\ inHand' = {}
    /\ UNCHANGED <<exclusive, succeeded>>

\* The run in hand ends badly.
GiveUp(j) ==
    /\ j \in inHand
    /\ \E to \in {"scheduled_retry", "failed"} : Move(j, Phases \ {"completed"}, to)
    /\ inHand' = {}
    /\ UNCHANGED <<exclusive, succeeded>>

\* A job that cannot run fails before it starts.
Refuse(j) == Move(j, {"queued"}, "failed") /\ UNCHANGED <<exclusive, inHand, succeeded>>

\* A run whose lease expired is given up on by others.
Recover(j) ==
    /\ \E to \in {"scheduled_retry", "failed"} : Move(j, {"running"}, to)
    /\ UNCHANGED <<exclusive, inHand, succeeded>>

\* A retry is due or asked for; a retry that was listed before the job was
\* canceled still puts it back.
Requeue(j) ==
    /\ Move(j, {"scheduled_retry", "failed", "canceled"}, "queued")
    /\ UNCHANGED <<exclusive, inHand, succeeded>>

Cancel(j) ==
    /\ Move(j, {"queued", "scheduled_retry"}, "canceled")
    /\ UNCHANGED <<exclusive, inHand, succeeded>>

\* A crash ends the run in hand without a trace.
Lose == inHand' = {} /\ UNCHANGED <<exclusive, phase, succeeded>>

\* With several writers a row may be overwritten by an older one.
Overwrite(j) ==
    /\ ~exclusive /\ phase[j] # "absent"
    /\ \E to \in Phases : Move(j, Phases, to) /\ (to = "completed" => j \in succeeded)
    /\ UNCHANGED <<exclusive, inHand, succeeded>>
ReturnShared(j) ==
    /\ ~exclusive
    /\ succeeded' = succeeded \cup {j}
    /\ UNCHANGED <<exclusive, phase, inHand>>

LifeNext == \E j \in Jobs :
    \/ Accept(j) \/ Start(j) \/ Return(j) \/ Show(j) \/ GiveUp(j) \/ Refuse(j)
    \/ Recover(j) \/ Requeue(j) \/ Cancel(j) \/ Lose \/ Overwrite(j) \/ ReturnShared(j)

LifeSpec == LifeInit /\ [][LifeNext]_lifeVars
=============================================================================
