----------------------------- MODULE MCJobQueue -----------------------------
(***************************************************************************)
(* The job queue on small instances: in process, and with a polling         *)
(* worker beside the server.                                               *)
(***************************************************************************)
EXTENDS JobQueueProperties

CONSTANT Worker1

MCStaffs == {{}, {Worker1}}

\* Two jobs, so that a batch can go stale, where the server runs them; one
\* where a second process writes its row.
MCBound == [s \in MCStaffs |->
    [jobs |-> IF s = {} THEN 2 ELSE 1, calls |-> 1, lapses |-> 1, crashes |-> 1]]
=============================================================================
