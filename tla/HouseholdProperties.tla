------------------------ MODULE HouseholdProperties ------------------------
(***************************************************************************)
(* What Households and EventDelivery are checked for.                      *)
(***************************************************************************)
EXTENDS EventDelivery

\* The shape of the state; a channel holds no more than its capacity.
HouseholdTypeOK ==
    /\ left \in Load
    /\ Owner \in members /\ members \subseteq Users
    /\ invitation \in [Invitations ->
          [status : {"absent", "Pending", "Accepted", "Revoked"}, to : Users, live : BOOLEAN]]
    /\ attempts \in Nat /\ changes \in Nat
    /\ audit \in [Guests -> {"none", "accepted", "repeated", "removed"}]
    /\ \A r \in Requests :
          request[r].op \in {"none", "invite", "accept", "repeat", "revoke", "remove", "bill"}
    /\ on \in fleet \cup {NoInstance}
    /\ channel \in Seq(Events) /\ Len(channel) <= Capacity
    /\ processed \subseteq Events /\ Locked \subseteq Events
    /\ Len(seen) <= Remembered
    /\ asked \in Nat /\ shown \in 0..changes

\* The audit trail tells who is a member, unless a removal fell into an accept
\* under way (AcceptAsync checks the membership before it saves, RemoveAsync
\* deletes it), or the last row is that of an accept of an accepted invitation
\* (invite_duplicate_accept), which a removed user may send as well as a member.
AuditTellsMembership ==
    \A u \in Guests \ crossed :
        audit[u] # "repeated" => (u \in members <=> audit[u] = "accepted")

\* An invitation brings its target in at most once, whatever is accepted twice
\* at a time or again after a removal, unless that removal fell into an accept.
InvitedOnce ==
    \A i \in Invitations : joins[i] <= 1 \/ invitation[i].to \in crossed

\* An answer to an invitation stands: accepted or revoked, it is not answered
\* otherwise, unless two answers overlapped (the row has no concurrency token).
AnswerStands == [][\A i \in Invitations \ contested' :
    invitation[i].status \in {"Accepted", "Revoked"} =>
        invitation'[i].status = invitation[i].status]_vars

\* An event is marked as processed only once it has been published, whatever
\* fails between the two and whoever selected it (ProcessPendingAsync).
ProcessedIsPublished == processed \subseteq published

\* The newest event written to an open stream still is in its channel or has
\* been handled, though a full channel drops events, unless a heartbeat dropped it.
NewestIsKept ==
    last # 0 /\ ~swallowed => last \in ToSet(channel) \cup handled

\* The same without the exception: every committed event of the household is
\* streamed to an open connection.
NewestIsStreamed == last # 0 => last \in ToSet(channel) \cup handled

\* Every committed change is processed in the end: failed publishing, failed
\* commits and restarts are retried (ExecuteAsync).
EventsAreProcessed == \A e \in 1..3 : e \in Events ~> e \in processed

\* An open page shows every change in the end, with any number of instances,
\* unless it was not connected to the instance that published the change, a
\* heartbeat or an event it knew already displaced it, its fetch failed, or an
\* older answer arrived last.
PageCatchesUp == \A e \in 1..3 : (open /\ e \in Events) ~> (shown >= e \/ spoiled # {})
=============================================================================
