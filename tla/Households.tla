----------------------------- MODULE Households -----------------------------
(***************************************************************************)
(* The households of the Proprium API: who is a member, how invitations    *)
(* are made and answered (PostgresHouseholdInvitationService), and the     *)
(* bill commands that write their events to the outbox in the same         *)
(* transaction (PostgresBillCommandService).                               *)
(*                                                                         *)
(* A request runs as several statements: it reads, decides, and saves all  *)
(* its changes at once.  Neither invitations nor bills carry a concurrency *)
(* token, so other requests save between its reads and its save.  One      *)
(* household is modelled.  Of the audit rows those about the membership of *)
(* a user are kept, and those that count as attempts to invite; a refusal  *)
(* that writes another row only is left out.                               *)
(***************************************************************************)
EXTENDS Naturals, FiniteSets

CONSTANTS
    Owner,          \* owner of the household
    Guests,         \* users who may be invited
    Invitations,    \* bound: invitations ever made
    Requests,       \* requests served at a time
    MaximumPendingInvitations,
    MaximumInvitationAttemptsPerDay,
    Loads           \* bounds: what a run does, one of them chosen at the start

Users == {Owner} \cup Guests

\* `invites', `answers' and `changes': how many invitation attempts, accept,
\* revoke and remove calls, and bill commands there are; `days': how often time
\* is noticed to have passed; the others bound EventDelivery.
Load == [invites : Nat, answers : Nat, changes : Nat, days : Nat,
         opens : Nat, breaks : Nat, crashes : Nat, failures : Nat]

ASSUME HouseholdAssumption ==
    /\ Owner \notin Guests
    /\ MaximumPendingInvitations \in Nat \ {0}
    /\ MaximumInvitationAttemptsPerDay \in Nat \ {0}
    /\ Loads \subseteq Load

VARIABLES
    left,        \* what is left of the bounds
    members,     \* household_memberships
    invitation,  \* household_invitations: a row per invitation
    attempts,    \* audit rows of the last 24 hours that count as invitation attempts
    audit,       \* audit[u]: the last audit row Accepted or Removed about u
    request,     \* request[r]: what r read and what it does next
    changes,     \* bill changes committed; change n wrote outbox row n
    joins,       \* history: times an invitation brought its target in
    crossed,     \* history: users removed while an accept of theirs was under way
    contested    \* history: invitations an accept and another answer overlapped on

houseVars == <<members, invitation, attempts, audit, request, changes, joins, crossed, contested>>

NoRequest == [op |-> "none"]
Absent == [status |-> "absent", to |-> Owner, live |-> FALSE]

\* Invitations that are pending and not expired, as the queries select them.
LivePending == {i \in Invitations : invitation[i].status = "Pending" /\ invitation[i].live}

Spend(bound) == left[bound] > 0 /\ left' = [left EXCEPT ![bound] = @ - 1]

Becomes(r, next) == request' = [request EXCEPT ![r] = next]
Ends(r) == Becomes(r, NoRequest)

HouseholdsInit ==
    /\ members = {Owner}
    /\ invitation = [i \in Invitations |-> Absent]
    /\ attempts = 0
    /\ audit = [u \in Guests |-> "none"]
    /\ request = [r \in Requests |-> NoRequest]
    /\ changes = 0
    /\ joins = [i \in Invitations |-> 0]
    /\ crossed = {} /\ contested = {}

-----------------------------------------------------------------------------
\* CreateAsync up to the membership check: the attempts of the day, the target
\* (the owner is no target), the target's membership.
StartInvite(r, u) ==
    /\ request[r] = NoRequest
    /\ Spend("invites")
    /\ Becomes(r, [op |-> "invite", to |-> u,
                   at |-> IF \/ attempts >= MaximumInvitationAttemptsPerDay
                             \/ u = Owner \/ u \in members
                          THEN "deny" ELSE "count"])
    /\ UNCHANGED <<members, invitation, attempts, audit, changes, joins, crossed, contested>>

(* Mistaken variants: an invitation may be answered again; any invitation   *)
(* may be revoked; a removal only writes its audit row.                     *)
AcceptableAgain(i) == invitation[i].live /\ invitation[i].status \in {"Pending", "Accepted"}
RevocableAnyway(i) == invitation[i] # Absent
StillWith(u) == members

\* The pending invitations leave room for one more, and none is for the target.
Room(r) ==
    /\ Cardinality(LivePending) < MaximumPendingInvitations
    /\ \A i \in LivePending : invitation[i].to # request[r].to

CountPending(r) ==
    /\ request[r].op = "invite" /\ request[r].at = "count"
    /\ Becomes(r, [request[r] EXCEPT !.at = IF Room(r) THEN "save" ELSE "deny"])
    /\ UNCHANGED <<left, members, invitation, attempts, audit, changes, joins, crossed, contested>>

\* The save of the invitation, or of the denial: either counts as an attempt.
SaveInvite(r) ==
    /\ request[r].op = "invite" /\ request[r].at \in {"save", "deny"}
    /\ attempts' = attempts + 1
    /\ IF request[r].at = "deny" THEN UNCHANGED invitation
       ELSE \E i \in Invitations :
            /\ invitation[i] = Absent
            /\ invitation' = [invitation EXCEPT ![i] =
                    [status |-> "Pending", to |-> request[r].to, live |-> TRUE]]
    /\ Ends(r)
    /\ UNCHANGED <<left, members, audit, changes, joins, crossed, contested>>

-----------------------------------------------------------------------------
\* Requests that read invitation i as pending and have not saved.
Answering(i) == {r \in Requests : request[r].op \in {"accept", "revoke"} /\ request[r].id = i}
Contest(i) == contested' = IF Answering(i) = {} THEN contested ELSE contested \cup {i}

\* AcceptAsync goes on for the target of a pending invitation that has not expired.
Acceptable(i) == i \in LivePending

StartAccept(r, i) ==
    /\ request[r] = NoRequest
    /\ Acceptable(i)
    /\ Spend("answers")
    /\ Becomes(r, [op |-> "accept", id |-> i, who |-> invitation[i].to, at |-> "check"])
    /\ Contest(i)
    /\ UNCHANGED <<members, invitation, attempts, audit, changes, joins, crossed>>

\* It reads whether the target is a member already.
CheckMember(r) ==
    /\ request[r].op = "accept" /\ request[r].at = "check"
    /\ Becomes(r, [op |-> "accept", id |-> request[r].id, who |-> request[r].who, at |-> "save",
                   join |-> request[r].who \notin members])
    /\ UNCHANGED <<left, members, invitation, attempts, audit, changes, joins, crossed, contested>>

\* It saves the membership, the answer and the audit row; the key of the
\* memberships makes the save fail as a whole if the user has joined meanwhile.
SaveAccept(r) ==
    LET i == request[r].id
        u == request[r].who
        join == request[r].join
        conflict == join /\ u \in members
    IN
    /\ request[r].op = "accept" /\ request[r].at = "save"
    /\ IF conflict THEN UNCHANGED <<members, invitation, audit, joins>>
       ELSE /\ members' = IF join THEN members \cup {u} ELSE members
            /\ invitation' = [invitation EXCEPT ![i].status = "Accepted"]
            /\ audit' = [audit EXCEPT ![u] = "accepted"]
            /\ joins' = [joins EXCEPT ![i] = IF join THEN @ + 1 ELSE @]
    /\ Ends(r)
    /\ UNCHANGED <<left, attempts, changes, crossed, contested>>

\* AcceptAsync of an invitation that is accepted already, expired or not: all it
\* saves is one more audit row Accepted, whether the target still is a member.
StartRepeat(r, i) ==
    /\ request[r] = NoRequest
    /\ invitation[i].status = "Accepted"
    /\ Spend("answers")
    /\ Becomes(r, [op |-> "repeat", who |-> invitation[i].to])
    /\ UNCHANGED <<members, invitation, attempts, audit, changes, joins, crossed, contested>>

SaveRepeat(r) ==
    /\ request[r].op = "repeat"
    /\ audit' = [audit EXCEPT ![request[r].who] = "repeated"]
    /\ Ends(r)
    /\ UNCHANGED <<left, members, invitation, attempts, changes, joins, crossed, contested>>

\* RevokeAsync asks for a pending invitation, expired or not.
Revocable(i) == invitation[i].status = "Pending"

StartRevoke(r, i) ==
    /\ request[r] = NoRequest
    /\ Revocable(i)
    /\ Spend("answers")
    /\ Becomes(r, [op |-> "revoke", id |-> i])
    /\ Contest(i)
    /\ UNCHANGED <<members, invitation, attempts, audit, changes, joins, crossed>>

SaveRevoke(r) ==
    /\ request[r].op = "revoke"
    /\ invitation' = [invitation EXCEPT ![request[r].id].status = "Revoked"]
    /\ Ends(r)
    /\ UNCHANGED <<left, members, attempts, audit, changes, joins, crossed, contested>>

\* RemoveAsync of a member other than the owner.
StartRemove(r, u) ==
    /\ request[r] = NoRequest
    /\ u \in members \ {Owner}
    /\ Spend("answers")
    /\ Becomes(r, [op |-> "remove", who |-> u])
    /\ UNCHANGED <<members, invitation, attempts, audit, changes, joins, crossed, contested>>

Accepting(u) == \E r \in Requests : request[r].op = "accept" /\ request[r].who = u

Without(u) == members \ {u}

\* The delete of a row that is gone makes the save fail as a whole.
SaveRemove(r) ==
    LET u == request[r].who IN
    /\ request[r].op = "remove"
    /\ IF u \notin members THEN UNCHANGED <<members, audit, crossed>>
       ELSE /\ members' = Without(u)
            /\ audit' = [audit EXCEPT ![u] = "removed"]
            /\ crossed' = IF Accepting(u) THEN crossed \cup {u} ELSE crossed
    /\ Ends(r)
    /\ UNCHANGED <<left, invitation, attempts, changes, joins, contested>>

\* Time passes: invitations expire and attempts leave the window of 24 hours.
Later ==
    /\ Spend("days")
    /\ attempts' \in 0..attempts
    /\ \E expired \in SUBSET LivePending :
        invitation' = [i \in Invitations |->
            IF i \in expired THEN [invitation[i] EXCEPT !.live = FALSE] ELSE invitation[i]]
    /\ UNCHANGED <<members, audit, request, changes, joins, crossed, contested>>

-----------------------------------------------------------------------------
\* CreateAsync, UpdateAsync and SetPaymentStatusAsync of a bill: the membership
\* is checked, and later the bill and the event are saved together.
StartBill(r, u) ==
    /\ request[r] = NoRequest
    /\ u \in members
    /\ Spend("changes")
    /\ Becomes(r, [op |-> "bill"])
    /\ UNCHANGED <<members, invitation, attempts, audit, changes, joins, crossed, contested>>

SaveBill(r) ==
    /\ request[r].op = "bill"
    /\ changes' = changes + 1
    /\ Ends(r)
    /\ UNCHANGED <<left, members, invitation, attempts, audit, joins, crossed, contested>>

HouseholdsNext ==
    \/ \E r \in Requests :
        \/ \E u \in Users : StartInvite(r, u)
        \/ CountPending(r)
        \/ SaveInvite(r)
        \/ \E i \in Invitations : StartAccept(r, i) \/ StartRepeat(r, i) \/ StartRevoke(r, i)
        \/ CheckMember(r)
        \/ SaveAccept(r)
        \/ SaveRepeat(r)
        \/ SaveRevoke(r)
        \/ \E u \in Guests : StartRemove(r, u)
        \/ SaveRemove(r)
        \/ \E u \in Users : StartBill(r, u)
        \/ SaveBill(r)
    \/ Later
=============================================================================
