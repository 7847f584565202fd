--------------------------- MODULE HouseholdProofs ---------------------------
(***************************************************************************)
(* The safety properties of Households and EventDelivery, for any number   *)
(* of guests, invitations, requests, instances and calls of each kind.     *)
(***************************************************************************)
EXTENDS HouseholdProperties, SequenceTheorems, TLAPS

-----------------------------------------------------------------------------
(* What holds of the household. *)

(* What a request has in hand fits the rows of the invitations.             *)
HandOK(q, rows) ==
    /\ q.op \in {"none", "invite", "accept", "repeat", "revoke", "remove", "bill"}
    /\ q.op = "invite" =>
          /\ q \in [op : {"invite"}, to : Users, at : {"count", "save", "deny"}]
          /\ q.at # "deny" => q.to \in Guests
    /\ q.op \in {"accept", "revoke"} => q.id \in Invitations /\ rows[q.id].status # "absent"
    /\ q.op = "accept" => /\ q.who \in Guests /\ q.who = rows[q.id].to
                          /\ q.at \in {"check", "save"}
                          /\ q.at = "save" => q.join \in BOOLEAN
    /\ q.op \in {"repeat", "remove"} => q.who \in Guests

RowsOK(rows) ==
    /\ rows \in [Invitations ->
          [status : {"absent", "Pending", "Accepted", "Revoked"}, to : Users, live : BOOLEAN]]
    /\ \A i \in Invitations : rows[i].status # "absent" => rows[i].to \in Guests

HouseOK ==
    /\ left \in Load
    /\ Owner \in members /\ members \subseteq Users
    /\ RowsOK(invitation)
    /\ attempts \in Nat /\ changes \in Nat
    /\ audit \in [Guests -> {"none", "accepted", "repeated", "removed"}]
    /\ joins \in [Invitations -> Nat]
    /\ DOMAIN request = Requests /\ \A r \in Requests : HandOK(request[r], invitation)

(* A request that answers an uncontested invitation is the only one, and     *)
(* the invitation still is pending.                                         *)
Answers(q, i) == q.op \in {"accept", "revoke"} /\ q.id = i

AnswersInv ==
    \A i \in Invitations \ contested : \A r \in Requests : Answers(request[r], i) =>
        /\ invitation[i].status = "Pending"
        /\ \A p \in Requests \ {r} : ~Answers(request[p], i)

(* The audit rows but those of repeated accepts tell who is a member, and   *)
(* an accept that has found the user to be one is right until it saves.     *)
MembersInv ==
    \A u \in Guests \ crossed :
        /\ audit[u] # "repeated" => (u \in members <=> audit[u] = "accepted")
        /\ \A r \in Requests : request[r].op = "accept" /\ request[r].at = "save"
                                /\ request[r].who = u /\ ~request[r].join => u \in members

(* An invitation that has brought its target in is answered; an accept of   *)
(* it still under way finds the target to be a member.                      *)
JoinsInv ==
    \A i \in Invitations : joins[i] # 0 =>
        /\ invitation[i].status \in {"Accepted", "Revoked"}
        /\ \/ invitation[i].to \in crossed
           \/ /\ joins[i] = 1
              /\ \A r \in Requests : request[r].op = "accept" /\ request[r].id = i =>
                    invitation[i].to \in members

HouseInv == HouseOK /\ AnswersInv /\ MembersInv /\ JoinsInv

-----------------------------------------------------------------------------
(* The operators. *)

(* What happens is charged to the load.                                     *)
LEMMA Charged ==
  ASSUME left \in Load, NEW bound \in {"invites", "answers", "changes", "days",
                                       "opens", "breaks", "crashes", "failures"}, Spend(bound)
  PROVE  left' \in Load
BY DEF Load, Spend

(* A request moves on; the others stay where they are.                     *)
LEMMA Moves ==
  ASSUME DOMAIN request = Requests, NEW r \in Requests, NEW next, Becomes(r, next)
  PROVE  /\ DOMAIN request' = Requests
         /\ request'[r] = next
         /\ \A q \in Requests \ {r} : request'[q] = request[q]
BY DEF Becomes

(* Some requests end or turn to something else than an answer.              *)
LEMMA QuietMoves ==
  ASSUME HouseInv, left' \in Load, attempts' \in Nat, changes' \in Nat,
         UNCHANGED <<members, invitation, audit, joins, crossed, contested>>,
         DOMAIN request' = Requests,
         \A r \in Requests : \/ request'[r] = request[r]
                             \/ /\ request'[r].op \notin {"accept", "revoke"}
                                /\ HandOK(request'[r], invitation)
  PROVE  HouseInv'
<1>1. HouseOK'
  BY DEF HouseInv, HouseOK
<1>2. AnswersInv'
  BY DEF HouseInv, AnswersInv, Answers
<1>3. MembersInv'
  BY DEF HouseInv, MembersInv
<1>4. JoinsInv'
  BY DEF HouseInv, JoinsInv
<1> QED  BY <1>1, <1>2, <1>3, <1>4 DEF HouseInv

LEMMA QuietMove ==
  ASSUME HouseInv, left' \in Load, attempts' \in Nat, changes' \in Nat,
         UNCHANGED <<members, invitation, audit, joins, crossed, contested>>,
         NEW r \in Requests, NEW next, Becomes(r, next), HandOK(next, invitation),
         next.op \notin {"accept", "revoke"}
  PROVE  HouseInv'
<1>1. DOMAIN request' = Requests /\ \A q \in Requests :
         \/ request'[q] = request[q]
         \/ request'[q].op \notin {"accept", "revoke"} /\ HandOK(request'[q], invitation)
  BY Moves DEF HouseInv, HouseOK
<1> QED  BY <1>1, QuietMoves

-----------------------------------------------------------------------------
(* The calls, one group after another. *)

LEMMA InviteKeeps ==
  ASSUME HouseInv, NEW r \in Requests,
         \/ \E u \in Users : StartInvite(r, u)
         \/ CountPending(r)
         \/ SaveInvite(r)
  PROVE  HouseInv'
<1> USE DEF HouseInv, HouseOK
<1>1. ASSUME NEW u \in Users, StartInvite(r, u)
      PROVE  HouseInv'
  <2>1. PICK at \in {"count", "deny"} :
            /\ Becomes(r, [op |-> "invite", to |-> u, at |-> at])
            /\ at = "count" => u # Owner
    BY <1>1 DEF StartInvite
  <2>2. HandOK([op |-> "invite", to |-> u, at |-> at], invitation)
    BY <2>1 DEF HandOK, Users
  <2>3. left' \in Load
    BY <1>1, Charged DEF StartInvite
  <2> QED  BY <1>1, <2>1, <2>2, <2>3, QuietMove DEF StartInvite
<1>2. CASE CountPending(r)
  <2>1. PICK at \in {"save", "deny"} : Becomes(r, [request[r] EXCEPT !.at = at])
    BY <1>2 DEF CountPending
  <2>2. /\ request[r] \in [op : {"invite"}, to : Users, at : {"count", "save", "deny"}]
        /\ request[r].to \in Guests
    BY <1>2 DEF CountPending, HandOK
  <2> DEFINE next == [request[r] EXCEPT !.at = at]
  <2>3. HandOK(next, invitation) /\ next.op = "invite"
    BY <2>1, <2>2 DEF HandOK
  <2> HIDE DEF next
  <2> QED  BY <1>2, <2>1, <2>3, QuietMove DEF CountPending, next
<1>3. CASE SaveInvite(r) /\ request[r].at = "deny"
  BY <1>3, QuietMove DEF SaveInvite, Ends, NoRequest, HandOK
<1>4. CASE SaveInvite(r) /\ request[r].at # "deny"
  <2>1. PICK i \in Invitations :
            /\ invitation[i] = Absent
            /\ invitation' = [invitation EXCEPT ![i] =
                    [status |-> "Pending", to |-> request[r].to, live |-> TRUE]]
    BY <1>4 DEF SaveInvite
  <2>2. /\ DOMAIN request' = Requests /\ request'[r] = NoRequest
        /\ \A q \in Requests \ {r} : request'[q] = request[q]
    BY <1>4, Moves DEF SaveInvite, Ends
  <2>3. request[r].to \in Guests /\ request[r].op = "invite"
    BY <1>4 DEF SaveInvite, HandOK
  <2>4. /\ invitation[i].status = "absent"
        /\ invitation'[i] = [status |-> "Pending", to |-> request[r].to, live |-> TRUE]
        /\ \A j \in Invitations \ {i} : invitation'[j] = invitation[j]
    BY <2>1 DEF Absent, RowsOK
  <2>5. \A q \in Requests : request[q].op \in {"accept", "revoke"} => request[q].id # i
    BY <2>4 DEF HandOK
  <2>6. RowsOK(invitation')
    BY <2>1, <2>3, <2>4 DEF RowsOK, Users
  <2>7. HouseOK'
    BY <1>4, <2>2, <2>4, <2>5, <2>6 DEF SaveInvite, HandOK, NoRequest
  <2>8. AnswersInv'
    BY <1>4, <2>2, <2>4, <2>5 DEF SaveInvite, AnswersInv, Answers, NoRequest, HandOK
  <2>9. MembersInv'
    BY <1>4, <2>2 DEF SaveInvite, MembersInv, NoRequest
  <2>10. JoinsInv'
    BY <1>4, <2>2, <2>4, <2>5 DEF SaveInvite, JoinsInv, NoRequest, HandOK
  <2> QED  BY <2>7, <2>8, <2>9, <2>10
<1> QED  BY <1>1, <1>2, <1>3, <1>4

(* An answer begins: the first one to a pending invitation, or a contest.   *)
LEMMA AnswerStarts ==
  ASSUME HouseInv, left' \in Load, NEW r \in Requests, NEW i \in Invitations, NEW next,
         request[r] = NoRequest, Becomes(r, next), HandOK(next, invitation), Answers(next, i),
         next.op = "accept" => next.at = "check",
         invitation[i].status = "Pending", Contest(i),
         UNCHANGED <<members, invitation, attempts, audit, changes, joins, crossed>>
  PROVE  HouseInv'
<1> USE DEF HouseInv, HouseOK
<1>1. /\ DOMAIN request' = Requests /\ request'[r] = next
      /\ \A q \in Requests \ {r} : request'[q] = request[q]
  BY Moves
<1>2. HouseOK'
  BY <1>1
<1>3. contested \subseteq contested' /\
      (i \in contested' \/ \A q \in Requests : ~Answers(request[q], i))
  BY DEF Contest, Answering, Answers
<1>4. AnswersInv'
  BY <1>1, <1>3 DEF AnswersInv, Answers
<1>5. MembersInv'
  BY <1>1 DEF MembersInv
<1>6. JoinsInv'
  BY <1>1 DEF JoinsInv, Answers
<1> QED  BY <1>2, <1>4, <1>5, <1>6

LEMMA AcceptKeeps ==
  ASSUME HouseInv, NEW r \in Requests,
         \/ \E i \in Invitations : StartAccept(r, i)
         \/ CheckMember(r)
         \/ SaveAccept(r)
  PROVE  HouseInv'
<1> USE DEF HouseInv, HouseOK
<1>1. ASSUME NEW i \in Invitations, StartAccept(r, i)
      PROVE  HouseInv'
  <2> DEFINE next == [op |-> "accept", id |-> i, who |-> invitation[i].to, at |-> "check"]
  <2>1. invitation[i].status = "Pending"
    BY <1>1 DEF StartAccept, Acceptable, LivePending
  <2>2. HandOK(next, invitation) /\ Answers(next, i) /\ next.op = "accept" /\ next.at = "check"
    BY <2>1 DEF HandOK, RowsOK, Answers
  <2>3. left' \in Load
    BY <1>1, Charged DEF StartAccept
  <2> QED  BY <1>1, <2>1, <2>2, <2>3, AnswerStarts DEF StartAccept
<1>2. CASE CheckMember(r)
  <2>1. PICK b \in BOOLEAN :
            /\ b <=> request[r].who \notin members
            /\ Becomes(r, [op |-> "accept", id |-> request[r].id, who |-> request[r].who,
                           at |-> "save", join |-> b])
    BY <1>2 DEF CheckMember
  <2> DEFINE next == [op |-> "accept", id |-> request[r].id, who |-> request[r].who,
                      at |-> "save", join |-> b]
  <2>2. /\ DOMAIN request' = Requests /\ request'[r] = next
        /\ \A q \in Requests \ {r} : request'[q] = request[q]
    BY <2>1, Moves
  <2>3. /\ next.op = "accept" /\ next.id = request[r].id /\ next.who = request[r].who
        /\ next.at = "save" /\ next.join = b
    OBVIOUS
  <2> HIDE DEF next
  <2>4. HandOK(next, invitation)
    BY <1>2, <2>3 DEF CheckMember, HandOK
  <2>5. HouseOK'
    BY <1>2, <2>2, <2>4 DEF CheckMember
  <2>6. AnswersInv'
    BY <1>2, <2>2, <2>3 DEF CheckMember, AnswersInv, Answers
  <2>7. MembersInv'
    BY <1>2, <2>1, <2>2, <2>3 DEF CheckMember, MembersInv
  <2>8. JoinsInv'
    BY <1>2, <2>2, <2>3 DEF CheckMember, JoinsInv
  <2> QED  BY <2>5, <2>6, <2>7, <2>8
<1>3. CASE SaveAccept(r)
  <2>1. PICK i \in Invitations, u \in Guests, join \in BOOLEAN :
            /\ i = request[r].id /\ u = request[r].who /\ join = request[r].join
            /\ u = invitation[i].to /\ invitation[i].status # "absent"
    BY <1>3 DEF SaveAccept, HandOK
  <2>2. CASE join /\ u \in members
    BY <1>3, <2>1, <2>2, QuietMove DEF SaveAccept, Ends, NoRequest, HandOK
  <2>3. CASE ~(join /\ u \in members)
    <3>1. /\ members' = IF join THEN members \cup {u} ELSE members
          /\ invitation' = [invitation EXCEPT ![i].status = "Accepted"]
          /\ audit' = [audit EXCEPT ![u] = "accepted"]
          /\ joins' = [joins EXCEPT ![i] = IF join THEN joins[i] + 1 ELSE joins[i]]
          /\ UNCHANGED <<left, attempts, changes, crossed, contested>>
      BY <1>3, <2>1, <2>3 DEF SaveAccept
    <3>2. /\ DOMAIN request' = Requests /\ request'[r] = NoRequest
          /\ \A q \in Requests \ {r} : request'[q] = request[q]
      BY <1>3, Moves DEF SaveAccept, Ends
    <3>3. /\ invitation'[i].status = "Accepted" /\ invitation'[i].to = u
          /\ \A j \in Invitations \ {i} : invitation'[j] = invitation[j]
          /\ RowsOK(invitation')
      BY <2>1, <3>1 DEF RowsOK
    <3>4. HouseOK'
      BY <2>1, <3>1, <3>2, <3>3 DEF HandOK, NoRequest, Users
    <3>5. AnswersInv'
      BY <1>3, <2>1, <3>1, <3>2, <3>3 DEF SaveAccept, AnswersInv, Answers, NoRequest
    <3>6. u \in members' \/ u \in crossed
      BY <1>3, <2>1, <3>1 DEF SaveAccept, MembersInv
    <3>7. MembersInv'
      BY <2>1, <3>1, <3>2, <3>6 DEF MembersInv, NoRequest
    <3>8. ASSUME NEW j \in Invitations, joins'[j] # 0
          PROVE  /\ invitation'[j].status \in {"Accepted", "Revoked"}
                 /\ \/ invitation'[j].to \in crossed'
                    \/ /\ joins'[j] = 1
                       /\ \A q \in Requests : request'[q].op = "accept" /\ request'[q].id = j =>
                             invitation'[j].to \in members'
      <4>1. CASE j = i
        <5>1. u \in crossed \/ joins'[i] = 1
          BY <1>3, <2>1, <2>3, <3>1, <3>8, <4>1 DEF SaveAccept, JoinsInv
        <5> QED  BY <3>1, <3>3, <3>6, <4>1, <5>1
      <4>2. CASE j # i
        <5>1. joins'[j] = joins[j] /\ invitation'[j] = invitation[j] /\ members \subseteq members'
          BY <3>1, <3>3, <4>2
        <5> QED  BY <3>1, <3>2, <3>8, <5>1 DEF JoinsInv, NoRequest
      <4> QED  BY <4>1, <4>2
    <3>9. JoinsInv'
      BY <3>8 DEF JoinsInv
    <3> QED  BY <3>4, <3>5, <3>7, <3>9
  <2> QED  BY <2>2, <2>3
<1> QED  BY <1>1, <1>2, <1>3

(* An accept of an accepted invitation adds an audit row and nothing else.  *)
LEMMA RepeatKeeps ==
  ASSUME HouseInv, NEW r \in Requests,
         SaveRepeat(r) \/ \E i \in Invitations : StartRepeat(r, i)
  PROVE  HouseInv'
<1> USE DEF HouseInv, HouseOK
<1>1. ASSUME NEW i \in Invitations, StartRepeat(r, i)
      PROVE  HouseInv'
  <2>1. invitation[i].to \in Guests
    BY <1>1 DEF StartRepeat, RowsOK
  <2>2. HandOK([op |-> "repeat", who |-> invitation[i].to], invitation)
    BY <2>1 DEF HandOK
  <2>3. left' \in Load
    BY <1>1, Charged DEF StartRepeat
  <2> QED  BY <1>1, <2>2, <2>3, QuietMove DEF StartRepeat
<1>2. CASE SaveRepeat(r)
  <2>1. PICK u \in Guests : u = request[r].who
    BY <1>2 DEF SaveRepeat, HandOK
  <2>2. /\ audit' = [audit EXCEPT ![u] = "repeated"]
        /\ UNCHANGED <<left, members, invitation, attempts, changes, joins, crossed, contested>>
    BY <1>2, <2>1 DEF SaveRepeat
  <2>3. /\ DOMAIN request' = Requests /\ request'[r] = NoRequest
        /\ \A q \in Requests \ {r} : request'[q] = request[q]
    BY <1>2, Moves DEF SaveRepeat, Ends
  <2>4. HouseOK'
    BY <2>2, <2>3 DEF HandOK, NoRequest
  <2>5. AnswersInv'
    BY <2>2, <2>3 DEF AnswersInv, Answers, NoRequest
  <2>6. MembersInv'
    BY <2>2, <2>3 DEF MembersInv, NoRequest
  <2>7. JoinsInv'
    BY <2>2, <2>3 DEF JoinsInv, NoRequest
  <2> QED  BY <2>4, <2>5, <2>6, <2>7
<1> QED  BY <1>1, <1>2

LEMMA RevokeKeeps ==
  ASSUME HouseInv, NEW r \in Requests,
         SaveRevoke(r) \/ \E i \in Invitations : StartRevoke(r, i)
  PROVE  HouseInv'
<1> USE DEF HouseInv, HouseOK
<1>1. ASSUME NEW i \in Invitations, StartRevoke(r, i)
      PROVE  HouseInv'
  <2> DEFINE next == [op |-> "revoke", id |-> i]
  <2>1. invitation[i].status = "Pending"
    BY <1>1 DEF StartRevoke, Revocable
  <2>2. HandOK(next, invitation) /\ Answers(next, i) /\ next.op = "revoke"
    BY <2>1 DEF HandOK, Answers
  <2>3. left' \in Load
    BY <1>1, Charged DEF StartRevoke
  <2> QED  BY <1>1, <2>1, <2>2, <2>3, AnswerStarts DEF StartRevoke
<1>2. CASE SaveRevoke(r)
  <2>1. PICK i \in Invitations : i = request[r].id /\ invitation[i].status # "absent"
    BY <1>2 DEF SaveRevoke, HandOK
  <2>2. /\ invitation' = [invitation EXCEPT ![i].status = "Revoked"]
        /\ UNCHANGED <<left, members, attempts, audit, changes, joins, crossed, contested>>
    BY <1>2, <2>1 DEF SaveRevoke
  <2>3. /\ DOMAIN request' = Requests /\ request'[r] = NoRequest
        /\ \A q \in Requests \ {r} : request'[q] = request[q]
    BY <1>2, Moves DEF SaveRevoke, Ends
  <2>4. /\ invitation'[i].status = "Revoked" /\ invitation'[i].to = invitation[i].to
        /\ \A j \in Invitations \ {i} : invitation'[j] = invitation[j]
        /\ RowsOK(invitation')
    BY <2>1, <2>2 DEF RowsOK
  <2>5. HouseOK'
    BY <2>2, <2>3, <2>4 DEF HandOK, NoRequest
  <2>6. AnswersInv'
    BY <1>2, <2>1, <2>2, <2>3, <2>4 DEF SaveRevoke, AnswersInv, Answers, NoRequest
  <2>7. MembersInv'
    BY <2>2, <2>3 DEF MembersInv, NoRequest
  <2>8. JoinsInv'
    BY <2>2, <2>3, <2>4 DEF JoinsInv, NoRequest
  <2> QED  BY <2>5, <2>6, <2>7, <2>8
<1> QED  BY <1>1, <1>2

LEMMA RemoveKeeps ==
  ASSUME HouseInv, NEW r \in Requests,
         SaveRemove(r) \/ \E u \in Guests : StartRemove(r, u)
  PROVE  HouseInv'
<1> USE DEF HouseInv, HouseOK
<1>1. ASSUME NEW u \in Guests, StartRemove(r, u)
      PROVE  HouseInv'
  <2>1. HandOK([op |-> "remove", who |-> u], invitation)
    BY DEF HandOK
  <2>2. left' \in Load
    BY <1>1, Charged DEF StartRemove
  <2> QED  BY <1>1, <2>1, <2>2, QuietMove DEF StartRemove
<1>2. CASE SaveRemove(r)
  <2>1. PICK u \in Guests : u = request[r].who
    BY <1>2 DEF SaveRemove, HandOK
  <2>2. CASE u \notin members
    BY <1>2, <2>1, <2>2, QuietMove DEF SaveRemove, Ends, NoRequest, HandOK
  <2>3. CASE u \in members
    <3>1. /\ members' = members \ {u}
          /\ audit' = [audit EXCEPT ![u] = "removed"]
          /\ UNCHANGED <<left, invitation, attempts, changes, joins, contested>>
      BY <1>2, <2>1, <2>3 DEF SaveRemove, Without
    <3>2. /\ crossed \subseteq crossed'
          /\ Accepting(u) => u \in crossed'
      BY <1>2, <2>1, <2>3 DEF SaveRemove
    <3>3. /\ DOMAIN request' = Requests /\ request'[r] = NoRequest
          /\ \A q \in Requests \ {r} : request'[q] = request[q]
      BY <1>2, Moves DEF SaveRemove, Ends
    <3>4. HouseOK'
      BY <3>1, <3>3, HouseholdAssumption DEF HandOK, NoRequest
    <3>5. AnswersInv'
      BY <3>1, <3>3 DEF AnswersInv, Answers, NoRequest
    <3>6. ASSUME NEW q \in Requests, request'[q].op = "accept", request'[q].who = u
          PROVE  u \in crossed'
      BY <3>2, <3>3, <3>6 DEF Accepting, NoRequest
    <3>7. MembersInv'
      BY <3>1, <3>2, <3>3, <3>6 DEF MembersInv, NoRequest
    <3>8. \A q \in Requests, i \in Invitations :
              request'[q].op = "accept" /\ request'[q].id = i => request'[q].who = invitation[i].to
      BY <3>3 DEF HandOK, NoRequest
    <3>9. JoinsInv'
      BY <3>1, <3>2, <3>3, <3>6, <3>8 DEF JoinsInv, NoRequest
    <3> QED  BY <3>4, <3>5, <3>7, <3>9
  <2> QED  BY <2>2, <2>3
<1> QED  BY <1>1, <1>2

LEMMA LaterKeeps ==
  ASSUME HouseInv, Later
  PROVE  HouseInv'
<1> USE DEF HouseInv, HouseOK
<1>1. /\ UNCHANGED <<members, audit, request, changes, joins, crossed, contested>>
      /\ attempts' \in Nat
  BY DEF Later
<1>2. left' \in Load
  BY Charged DEF Later
<1>3. PICK expired \in SUBSET LivePending : invitation' = [i \in Invitations |->
          IF i \in expired THEN [invitation[i] EXCEPT !.live = FALSE] ELSE invitation[i]]
  BY DEF Later
<1>4. \A i \in Invitations : /\ invitation'[i].status = invitation[i].status
                             /\ invitation'[i].to = invitation[i].to
  BY <1>3 DEF RowsOK
<1>5. RowsOK(invitation')
  BY <1>3, <1>4 DEF RowsOK
<1>6. HouseOK'
  BY <1>1, <1>2, <1>4, <1>5 DEF HandOK
<1>7. AnswersInv'
  BY <1>1, <1>4 DEF AnswersInv
<1>8. MembersInv'
  BY <1>1 DEF MembersInv
<1>9. JoinsInv'
  BY <1>1, <1>4 DEF JoinsInv
<1> QED  BY <1>6, <1>7, <1>8, <1>9

LEMMA BillKeeps ==
  ASSUME HouseInv, NEW r \in Requests,
         SaveBill(r) \/ \E u \in Users : StartBill(r, u)
  PROVE  HouseInv'
<1> USE DEF HouseInv, HouseOK
<1>1. ASSUME NEW u \in Users, StartBill(r, u)
      PROVE  HouseInv'
  <2>1. HandOK([op |-> "bill"], invitation)
    BY DEF HandOK
  <2>2. left' \in Load
    BY <1>1, Charged DEF StartBill
  <2> QED  BY <1>1, <2>1, <2>2, QuietMove DEF StartBill
<1>2. CASE SaveBill(r)
  BY <1>2, QuietMove DEF SaveBill, Ends, NoRequest, HandOK
<1> QED  BY <1>1, <1>2

-----------------------------------------------------------------------------
(* The deliveries leave the household alone; a crash only loses requests.   *)
LEMMA DeliveryKeeps ==
  ASSUME HouseInv, left' \in Load,
         \/ UNCHANGED houseVars
         \/ \E i \in fleet : Crash(i)
  PROVE  HouseInv'
<1> USE DEF HouseInv, HouseOK
<1>1. CASE UNCHANGED houseVars
  BY <1>1, QuietMoves DEF houseVars
<1>2. ASSUME NEW i \in fleet, Crash(i)
      PROVE  HouseInv'
  <2>1. DOMAIN request' = Requests /\ \A r \in Requests : request'[r] \in {request[r], NoRequest}
    BY <1>2 DEF Crash
  <2> QED  BY <1>2, <2>1, QuietMoves DEF Crash, NoRequest, HandOK
<1> QED  BY <1>1, <1>2

LEMMA LoadStays ==
  ASSUME left \in Load, [Next]_vars, ~(HouseholdsNext /\ UNCHANGED deliveryVars)
  PROVE  left' \in Load
<1>1. ASSUME NEW i \in fleet,
             \/ Select(i) \/ Commit(i) \/ CommitFails(i) \/ Crash(i)
             \/ \E e \in Events : Publish(i, e) \/ PublishFails(i, e)
      PROVE  left' \in Load
  BY <1>1, Charged DEF Select, Commit, CommitFails, Crash, Publish, PublishFails
<1>2. CASE Open \/ Connect \/ Break \/ Receive \/ HeartbeatSwallows \/ Answer \/ FetchFails
  BY <1>2, Charged DEF Open, Connect, Break, Receive, HeartbeatSwallows, Answer, FetchFails
<1>3. CASE \E version \in 0..changes : Show(version)
  BY <1>3 DEF Show
<1>4. CASE UNCHANGED vars
  BY <1>4 DEF vars
<1> QED  BY <1>1, <1>2, <1>3, <1>4 DEF Next

LEMMA HouseStays ==
  ASSUME [Next]_vars, ~(HouseholdsNext /\ UNCHANGED deliveryVars)
  PROVE  UNCHANGED houseVars \/ \E i \in fleet : Crash(i)
BY DEF Next, Select, Commit, CommitFails, Publish, PublishFails, Open, Connect, Break, Receive,
       HeartbeatSwallows, Answer, FetchFails, Show, vars

LEMMA HouseInit == Init => HouseInv
<1> SUFFICES ASSUME Init PROVE HouseInv
  OBVIOUS
<1> USE DEF Init, HouseholdsInit
<1>1. HouseOK
  BY HouseholdAssumption DEF HouseOK, RowsOK, HandOK, Absent, NoRequest, Users
<1>2. AnswersInv
  BY DEF AnswersInv, Answers, NoRequest
<1>3. MembersInv
  BY HouseholdAssumption DEF MembersInv, NoRequest
<1>4. JoinsInv
  BY DEF JoinsInv
<1> QED  BY <1>1, <1>2, <1>3, <1>4 DEF HouseInv

LEMMA HouseNext == HouseInv /\ [Next]_vars => HouseInv'
<1> SUFFICES ASSUME HouseInv, [Next]_vars PROVE HouseInv'
  OBVIOUS
<1>1. CASE HouseholdsNext
  BY <1>1, InviteKeeps, AcceptKeeps, RepeatKeeps, RevokeKeeps, RemoveKeeps, BillKeeps, LaterKeeps
     DEF HouseholdsNext
<1>2. CASE ~(HouseholdsNext /\ UNCHANGED deliveryVars)
  BY <1>2, LoadStays, HouseStays, DeliveryKeeps DEF HouseInv, HouseOK
<1> QED  BY <1>1, <1>2

(* The audit rows tell who is a member, however invitations are accepted,   *)
(* revoked and members removed, unless a removal fell into an accept or the *)
(* last row is that of an accept of an accepted invitation (AcceptAsync,    *)
(* RemoveAsync).                                                            *)
THEOREM AuditTells == DeliverySpec => []AuditTellsMembership
<1>1. HouseInv => AuditTellsMembership
  BY DEF HouseInv, MembersInv, AuditTellsMembership
<1> QED  BY <1>1, HouseInit, HouseNext, PTL DEF DeliverySpec

(* With the same exception an invitation brings its target in at most once. *)
THEOREM InvitesOnce == DeliverySpec => []InvitedOnce
<1>1. HouseInv => InvitedOnce
  BY DEF HouseInv, HouseOK, JoinsInv, InvitedOnce
<1> QED  BY <1>1, HouseInit, HouseNext, PTL DEF DeliverySpec

(* An answered invitation is not answered otherwise, unless two answers to  *)
(* it overlapped.                                                           *)
THEOREM AnswersStand == DeliverySpec => AnswerStands
<1> DEFINE Stands == \A i \in Invitations \ contested' :
              invitation[i].status \in {"Accepted", "Revoked"} =>
                  invitation'[i].status = invitation[i].status
<1>1. ASSUME HouseInv, HouseholdsNext
      PROVE  Stands
  <2> USE DEF HouseInv, HouseOK
  <2>1. ASSUME NEW r \in Requests, SaveInvite(r)
        PROVE  Stands
    BY <1>1, <2>1 DEF SaveInvite, Absent, RowsOK
  <2>2. ASSUME NEW r \in Requests, SaveAccept(r) \/ SaveRevoke(r)
        PROVE  Stands
    <3>1. PICK i \in Invitations : i = request[r].id
      BY <1>1, <2>2 DEF SaveAccept, SaveRevoke, HandOK
    <3>2. i \in contested \/ invitation[i].status = "Pending"
      BY <1>1, <2>2, <3>1 DEF SaveAccept, SaveRevoke, AnswersInv, Answers
    <3>3. contested' = contested /\ \A j \in Invitations \ {i} : invitation'[j] = invitation[j]
      BY <1>1, <2>2, <3>1 DEF SaveAccept, SaveRevoke, RowsOK
    <3> QED  BY <3>2, <3>3
  <2>3. CASE Later
    BY <1>1, <2>3 DEF Later, RowsOK
  <2>4. CASE UNCHANGED invitation
    BY <2>4
  <2> QED  BY <1>1, <2>1, <2>2, <2>3, <2>4
           DEF HouseholdsNext, StartInvite, CountPending, StartAccept, CheckMember, StartRepeat,
               SaveRepeat, StartRevoke, StartRemove, SaveRemove, StartBill, SaveBill
<1>2. ASSUME [Next]_vars, ~(HouseholdsNext /\ UNCHANGED deliveryVars)
      PROVE  Stands
  BY <1>2, HouseStays DEF houseVars, Crash
<1>3. HouseInv /\ [Next]_vars => [Stands]_vars
  BY <1>1, <1>2
<1> QED  BY <1>3, HouseInit, HouseNext, PTL DEF DeliverySpec, AnswerStands

-----------------------------------------------------------------------------
(* Sequences. *)

(* A sequence of a given length at most, with one more element at its end.  *)
Pushed(queue, e, bound) ==
    IF Len(queue) < bound THEN Append(queue, e) ELSE Append(Tail(queue), e)

LEMMA WriteProperties ==
  ASSUME NEW S, NEW queue \in Seq(S), NEW e \in S, NEW bound \in Nat \ {0}, Len(queue) <= bound
  PROVE  /\ Pushed(queue, e, bound) \in Seq(S) /\ Len(Pushed(queue, e, bound)) <= bound
         /\ e \in ToSet(Pushed(queue, e, bound))
         /\ ToSet(Pushed(queue, e, bound)) \subseteq ToSet(queue) \cup {e}
<1> DEFINE next == Pushed(queue, e, bound)
<1>1. CASE Len(queue) < bound
  <2>1. PICK n \in Nat : n = Len(queue)
    OBVIOUS
  <2>2. /\ Append(queue, e) \in Seq(S) /\ Len(Append(queue, e)) = n + 1
        /\ Append(queue, e)[n + 1] = e
        /\ \A k \in 1..n : Append(queue, e)[k] = queue[k]
    BY <2>1
  <2>3. next = Append(queue, e)
    BY <1>1 DEF Pushed
  <2>4. /\ next \in Seq(S) /\ Len(next) = n + 1 /\ next[n + 1] = e
        /\ \A k \in 1..n : next[k] = queue[k]
    BY <2>2, <2>3
  <2> QED  BY <1>1, <2>1, <2>4 DEF ToSet
<1>2. CASE Len(queue) = bound
  <2>1. queue # <<>>
    BY <1>2
  <2>2. /\ Tail(queue) \in Seq(S) /\ Len(Tail(queue)) = bound - 1
        /\ \A k \in 1..(bound - 1) : Tail(queue)[k] = queue[k + 1]
    BY <1>2, <2>1
  <2>3. next = Append(Tail(queue), e)
    BY <1>2 DEF Pushed
  <2>4. /\ next \in Seq(S) /\ Len(next) = bound /\ next[bound] = e
        /\ \A k \in 1..(bound - 1) : next[k] = queue[k + 1]
    BY <2>2, <2>3
  <2> QED  BY <1>2, <2>4 DEF ToSet
<1> QED  BY <1>1, <1>2

LEMMA TailProperties ==
  ASSUME NEW S, NEW queue \in Seq(S), queue # <<>>
  PROVE  /\ Tail(queue) \in Seq(S) /\ Len(Tail(queue)) <= Len(queue)
         /\ Head(queue) \in S
         /\ ToSet(queue) \subseteq ToSet(Tail(queue)) \cup {Head(queue)}
<1>1. /\ Tail(queue) \in Seq(S) /\ Len(Tail(queue)) = Len(queue) - 1 /\ Len(queue) \in Nat \ {0}
      /\ \A k \in 1..(Len(queue) - 1) : Tail(queue)[k] = queue[k + 1]
      /\ Head(queue) = queue[1]
  OBVIOUS
<1>2. ASSUME NEW k \in 1..Len(queue), k # 1
      PROVE  k - 1 \in 1..Len(Tail(queue)) /\ Tail(queue)[k - 1] = queue[k]
  BY <1>1, <1>2
<1>3. ASSUME NEW x \in ToSet(queue), x # Head(queue)
      PROVE  x \in ToSet(Tail(queue))
  <2>1. PICK k \in 1..Len(queue) : x = queue[k]
    BY DEF ToSet
  <2>2. k - 1 \in 1..Len(Tail(queue)) /\ Tail(queue)[k - 1] = x
    BY <1>1, <1>2, <1>3, <2>1
  <2>3. DOMAIN Tail(queue) = 1..Len(Tail(queue))
    BY <1>1
  <2> QED  BY <2>2, <2>3, Zenon DEF ToSet
<1> QED  BY <1>1, <1>3

LEMMA WidenSequence ==
  ASSUME NEW S, NEW T, S \subseteq T, NEW s \in Seq(S)
  PROVE  s \in Seq(T)
OBVIOUS

-----------------------------------------------------------------------------
(* What holds of the delivery. *)

(* The processors have hold of written rows, and mark published ones.       *)
ProcessorsOK ==
    /\ fleet \subseteq Instances
    /\ batch \in [Instances -> SUBSET Events]
    /\ outcome \in [Instances -> SUBSET Events]
    /\ failed \in [Instances -> SUBSET Events]
    /\ processed \subseteq Events /\ processed \subseteq published
    /\ \A i \in Instances : outcome[i] \subseteq published

(* The stream carries written rows; what the client has seen is handled.    *)
StreamOK ==
    /\ on \in fleet \cup {NoInstance}
    /\ channel \in Seq(Events) /\ Len(channel) <= Capacity
    /\ seen \in Seq(Events) /\ Len(seen) <= Remembered
    /\ ToSet(seen) \subseteq handled
    /\ asked \in Nat /\ shown \in 0..changes
    /\ last # 0 /\ ~swallowed => last \in ToSet(channel) \cup handled

DeliveryInv == ProcessorsOK /\ StreamOK

LEMMA ProcessorsKept ==
  ASSUME HouseInv, changes' \in Nat, changes <= changes', ProcessorsOK, UNCHANGED processorVars
  PROVE  ProcessorsOK'
<1>1. Events \subseteq Events'
  BY DEF HouseInv, HouseOK, Events
<1> QED  BY <1>1 DEF ProcessorsOK, processorVars

LEMMA StreamKept ==
  ASSUME HouseInv, changes' \in Nat, changes <= changes', StreamOK,
         UNCHANGED <<fleet, streamVars, pageVars, swallowed>>
  PROVE  StreamOK'
<1>1. Events \subseteq Events' /\ 0..changes \subseteq 0..changes'
  BY DEF HouseInv, HouseOK, Events
<1>2. channel \in Seq(Events') /\ seen \in Seq(Events')
  BY <1>1, WidenSequence DEF StreamOK
<1> QED  BY <1>1, <1>2 DEF StreamOK, streamVars, pageVars

LEMMA ProcessorKeeps ==
  ASSUME HouseInv, DeliveryInv, NEW i \in fleet,
         \/ Select(i) \/ Commit(i) \/ CommitFails(i)
         \/ \E e \in Events : PublishFails(i, e)
  PROVE  DeliveryInv'
<1>1. UNCHANGED <<changes, fleet, streamVars, pageVars, swallowed>>
  BY DEF Select, Commit, CommitFails, PublishFails, houseVars
<1>2. StreamOK'
  BY <1>1, StreamKept DEF DeliveryInv, HouseInv, HouseOK
<1>3. Events' = Events /\ i \in Instances
  BY <1>1 DEF Events, DeliveryInv, ProcessorsOK
<1>4. CASE Select(i)
  <2>1. PICK rows \in SUBSET Lockable : batch' = [batch EXCEPT ![i] = rows]
    BY <1>4 DEF Select
  <2>2. rows \subseteq Events
    BY <2>1 DEF Lockable
  <2>3. ProcessorsOK'
    BY <1>3, <1>4, <2>1, <2>2 DEF Select, DeliveryInv, ProcessorsOK
  <2> QED  BY <1>2, <2>3 DEF DeliveryInv
<1>5. CASE Commit(i) \/ CommitFails(i)
  <2>1. ProcessorsOK'
    BY <1>3, <1>5 DEF Commit, CommitFails, Release, Marked, DeliveryInv, ProcessorsOK
  <2> QED  BY <1>2, <2>1 DEF DeliveryInv
<1>6. ASSUME NEW e \in Events, PublishFails(i, e)
      PROVE  DeliveryInv'
  <2>1. ProcessorsOK'
    BY <1>3, <1>6 DEF PublishFails, DeliveryInv, ProcessorsOK
  <2> QED  BY <1>2, <2>1 DEF DeliveryInv
<1> QED  BY <1>4, <1>5, <1>6

LEMMA PublishKeeps ==
  ASSUME HouseInv, DeliveryInv, NEW i \in fleet, NEW e \in Events, Publish(i, e)
  PROVE  DeliveryInv'
<1> USE DEF DeliveryInv
<1>1. UNCHANGED <<changes, fleet, processed, failed, on, pageVars, swallowed>>
  BY DEF Publish, houseVars
<1>2. Events' = Events /\ i \in Instances
  BY <1>1 DEF Events, ProcessorsOK
<1>3. ProcessorsOK'
  BY <1>1, <1>2 DEF Publish, ProcessorsOK
<1>4. CASE on = i
  <2>1. channel' = Written(channel, e) /\ last' = e
    BY <1>4 DEF Publish
  <2>2. channel' \in Seq(Events) /\ Len(channel') <= Capacity /\ e \in ToSet(channel')
    <3>1. channel' = Pushed(channel, e, Capacity)
      BY <2>1 DEF Written, Pushed
    <3>2. channel \in Seq(Events) /\ Len(channel) <= Capacity
      BY DEF StreamOK
    <3> QED  BY <3>1, <3>2, WriteProperties, DeliveryAssumption
  <2>3. StreamOK'
    BY <1>1, <1>2, <2>1, <2>2 DEF StreamOK, pageVars
  <2> QED  BY <1>3, <2>3
<1>5. CASE on # i
  <2>1. UNCHANGED <<channel, last>>
    BY <1>5 DEF Publish
  <2>2. StreamOK'
    BY <1>1, <1>2, <2>1 DEF StreamOK, pageVars
  <2> QED  BY <1>3, <2>2
<1> QED  BY <1>4, <1>5

LEMMA CrashKeeps ==
  ASSUME HouseInv, DeliveryInv, NEW i \in fleet, Crash(i)
  PROVE  DeliveryInv'
<1> USE DEF DeliveryInv
<1>1. UNCHANGED <<changes, fleet, processed, published, pageVars, swallowed>>
  BY DEF Crash
<1>2. Events' = Events /\ i \in Instances
  BY <1>1 DEF Events, ProcessorsOK
<1>3. ProcessorsOK'
  BY <1>1, <1>2 DEF Crash, Release, ProcessorsOK
<1>4. \/ UNCHANGED <<on, channel, last>>
      \/ on' = NoInstance /\ channel' = <<>> /\ last' = 0
  BY DEF Crash, Disconnect
<1>5. StreamOK'
  <2>1. CASE UNCHANGED <<on, channel, last>>
    BY <1>1, <1>2, <2>1 DEF StreamOK, pageVars
  <2>2. CASE on' = NoInstance /\ channel' = <<>> /\ last' = 0
    <3>1. channel' \in Seq(Events) /\ Len(channel') <= Capacity
      BY <2>2, DeliveryAssumption
    <3> QED  BY <1>1, <1>2, <2>2, <3>1 DEF StreamOK, pageVars
  <2> QED  BY <1>4, <2>1, <2>2
<1> QED  BY <1>3, <1>5

LEMMA PageKeeps ==
  ASSUME HouseInv, DeliveryInv,
         \/ Open \/ Connect \/ Break \/ Receive \/ HeartbeatSwallows \/ Answer \/ FetchFails
         \/ \E version \in 0..changes : Show(version)
  PROVE  DeliveryInv'
<1> USE DEF DeliveryInv
<1>1. UNCHANGED <<changes, processorVars>>
  BY DEF Open, Connect, Break, Receive, HeartbeatSwallows, Answer, FetchFails, Show, houseVars
<1>2. Events' = Events /\ fleet' = fleet
  BY <1>1 DEF Events, processorVars
<1>3. ProcessorsOK'
  BY <1>1, ProcessorsKept DEF HouseInv, HouseOK
<1>4. ASSUME Open \/ Connect
      PROVE  StreamOK'
  BY <1>1, <1>2, <1>4 DEF Open, Connect, StreamOK, streamVars, pageVars
<1>5. ASSUME Break
      PROVE  StreamOK'
  BY <1>1, <1>2, <1>5, DeliveryAssumption DEF Break, Disconnect, StreamOK, pageVars
<1>6. ASSUME Receive
      PROVE  StreamOK'
  <2> DEFINE e == Head(channel)
  <2>1. /\ channel \in Seq(Events) /\ channel # <<>> /\ channel' = Tail(channel)
        /\ UNCHANGED <<on, last, shown, swallowed>>
    BY <1>6 DEF Receive, StreamOK
  <2>2. /\ channel' \in Seq(Events) /\ Len(channel') <= Len(channel) /\ e \in Events
        /\ ToSet(channel) \subseteq ToSet(channel') \cup {e}
    BY <2>1, TailProperties
  <2>3. Len(channel') <= Capacity
    BY <2>1, <2>2, DeliveryAssumption DEF StreamOK
  <2>4. /\ seen' \in Seq(Events) /\ Len(seen') <= Remembered /\ asked' \in Nat
        /\ ToSet(seen') \subseteq handled' /\ handled \subseteq handled' /\ e \in handled'
    <3>1. CASE e \in ToSet(seen)
      BY <1>6, <3>1 DEF Receive, StreamOK
    <3>2. CASE e \notin ToSet(seen)
      <4>1. /\ seen' = Remember(seen, e) /\ asked' = asked + 1
            /\ handled' = handled \cup {e}
        BY <1>6, <3>2 DEF Receive
      <4>2. /\ seen' \in Seq(Events) /\ Len(seen') <= Remembered
            /\ ToSet(seen') \subseteq ToSet(seen) \cup {e}
        <5>1. seen' = Pushed(seen, e, Remembered)
          BY <4>1 DEF Remember, Pushed
        <5>2. seen \in Seq(Events) /\ Len(seen) <= Remembered
          BY DEF StreamOK
        <5> HIDE DEF e
        <5> QED  BY <2>2, <5>1, <5>2, WriteProperties, DeliveryAssumption
      <4> QED  BY <4>1, <4>2 DEF StreamOK
    <3> QED  BY <3>1, <3>2
  <2> QED  BY <1>1, <1>2, <2>1, <2>2, <2>3, <2>4 DEF StreamOK
<1>7. ASSUME HeartbeatSwallows
      PROVE  StreamOK'
  <2>1. /\ channel \in Seq(Events) /\ channel # <<>> /\ channel' = Tail(channel)
        /\ UNCHANGED <<on, last, pageVars>> /\ swallowed' = TRUE
    BY <1>7 DEF HeartbeatSwallows, StreamOK
  <2>2. channel' \in Seq(Events) /\ Len(channel') <= Capacity
    BY <2>1, TailProperties, DeliveryAssumption DEF StreamOK
  <2> QED  BY <1>1, <1>2, <2>1, <2>2 DEF StreamOK, pageVars
<1>8. ASSUME Answer \/ FetchFails
      PROVE  StreamOK'
  <2>1. asked > 0 /\ asked' = asked - 1 /\ UNCHANGED <<on, channel, last, seen, shown, handled, swallowed>>
    BY <1>8 DEF Answer, FetchFails, streamVars
  <2> QED  BY <1>1, <1>2, <2>1 DEF StreamOK
<1>9. ASSUME NEW version \in 0..changes, Show(version)
      PROVE  StreamOK'
  BY <1>1, <1>2, <1>9 DEF Show, StreamOK, streamVars
<1> QED  BY <1>3, <1>4, <1>5, <1>6, <1>7, <1>8, <1>9

LEMMA DeliveryInit == Init => DeliveryInv
<1> SUFFICES ASSUME Init PROVE DeliveryInv
  OBVIOUS
<1>1. ProcessorsOK
  BY DeliveryAssumption DEF Init, HouseholdsInit, ProcessorsOK
<1>2. StreamOK
  BY DeliveryAssumption DEF Init, HouseholdsInit, StreamOK, ToSet
<1> QED  BY <1>1, <1>2 DEF DeliveryInv

LEMMA DeliveryNext == HouseInv /\ DeliveryInv /\ [Next]_vars => DeliveryInv'
<1> SUFFICES ASSUME HouseInv, DeliveryInv, [Next]_vars PROVE DeliveryInv'
  OBVIOUS
<1>1. ASSUME changes' \in Nat, changes <= changes', UNCHANGED deliveryVars
      PROVE  DeliveryInv'
  BY <1>1, ProcessorsKept, StreamKept DEF DeliveryInv, deliveryVars, processorVars
<1>2. CASE HouseholdsNext /\ UNCHANGED deliveryVars
  <2>1. changes' = changes \/ changes' = changes + 1
    BY <1>2 DEF HouseholdsNext, StartInvite, CountPending, SaveInvite, StartAccept, CheckMember,
                SaveAccept, StartRepeat, SaveRepeat, StartRevoke, SaveRevoke, StartRemove,
                SaveRemove, StartBill, SaveBill, Later
  <2> QED  BY <1>1, <1>2, <2>1 DEF HouseInv, HouseOK
<1>3. CASE UNCHANGED vars
  BY <1>1, <1>3 DEF vars, houseVars, HouseInv, HouseOK
<1> QED  BY <1>2, <1>3, ProcessorKeeps, PublishKeeps, CrashKeeps, PageKeeps DEF Next

LEMMA Delivers == DeliverySpec => [](HouseInv /\ DeliveryInv)
BY HouseInit, HouseNext, DeliveryInit, DeliveryNext, PTL DEF DeliverySpec

(* The shape of the state: channels, remembered ids and batches stay within *)
(* their bounds and name rows that have been written.                       *)
THEOREM HouseholdIsTyped == DeliverySpec => []HouseholdTypeOK
<1>1. HouseInv /\ DeliveryInv => HouseholdTypeOK
  <2> SUFFICES ASSUME HouseInv, DeliveryInv PROVE HouseholdTypeOK
    OBVIOUS
  <2>1. Locked \subseteq Events
    BY DEF Locked, DeliveryInv, ProcessorsOK
  <2> QED  BY <2>1 DEF HouseholdTypeOK, HouseInv, HouseOK, RowsOK, HandOK, DeliveryInv,
                       ProcessorsOK, StreamOK
<1> QED  BY <1>1, Delivers, PTL

(* No row is marked as processed that has not been published, whichever     *)
(* instance had it, and whatever failed or crashed (ProcessPendingAsync).   *)
THEOREM PublishedFirst == DeliverySpec => []ProcessedIsPublished
<1>1. DeliveryInv => ProcessedIsPublished
  BY DEF DeliveryInv, ProcessorsOK, ProcessedIsPublished
<1> QED  BY <1>1, Delivers, PTL

(* A full channel of any capacity never loses the newest event: it waits in *)
(* the channel or has been handled, unless a heartbeat dropped an event.    *)
THEOREM NewestWaits == DeliverySpec => []NewestIsKept
<1>1. DeliveryInv => NewestIsKept
  BY DEF DeliveryInv, StreamOK, NewestIsKept
<1> QED  BY <1>1, Delivers, PTL
=============================================================================
