---------------------------- MODULE SessionProofs ----------------------------
(***************************************************************************)
(* The properties of Sessions, for any number of requests, permissions and *)
(* calls of each kind, and that it implements Account.                     *)
(***************************************************************************)
EXTENDS SessionProperties, FiniteSetTheorems, SequenceTheorems, TLAPS

(* What a request has in hand is of the type its place in the code needs,  *)
(* where v is the version of the user and n the number of eras.            *)
InHandOK(q, v, n) ==
    /\ q.op \in {"login", "change", "completing", "complete", "access", "read"} =>
          q.version \in 1..v
    /\ q.op = "login" => q.knows \in Requests \cup {First}
    /\ q.op = "logout" => q.session \in Requests
    /\ q.op \in {"completing", "complete"} => q.token \in Requests
    /\ q.op \in {"access", "read", "answered"} => q.since \in 1..n
    /\ q.op = "read" => q.permissions \subseteq Permissions
    /\ q.op = "replace" => q.wanted \subseteq Permissions

HandsOK ==
    /\ DOMAIN request = Requests
    /\ \A r \in Requests : InHandOK(request[r], version, Len(eras))

(* The last era is the present one.                                        *)
ErasOK == eras \in Seq(SUBSET Permissions) /\ eras # <<>> /\ eras[Len(eras)] = Effective

TypeInv == SessionsTypeOK /\ ErasOK /\ HandsOK

-----------------------------------------------------------------------------
(* The operators. *)

(* A call is charged to the load.                                          *)
LEMMA Charged ==
  ASSUME left \in Load, NEW bound \in {"logins", "logouts", "revokes", "changes", "resets",
           "completes", "roles", "replaces", "accesses", "expiries"}, Spend(bound)
  PROVE  left' \in Load
BY DEF Load, Spend

(* A request moves on; the others stay where they are.                     *)
LEMMA Moves ==
  ASSUME DOMAIN request = Requests, NEW r \in Requests, NEW next, Becomes(r, next)
  PROVE  /\ DOMAIN request' = Requests
         /\ request'[r] = next
         /\ \A q \in Requests \ {r} : request'[q] = request[q]
BY DEF Becomes

LEMMA InsertType ==
  ASSUME SessionsTypeOK, NEW r \in Requests, NEW v \in 0..version', NEW k \in Requests \cup {First},
         version' \in Nat, version <= version', Insert(r, v, k)
  PROVE  sessions' \in [Requests -> [snapshot : 0..version', knows : Requests \cup {First},
                                     revoked : BOOLEAN, expired : BOOLEAN]]
<1>1. \A s \in Requests : sessions[s].snapshot \in 0..version'
  BY DEF SessionsTypeOK
<1> QED  BY <1>1 DEF SessionsTypeOK, Insert, NoSession

LEMMA RevokeType ==
  ASSUME SessionsTypeOK, NEW rows, Revoke(rows), version' \in Nat, version <= version'
  PROVE  sessions' \in [Requests -> [snapshot : 0..version', knows : Requests \cup {First},
                                     revoked : BOOLEAN, expired : BOOLEAN]]
<1>1. ASSUME NEW s \in Requests, NEW b \in BOOLEAN
      PROVE  [sessions[s] EXCEPT !.revoked = b] \in
               [snapshot : 0..version', knows : Requests \cup {First},
                revoked : BOOLEAN, expired : BOOLEAN]
  BY DEF SessionsTypeOK
<1> QED  BY <1>1, Zenon DEF Revoke

LEMMA EraType ==
  ASSUME ErasOK, NEW effective \in SUBSET Permissions, NewEra(effective)
  PROVE  /\ eras' \in Seq(SUBSET Permissions) /\ eras' # <<>>
         /\ eras'[Len(eras')] = effective
         /\ Len(eras') >= Len(eras)
         /\ \A k \in 1..Len(eras) : eras'[k] = eras[k]
BY DEF ErasOK, NewEra

(* Versions and eras only grow, so what requests have in hand stays good.  *)
LEMMA HandsKept ==
  ASSUME TypeInv, version' \in Nat, version <= version', Len(eras') \in Nat,
         Len(eras) <= Len(eras'),
         \/ UNCHANGED request
         \/ \E r \in Requests : \E next : Becomes(r, next) /\ InHandOK(next, version', Len(eras'))
  PROVE  HandsOK'
<1>1. Len(eras) \in Nat /\ version \in Nat
  BY DEF TypeInv, ErasOK, SessionsTypeOK
<1>2. ASSUME NEW q, InHandOK(q, version, Len(eras))
      PROVE  InHandOK(q, version', Len(eras'))
  BY <1>1, <1>2 DEF InHandOK
<1>3. CASE UNCHANGED request
  BY <1>2, <1>3 DEF TypeInv, HandsOK
<1>4. ASSUME NEW r \in Requests, NEW next, Becomes(r, next), InHandOK(next, version', Len(eras'))
      PROVE  HandsOK'
  BY <1>2, <1>4, Moves DEF TypeInv, HandsOK
<1> QED  BY <1>3, <1>4

LEMMA ErasStay ==
  ASSUME TypeInv, UNCHANGED <<assigned, granted, eras>>
  PROVE  ErasOK' /\ Len(eras') \in Nat /\ Len(eras) <= Len(eras')
BY DEF TypeInv, ErasOK, Effective

(* A request that only reads, or that ends.                                *)
LEMMA ReadType ==
  ASSUME TypeInv, left' \in Load, NEW r \in Requests, NEW next, Becomes(r, next),
         InHandOK(next, version, Len(eras)),
         UNCHANGED <<userVars, roleVars, sessions, tokens, cache>>
  PROVE  TypeInv'
<1>1. ErasOK' /\ Len(eras') \in Nat /\ Len(eras) <= Len(eras')
  BY ErasStay DEF roleVars
<1>2. SessionsTypeOK' /\ version' = version /\ version \in Nat /\ eras' = eras
  BY DEF TypeInv, SessionsTypeOK, userVars, roleVars
<1>3. HandsOK'
  BY <1>1, <1>2, HandsKept
<1> QED  BY <1>1, <1>2, <1>3 DEF TypeInv

(* A later version keeps the rows and the cache within bounds.              *)
LEMMA Grown ==
  ASSUME SessionsTypeOK, version' = version + 1
  PROVE  /\ version' \in Nat \ {0} /\ version <= version'
         /\ DOMAIN cache \subseteq 1..version'
         /\ sessions \in [Requests -> [snapshot : 0..version', knows : Requests \cup {First},
                                       revoked : BOOLEAN, expired : BOOLEAN]]
<1>1. version \in Nat \ {0} /\ 0..version \subseteq 0..version' /\ 1..version \subseteq 1..version'
  BY DEF SessionsTypeOK
<1> QED  BY <1>1 DEF SessionsTypeOK

(* The requests and the history stay as they are, or only a request moves.  *)
LEMMA WriteType ==
  ASSUME TypeInv, SessionsTypeOK', version <= version', UNCHANGED <<assigned, granted, eras>>,
         \/ UNCHANGED request
         \/ \E r \in Requests : \E next : Becomes(r, next) /\ InHandOK(next, version', Len(eras'))
  PROVE  TypeInv'
<1>1. ErasOK' /\ Len(eras') \in Nat /\ Len(eras) <= Len(eras')
  BY ErasStay
<1>2. version' \in Nat
  BY DEF SessionsTypeOK
<1>3. HandsOK'
  BY <1>1, <1>2, HandsKept
<1> QED  BY <1>1, <1>3 DEF TypeInv

-----------------------------------------------------------------------------
(* The calls, one group after another. *)

LEMMA LoginType ==
  ASSUME TypeInv, NEW r \in Requests, LoginNext(r)
  PROVE  TypeInv'
<1>1. CASE LoginReads(r)
  <2>1. left' \in Load
    BY <1>1, Charged DEF LoginReads, Begins, TypeInv, SessionsTypeOK
  <2>2. InHandOK([op |-> "login", version |-> version, knows |-> password, renew |-> dated],
                 version, Len(eras))
    BY DEF InHandOK, TypeInv, SessionsTypeOK
  <2> QED  BY <1>1, <2>1, <2>2, ReadType DEF LoginReads, Begins
<1>2. InHandOK(request[r], version, Len(eras)) /\ version \in Nat
  BY DEF TypeInv, HandsOK, SessionsTypeOK
<1>3. InHandOK([op |-> "done"], version', Len(eras'))
  BY DEF InHandOK
<1>4. CASE LoginSaves(r)
  <2>1. request[r].version \in 0..version /\ request[r].knows \in Requests \cup {First}
        /\ version' = version
    BY <1>2, <1>4 DEF InHandOK, LoginSaves, userVars
  <2>2. sessions' \in [Requests -> [snapshot : 0..version', knows : Requests \cup {First},
                                    revoked : BOOLEAN, expired : BOOLEAN]]
    BY <1>2, <1>4, <2>1, InsertType DEF LoginSaves, TypeInv
  <2>3. SessionsTypeOK'
    BY <1>4, <2>2 DEF LoginSaves, TypeInv, SessionsTypeOK, Ends, Goes, userVars, roleVars
  <2> QED  BY <1>2, <1>3, <1>4, <2>1, <2>3, WriteType DEF LoginSaves, Ends, Goes, roleVars
<1>5. CASE LoginRenews(r)
  <2>1. request[r].knows \in Requests \cup {First} /\ version' = version + 1
    BY <1>2, <1>5 DEF InHandOK, LoginRenews
  <2>2. sessions' \in [Requests -> [snapshot : 0..version', knows : Requests \cup {First},
                                    revoked : BOOLEAN, expired : BOOLEAN]]
    BY <1>2, <1>5, <2>1, InsertType DEF LoginRenews, TypeInv
  <2>3. SessionsTypeOK'
    BY <1>5, <2>1, <2>2, Grown DEF LoginRenews, TypeInv, SessionsTypeOK, Ends, Goes, roleVars
  <2> QED  BY <1>2, <1>3, <1>5, <2>1, <2>3, WriteType DEF LoginRenews, Ends, Goes, roleVars
<1> QED  BY <1>1, <1>4, <1>5 DEF LoginNext

LEMMA LogoutType ==
  ASSUME TypeInv, NEW r \in Requests, LogoutNext(r)
  PROVE  TypeInv'
<1>1. ASSUME NEW s \in Requests, LogoutReads(r, s)
      PROVE  TypeInv'
  <2>1. left' \in Load
    BY <1>1, Charged DEF LogoutReads, Begins, TypeInv, SessionsTypeOK
  <2>2. InHandOK([op |-> "logout", session |-> s], version, Len(eras))
    BY DEF InHandOK
  <2> QED  BY <1>1, <2>1, <2>2, ReadType DEF LogoutReads, Begins
<1>2. CASE LogoutSaves(r)
  <2>1. version' = version /\ version \in Nat
    BY <1>2 DEF LogoutSaves, userVars, TypeInv, SessionsTypeOK
  <2>2. sessions' \in [Requests -> [snapshot : 0..version', knows : Requests \cup {First},
                                    revoked : BOOLEAN, expired : BOOLEAN]]
    BY <1>2, <2>1, RevokeType DEF LogoutSaves, TypeInv
  <2>3. SessionsTypeOK'
    BY <1>2, <2>2 DEF LogoutSaves, TypeInv, SessionsTypeOK, Ends, Goes, userVars, roleVars
  <2>4. InHandOK([op |-> "done"], version', Len(eras'))
    BY DEF InHandOK
  <2> QED  BY <1>2, <2>1, <2>3, <2>4, WriteType DEF LogoutSaves, Ends, Goes, roleVars
<1> QED  BY <1>1, <1>2 DEF LogoutNext

LEMMA PasswordType ==
  ASSUME TypeInv, NEW r \in Requests, PasswordNext(r)
  PROVE  TypeInv'
<1>1. CASE ChangeReads(r)
  <2>1. left' \in Load
    BY <1>1, Charged DEF ChangeReads, Begins, TypeInv, SessionsTypeOK
  <2>2. InHandOK([op |-> "change", version |-> version], version, Len(eras))
    BY DEF InHandOK, TypeInv, SessionsTypeOK
  <2> QED  BY <1>1, <2>1, <2>2, ReadType DEF ChangeReads, Begins
<1>2. ASSUME NEW t \in Requests, CompleteReads(r, t)
      PROVE  TypeInv'
  <2>1. left' \in Load
    BY <1>2, Charged DEF CompleteReads, Begins, TypeInv, SessionsTypeOK
  <2>2. InHandOK([op |-> "completing", token |-> t, version |-> version], version, Len(eras))
    BY DEF InHandOK, TypeInv, SessionsTypeOK
  <2> QED  BY <1>2, <2>1, <2>2, ReadType DEF CompleteReads, Begins
<1>3. InHandOK(request[r], version, Len(eras)) /\ version \in Nat
  BY DEF TypeInv, HandsOK, SessionsTypeOK
<1>4. InHandOK([op |-> "done"], version, Len(eras)) /\ InHandOK([op |-> "done"], version', Len(eras'))
  BY DEF InHandOK
<1>5. CASE Conflicts(r)
  BY <1>4, <1>5, ReadType DEF Conflicts, Ends, Goes, TypeInv, SessionsTypeOK
<1>6. CASE CompleteFinds(r)
  <2> DEFINE next == [op |-> "complete", token |-> request[r].token, version |-> request[r].version,
                found |-> {s \in Requests : sessions[s].snapshot # 0 /\ ~sessions[s].revoked}]
  <2>1. InHandOK(next, version, Len(eras))
    BY <1>3, <1>6 DEF InHandOK, CompleteFinds
  <2> QED  BY <1>6, <2>1, ReadType DEF CompleteFinds, Goes, TypeInv, SessionsTypeOK
<1>7. CASE ChangeSaves(r)
  <2>1. version' = version + 1
    BY <1>7 DEF ChangeSaves, Adopt
  <2>2. SessionsTypeOK'
    BY <1>7, <2>1, Grown DEF ChangeSaves, Adopt, TypeInv, SessionsTypeOK, Ends, Goes, roleVars
  <2> QED  BY <1>3, <1>4, <1>7, <2>1, <2>2, WriteType DEF ChangeSaves, Ends, Goes, roleVars
<1>8. CASE CompleteSaves(r)
  <2>1. version' = version + 1
    BY <1>8 DEF CompleteSaves, Adopt
  <2>2. sessions' \in [Requests -> [snapshot : 0..version', knows : Requests \cup {First},
                                    revoked : BOOLEAN, expired : BOOLEAN]]
    BY <1>3, <1>8, <2>1, RevokeType DEF CompleteSaves, TypeInv
  <2>4. tokens' \in [Requests -> [made : BOOLEAN, sent : BOOLEAN, uses : Nat,
                                  superseded : BOOLEAN, expired : BOOLEAN]]
    <3> DEFINE t == request[r].token
    <3>1. t \in Requests
      BY <1>3, <1>8 DEF InHandOK, CompleteSaves
    <3>2. tokens' = [tokens EXCEPT ![t].uses = tokens[t].uses + 1]
      BY <1>8 DEF CompleteSaves
    <3> QED  BY <3>1, <3>2 DEF TypeInv, SessionsTypeOK
  <2>3. SessionsTypeOK'
    BY <1>8, <2>1, <2>2, <2>4, Grown DEF CompleteSaves, Adopt, TypeInv, SessionsTypeOK, Ends, Goes, roleVars
  <2> QED  BY <1>3, <1>4, <1>8, <2>1, <2>3, WriteType DEF CompleteSaves, Ends, Goes, roleVars
<1> QED  BY <1>1, <1>2, <1>5, <1>6, <1>7, <1>8 DEF PasswordNext

LEMMA ResetType ==
  ASSUME TypeInv, NEW r \in Requests, ResetNext(r)
  PROVE  TypeInv'
<1> DEFINE Row == [made : BOOLEAN, sent : BOOLEAN, uses : Nat, superseded : BOOLEAN, expired : BOOLEAN]
<1>1. CASE ResetReads(r)
  <2>1. left' \in Load
    BY <1>1, Charged DEF ResetReads, Begins, TypeInv, SessionsTypeOK
  <2>2. InHandOK([op |-> "reset", found |-> {t \in Requests : Usable(t)}], version, Len(eras))
    BY DEF InHandOK
  <2> QED  BY <1>1, <2>1, <2>2, ReadType DEF ResetReads, Begins
<1>2. InHandOK([op |-> "done"], version', Len(eras')) /\ InHandOK([op |-> "delivery"], version', Len(eras'))
  BY DEF InHandOK
<1>3. CASE ResetSaves(r)
  <2>1. ASSUME NEW t \in Requests, NEW b \in BOOLEAN
        PROVE  [tokens[t] EXCEPT !.superseded = b] \in Row
    BY DEF TypeInv, SessionsTypeOK
  <2>2. [NoToken EXCEPT !.made = TRUE] \in Row
    BY DEF NoToken
  <2>3. tokens' \in [Requests -> Row]
    BY <1>3, <2>1, <2>2, Zenon DEF ResetSaves
  <2>4. SessionsTypeOK' /\ version' = version
    BY <1>3, <2>3 DEF ResetSaves, TypeInv, SessionsTypeOK, Goes, userVars, roleVars
  <2>5. version <= version' /\ UNCHANGED <<assigned, granted, eras>>
    BY <1>3, <2>4 DEF ResetSaves, roleVars, TypeInv, SessionsTypeOK
  <2> QED  BY <1>2, <1>3, <2>4, <2>5, WriteType DEF ResetSaves, Goes
<1>4. CASE Deliver(r)
  <2>1. SessionsTypeOK' /\ version' = version
    BY <1>4 DEF Deliver, TypeInv, SessionsTypeOK, userVars, roleVars
  <2> QED  BY <1>4, <2>1, WriteType DEF Deliver, roleVars, TypeInv, SessionsTypeOK
<1>5. CASE Delivered(r)
  BY <1>2, <1>5, ReadType DEF Delivered, Ends, Goes, userVars, roleVars, TypeInv, SessionsTypeOK
<1>6. CASE DeliveryFails(r)
  <2>1. SessionsTypeOK' /\ version' = version
    BY <1>6 DEF DeliveryFails, Ends, Goes, TypeInv, SessionsTypeOK, userVars, roleVars
  <2> QED  BY <1>2, <1>6, <2>1, WriteType DEF DeliveryFails, Ends, Goes, roleVars, TypeInv, SessionsTypeOK
<1> QED  BY <1>1, <1>3, <1>4, <1>5, <1>6 DEF ResetNext

LEMMA ReplaceType ==
  ASSUME TypeInv, NEW r \in Requests, ReplaceNext(r)
  PROVE  TypeInv'
<1>1. ASSUME NEW wanted \in SUBSET Permissions, ReplaceReads(r, wanted)
      PROVE  TypeInv'
  <2> DEFINE next == [op |-> "replace", affects |-> assigned, current |-> granted, wanted |-> wanted]
  <2>1. left' \in Load
    BY <1>1, Charged DEF ReplaceReads, Begins, TypeInv, SessionsTypeOK
  <2>2. InHandOK(next, version, Len(eras))
    BY DEF InHandOK
  <2> QED  BY <1>1, <2>1, <2>2, ReadType DEF ReplaceReads, Begins
<1>2. InHandOK([op |-> "done"], version', Len(eras')) /\ InHandOK([op |-> "done"], version, Len(eras))
  BY DEF InHandOK
<1>3. CASE ReplaceConflicts(r)
  BY <1>2, <1>3, ReadType DEF ReplaceConflicts, Ends, Goes, TypeInv, SessionsTypeOK
<1>4. CASE ReplaceSaves(r)
  <2>1. request[r].wanted \subseteq Permissions
    BY <1>4 DEF ReplaceSaves, TypeInv, HandsOK, InHandOK
  <2>2. granted' \subseteq Permissions
    BY <1>4, <2>1 DEF ReplaceSaves, Added, TypeInv, SessionsTypeOK
  <2>3. version' = version \/ version' = version + 1
    BY <1>4 DEF ReplaceSaves, Invalidate
  <2>4. SessionsTypeOK' /\ version <= version'
    <3>1. CASE version' = version
      BY <1>4, <2>2, <3>1 DEF ReplaceSaves, TypeInv, SessionsTypeOK, Ends, Goes
    <3>2. CASE version' = version + 1
      BY <1>4, <2>2, <3>2, Grown DEF ReplaceSaves, TypeInv, SessionsTypeOK, Ends, Goes
    <3> QED  BY <2>3, <3>1, <3>2
  <2>5. Effective' = IF assigned THEN granted' ELSE {}
    BY <1>4 DEF ReplaceSaves, Effective
  <2>6. ErasOK' /\ Len(eras') \in Nat /\ Len(eras) <= Len(eras')
    <3>1. NewEra(Effective') /\ Effective' \in SUBSET Permissions
      BY <1>4, <2>2, <2>5 DEF ReplaceSaves
    <3> QED  BY <3>1, EraType DEF TypeInv, ErasOK
  <2>7. HandsOK'
    BY <1>2, <1>4, <2>4, <2>6, HandsKept DEF ReplaceSaves, Ends, Goes, SessionsTypeOK
  <2> QED  BY <2>4, <2>6, <2>7 DEF TypeInv
<1> QED  BY <1>1, <1>3, <1>4 DEF ReplaceNext

LEMMA AccessType ==
  ASSUME TypeInv, NEW r \in Requests, AccessNext(r)
  PROVE  TypeInv'
<1>1. version \in Nat \ {0} /\ Len(eras) \in Nat \ {0} /\ InHandOK(request[r], version, Len(eras))
  BY DEF TypeInv, HandsOK, SessionsTypeOK, ErasOK
<1>2. Effective \subseteq Permissions
  BY DEF TypeInv, SessionsTypeOK, Effective
<1>3. ASSUME NEW s \in Requests, Validate(r, s)
      PROVE  TypeInv'
  <2>1. left' \in Load
    BY <1>3, Charged DEF Validate, Begins, TypeInv, SessionsTypeOK
  <2>2. InHandOK([op |-> "access", version |-> version, since |-> Len(eras)], version, Len(eras))
    BY <1>1 DEF InHandOK
  <2> QED  BY <1>3, <2>1, <2>2, ReadType DEF Validate, Begins
<1>4. ASSUME NEW permissions, request[r].op \in {"access", "read"}
      PROVE  InHandOK([op |-> "answered", permissions |-> permissions, since |-> request[r].since],
                      version, Len(eras))
  BY <1>1, <1>4 DEF InHandOK
<1>5. CASE FindCached(r)
  BY <1>4, <1>5, ReadType DEF FindCached, Answer, Goes, TypeInv, SessionsTypeOK
<1>6. CASE ReadPermissions(r)
  <2> DEFINE next == [op |-> "read", version |-> request[r].version, since |-> request[r].since,
                      permissions |-> Effective]
  <2>1. InHandOK(next, version, Len(eras))
    BY <1>1, <1>2, <1>6 DEF InHandOK, ReadPermissions
  <2> QED  BY <1>6, <2>1, ReadType DEF ReadPermissions, Goes, TypeInv, SessionsTypeOK
<1>7. CASE StorePermissions(r)
  <2>1. request[r].version \in 1..version /\ request[r].permissions \subseteq Permissions
    BY <1>1, <1>7 DEF InHandOK, StorePermissions
  <2>2. DOMAIN cache' \subseteq 1..version /\ \A key \in DOMAIN cache' : cache'[key] \subseteq Permissions
    BY <1>7, <2>1 DEF StorePermissions, Remember, CacheKey, TypeInv, SessionsTypeOK
  <2>3. SessionsTypeOK' /\ version <= version' /\ UNCHANGED <<assigned, granted, eras, version>>
    BY <1>7, <2>2 DEF StorePermissions, Answer, Goes, TypeInv, SessionsTypeOK, userVars, roleVars
  <2> QED  BY <1>4, <1>7, <2>3, WriteType DEF StorePermissions, Answer, Goes
<1> QED  BY <1>3, <1>5, <1>6, <1>7 DEF AccessNext

LEMMA OtherType ==
  ASSUME TypeInv,
         \/ RevokeAllForUser \/ ChangeRole
         \/ \E r \in Requests : ExpireSession(r) \/ ExpireToken(r)
  PROVE  TypeInv'
<1>1. CASE RevokeAllForUser
  <2>1. left' \in Load
    BY <1>1, Charged DEF RevokeAllForUser, TypeInv, SessionsTypeOK
  <2>2. version' = version /\ version \in Nat
    BY <1>1 DEF RevokeAllForUser, userVars, TypeInv, SessionsTypeOK
  <2>3. sessions' \in [Requests -> [snapshot : 0..version', knows : Requests \cup {First},
                                    revoked : BOOLEAN, expired : BOOLEAN]]
    BY <1>1, <2>2, RevokeType DEF RevokeAllForUser, TypeInv
  <2>4. SessionsTypeOK'
    BY <1>1, <2>1, <2>3 DEF RevokeAllForUser, TypeInv, SessionsTypeOK, userVars, roleVars
  <2> QED  BY <1>1, <2>2, <2>4, WriteType DEF RevokeAllForUser, roleVars
<1>2. CASE ChangeRole
  <2>1. left' \in Load
    BY <1>2, Charged DEF ChangeRole, TypeInv, SessionsTypeOK
  <2>2. version' = version + 1
    BY <1>2 DEF ChangeRole, Invalidate
  <2>3. SessionsTypeOK' /\ version <= version'
    BY <1>2, <2>1, <2>2, Grown DEF ChangeRole, TypeInv, SessionsTypeOK
  <2>4. NewEra(Effective') /\ Effective' \in SUBSET Permissions
    BY <1>2 DEF ChangeRole, Effective, TypeInv, SessionsTypeOK
  <2>5. ErasOK' /\ Len(eras') \in Nat /\ Len(eras) <= Len(eras')
    BY <2>4, EraType DEF TypeInv, ErasOK
  <2>6. HandsOK'
    BY <1>2, <2>3, <2>5, HandsKept DEF ChangeRole, SessionsTypeOK
  <2> QED  BY <2>3, <2>5, <2>6 DEF TypeInv
<1>3. ASSUME NEW s \in Requests, ExpireSession(s)
      PROVE  TypeInv'
  <2>1. left' \in Load
    BY <1>3, Charged DEF ExpireSession, TypeInv, SessionsTypeOK
  <2>2. SessionsTypeOK' /\ version' = version
    BY <1>3, <2>1 DEF ExpireSession, TypeInv, SessionsTypeOK, userVars, roleVars
  <2> QED  BY <1>3, <2>2, WriteType DEF ExpireSession, roleVars, TypeInv, SessionsTypeOK
<1>4. ASSUME NEW t \in Requests, ExpireToken(t)
      PROVE  TypeInv'
  <2>1. left' \in Load
    BY <1>4, Charged DEF ExpireToken, TypeInv, SessionsTypeOK
  <2>2. SessionsTypeOK' /\ version' = version
    <3> DEFINE Token == [made : BOOLEAN, sent : BOOLEAN, uses : Nat,
                         superseded : BOOLEAN, expired : BOOLEAN]
    <3>1. tokens \in [Requests -> Token]
      BY DEF TypeInv, SessionsTypeOK
    <3>2. [tokens[t] EXCEPT !.expired = TRUE] \in Token
      BY <3>1
    <3>3. tokens' = [tokens EXCEPT ![t] = [tokens[t] EXCEPT !.expired = TRUE]]
      BY <1>4 DEF ExpireToken
    <3> HIDE DEF Token
    <3>4. tokens' \in [Requests -> Token]
      BY <3>1, <3>2, <3>3
    <3>5. UNCHANGED <<password, dated, version, sessions, assigned, granted, cache>>
      BY <1>4 DEF ExpireToken, userVars, roleVars
    <3> QED  BY <2>1, <3>4, <3>5 DEF Token, TypeInv, SessionsTypeOK
  <2> QED  BY <1>4, <2>2, WriteType DEF ExpireToken, roleVars, TypeInv, SessionsTypeOK
<1> QED  BY <1>1, <1>2, <1>3, <1>4

-----------------------------------------------------------------------------
LEMMA TypeInit == Init => TypeInv
<1> SUFFICES ASSUME Init PROVE TypeInv
  OBVIOUS
<1>1. SessionsTypeOK
  BY SessionsAssumption DEF Init, SessionsTypeOK, NoSession, NoToken
<1>2. ErasOK
  BY DEF Init, ErasOK, Effective
<1>3. HandsOK
  BY DEF Init, HandsOK, InHandOK
<1> QED  BY <1>1, <1>2, <1>3 DEF TypeInv

LEMMA TypeNext == TypeInv /\ [Next]_vars => TypeInv'
<1> SUFFICES ASSUME TypeInv, [Next]_vars PROVE TypeInv'
  OBVIOUS
<1>1. CASE UNCHANGED vars
  <2>1. SessionsTypeOK' /\ version' = version
    BY <1>1 DEF vars, userVars, roleVars, TypeInv, SessionsTypeOK
  <2> QED  BY <1>1, <2>1, WriteType DEF vars, roleVars, TypeInv, SessionsTypeOK
<1> QED  BY <1>1, LoginType, LogoutType, PasswordType, ResetType, ReplaceType, AccessType,
            OtherType DEF Next

(* The shape of the state; no row, cache entry or reading is ahead of the   *)
(* version of the user (SecurityVersion).                                   *)
THEOREM SessionsAreTyped == Spec => []SessionsTypeOK
<1>1. Spec => []TypeInv
  BY TypeInit, TypeNext, PTL DEF Spec
<1>2. TypeInv => SessionsTypeOK
  BY DEF TypeInv
<1> QED  BY <1>1, <1>2, PTL

-----------------------------------------------------------------------------
(* Reset tokens. *)

(* Resets take turns: the one under way has found every usable token.       *)
TokensInv ==
    \/ "resets" \in overlaps
    \/ /\ \A q, r \in Requests : request[q].op = "reset" /\ request[r].op = "reset" => q = r
       /\ \A q, t \in Requests : request[q].op = "reset" /\ Usable(t) => t \in request[q].found
       /\ \A t, u \in Requests : Usable(t) /\ Usable(u) => t = u

(* Nothing becomes usable and no reset begins.                              *)
LEMMA TokensKept ==
  ASSUME TokensInv, UNCHANGED overlaps,
         \A t \in Requests : Usable(t)' => Usable(t),
         \A q \in Requests : request'[q].op = "reset" => request'[q] = request[q]
  PROVE  TokensInv'
BY DEF TokensInv

LEMMA TokensNext ==
  ASSUME TypeInv, TokensInv, [Next]_vars
  PROVE  TokensInv'
<1> USE DEF TypeInv, HandsOK
<1>1. ASSUME NEW r \in Requests, NEW next, Becomes(r, next), next.op # "reset",
             UNCHANGED <<tokens, overlaps>>
      PROVE  TokensInv'
  BY <1>1, Moves, TokensKept DEF Usable
<1>2. ASSUME UNCHANGED <<request, tokens, overlaps>>
      PROVE  TokensInv'
  BY <1>2, TokensKept DEF Usable
<1>3. ASSUME NEW r \in Requests, LoginNext(r) \/ LogoutNext(r) \/ ReplaceNext(r) \/ AccessNext(r)
      PROVE  TokensInv'
  <2>1. CASE LoginNext(r)
    BY <1>1, <2>1 DEF LoginNext, LoginReads, LoginSaves, LoginRenews, Begins, Ends, Goes
  <2>2. CASE LogoutNext(r)
    BY <1>1, <2>2 DEF LogoutNext, LogoutReads, LogoutSaves, Begins, Ends, Goes
  <2>3. CASE ReplaceNext(r)
    BY <1>1, <2>3 DEF ReplaceNext, ReplaceReads, ReplaceSaves, ReplaceConflicts, Begins, Ends, Goes
  <2>4. CASE AccessNext(r)
    BY <1>1, <2>4 DEF AccessNext, Validate, FindCached, ReadPermissions, StorePermissions,
                      Begins, Answer, Goes
  <2> QED  BY <1>3, <2>1, <2>2, <2>3, <2>4
<1>4. ASSUME NEW r \in Requests, PasswordNext(r)
      PROVE  TokensInv'
  <2>1. CASE CompleteSaves(r)
    <3>1. request[r].token \in Requests
      BY <2>1 DEF CompleteSaves, InHandOK
    <3>2. \A t \in Requests : Usable(t)' => Usable(t)
      BY <2>1, <3>1 DEF CompleteSaves, Usable, SessionsTypeOK
    <3>3. UNCHANGED overlaps /\ \A q \in Requests : request'[q].op = "reset" => request'[q] = request[q]
      BY <2>1, Moves DEF CompleteSaves, Ends, Goes
    <3> QED  BY <3>2, <3>3, TokensKept
  <2>2. CASE ChangeReads(r) \/ ChangeSaves(r) \/ Conflicts(r)
    BY <1>1, <2>2 DEF ChangeReads, ChangeSaves, Conflicts, Begins, Ends, Goes
  <2>3. CASE CompleteFinds(r) \/ \E t \in Requests : CompleteReads(r, t)
    BY <1>1, <2>3 DEF CompleteFinds, CompleteReads, Begins, Goes
  <2> QED  BY <1>4, <2>1, <2>2, <2>3 DEF PasswordNext
<1>5. ASSUME NEW r \in Requests, ResetNext(r)
      PROVE  TokensInv'
  <2>1. CASE ResetReads(r)
    <3>1. /\ request'[r] = [op |-> "reset", found |-> {t \in Requests : Usable(t)}]
          /\ \A q \in Requests \ {r} : request'[q] = request[q]
      BY <2>1, Moves DEF ResetReads, Begins
    <3>2. \A t \in Requests : Usable(t)' = Usable(t)
      BY <2>1 DEF ResetReads, Usable
    <3>3. \/ "resets" \in overlaps'
          \/ overlaps' = overlaps /\ \A q \in Requests : request[q].op # "reset"
      <4>1. overlaps' = overlaps \cup
              (IF \E q \in Requests : request[q].op = "reset" THEN {"resets"} ELSE {})
        BY <2>1 DEF ResetReads
      <4> QED  BY <4>1, Zenon
    <3> QED  BY <3>1, <3>2, <3>3 DEF TokensInv
  <2>2. CASE ResetSaves(r)
    <3>1. \A q \in Requests \ {r} : request'[q] = request[q]
      BY <2>2, Moves DEF ResetSaves, Goes
    <3>2. request'[r].op # "reset" /\ overlaps' = overlaps
      BY <2>2, Moves DEF ResetSaves, Goes
    <3>3. ASSUME NEW t \in Requests \ {r}, Usable(t)'
          PROVE  Usable(t) /\ t \notin request[r].found
      BY <2>2, <3>3 DEF ResetSaves, Usable, Superseded, SessionsTypeOK
    <3>4. CASE "resets" \notin overlaps
      <4>1. \A t \in Requests \ {r} : ~ Usable(t)'
        BY <2>2, <3>3, <3>4 DEF TokensInv, ResetSaves
      <4>2. \A q \in Requests : request'[q].op # "reset"
        BY <2>2, <3>1, <3>2, <3>4 DEF TokensInv, ResetSaves
      <4> QED  BY <4>1, <4>2 DEF TokensInv
    <3> QED  BY <3>2, <3>4 DEF TokensInv
  <2>3. CASE Deliver(r)
    <3>1. \A t \in Requests : Usable(t)' => Usable(t)
      BY <2>3 DEF Deliver, Usable, SessionsTypeOK
    <3> QED  BY <2>3, <3>1, TokensKept DEF Deliver
  <2>4. CASE Delivered(r)
    BY <1>1, <2>4 DEF Delivered, Ends, Goes
  <2>5. CASE DeliveryFails(r)
    <3>1. \A t \in Requests : Usable(t)' => Usable(t)
      BY <2>5 DEF DeliveryFails, Usable, SessionsTypeOK
    <3>2. UNCHANGED overlaps /\ \A q \in Requests : request'[q].op = "reset" => request'[q] = request[q]
      BY <2>5, Moves DEF DeliveryFails, Ends, Goes
    <3> QED  BY <3>1, <3>2, TokensKept
  <2> QED  BY <1>5, <2>1, <2>2, <2>3, <2>4, <2>5 DEF ResetNext
<1>6. CASE RevokeAllForUser
  BY <1>2, <1>6 DEF RevokeAllForUser
<1>7. CASE ChangeRole
  BY <1>7, TokensKept DEF ChangeRole, TokensInv, Usable
<1>8. ASSUME NEW s \in Requests, ExpireSession(s)
      PROVE  TokensInv'
  BY <1>2, <1>8 DEF ExpireSession
<1>9. ASSUME NEW t \in Requests, ExpireToken(t)
      PROVE  TokensInv'
  <2>1. \A u \in Requests : Usable(u)' => Usable(u)
    BY <1>9 DEF ExpireToken, Usable, SessionsTypeOK
  <2> QED  BY <1>9, <2>1, TokensKept DEF ExpireToken
<1>10. CASE UNCHANGED vars
  BY <1>2, <1>10 DEF vars
<1> QED  BY <1>3, <1>4, <1>5, <1>6, <1>7, <1>8, <1>9, <1>10 DEF Next

(* While resets take turns, one reset token is usable at most: the others   *)
(* have been superseded, used or expired (RequestAsync).                    *)
THEOREM OneTokenIsUsable == Spec => []OneUsableToken
<1>1. Init => TokensInv
  BY DEF Init, TokensInv, Usable, NoToken
<1>2. TypeInv /\ TokensInv /\ [Next]_vars => TokensInv'
  BY TokensNext
<1>3. TokensInv => OneUsableToken
  <2> SUFFICES ASSUME TokensInv, "resets" \notin overlaps PROVE OneUsableToken
    BY DEF OneUsableToken
  <2> DEFINE T == {t \in Requests : Usable(t)}
  <2>1. CASE T = {}
    BY <2>1, FS_EmptySet DEF OneUsableToken
  <2>2. CASE T # {}
    <3>1. PICK t \in T : T = {t}
      BY <2>2 DEF TokensInv
    <3>2. Cardinality({t}) = 1
      BY FS_Singleton
    <3> QED  BY <3>1, <3>2 DEF OneUsableToken
  <2> QED  BY <2>1, <2>2
<1> QED  BY <1>1, <1>2, <1>3, TypeInit, TypeNext, PTL DEF Spec

-----------------------------------------------------------------------------
(* Permissions. *)

(* What is read, replaced or cached at the present version is as it is:     *)
(* role changes move the version past every reading and every entry.        *)
FreshInv ==
    \/ "roles" \in overlaps
    \/ /\ \A q \in Requests : request[q].op = "read" /\ request[q].version = version =>
              request[q].permissions = Effective
       /\ \A q \in Requests : request[q].op = "replace" => request[q].affects = assigned
       /\ version \in DOMAIN cache => cache[version] = Effective

(* An account with this history has had permissions p since era k.          *)
Had(history, p, k) == \E j \in k..Len(history) : history[j] = p

(* What a request has been given, or may be given by the cache, now or once *)
(* another has stored what it has read, is what the account had since.      *)
HeldInv ==
    \/ "roles" \in overlaps
    \/ \A q \in Requests :
          /\ request[q].op = "access" =>
                /\ request[q].version \in DOMAIN cache =>
                      Had(eras, cache[request[q].version], request[q].since)
                /\ \A p \in Requests : request[p].op = "read" /\ request[p].version = request[q].version =>
                      Had(eras, request[p].permissions, request[q].since)
          /\ request[q].op \in {"read", "answered"} => Had(eras, request[q].permissions, request[q].since)

(* Requests about other things, also those that move the version.           *)
LEMMA PermissionsKept ==
  ASSUME TypeInv, FreshInv, HeldInv, overlaps \subseteq overlaps',
         UNCHANGED <<roleVars, cache>>, version' = version \/ version' = version + 1,
         DOMAIN request' = Requests,
         \A q \in Requests : \/ request'[q] = request[q]
                             \/ request'[q].op \notin {"access", "read", "answered", "replace"}
  PROVE  FreshInv' /\ HeldInv'
<1> SUFFICES ASSUME "roles" \notin overlaps, "roles" \notin overlaps' PROVE FreshInv' /\ HeldInv'
  BY DEF FreshInv, HeldInv
<1>1. UNCHANGED <<Effective, assigned, eras, cache>>
  BY DEF Effective, roleVars
<1>2. HeldInv'
  BY <1>1 DEF HeldInv
<1>3. CASE version' = version
  BY <1>1, <1>2, <1>3 DEF FreshInv
<1>4. CASE version' = version + 1
  <2>1. version \in Nat /\ DOMAIN cache \subseteq 1..version
    BY DEF TypeInv, SessionsTypeOK
  <2>2. version' \notin DOMAIN cache'
    BY <1>1, <1>4, <2>1
  <2>3. \A q \in Requests : request'[q].op = "read" => request'[q].version # version'
    BY <1>4, <2>1 DEF TypeInv, HandsOK, InHandOK
  <2> QED  BY <1>1, <1>2, <2>2, <2>3 DEF FreshInv
<1> QED  BY <1>2, <1>3, <1>4

LEMMA MovesOn ==
  ASSUME TypeInv, FreshInv, HeldInv, NEW r \in Requests, NEW next, Becomes(r, next),
         next.op \notin {"access", "read", "answered", "replace"}, overlaps \subseteq overlaps',
         UNCHANGED <<roleVars, cache>>, version' = version \/ version' = version + 1
  PROVE  FreshInv' /\ HeldInv'
<1>1. DOMAIN request' = Requests /\ \A q \in Requests :
         request'[q] = request[q] \/ request'[q].op \notin {"access", "read", "answered", "replace"}
  BY Moves DEF TypeInv, HandsOK
<1> QED  BY <1>1, PermissionsKept

LEMMA ReplacePermissions ==
  ASSUME TypeInv, FreshInv, HeldInv, NEW r \in Requests, ReplaceNext(r)
  PROVE  FreshInv' /\ HeldInv'
<1> USE DEF TypeInv, HandsOK
<1>1. ASSUME NEW wanted \in SUBSET Permissions, ReplaceReads(r, wanted)
      PROVE  FreshInv' /\ HeldInv'
  <2>1. /\ DOMAIN request' = Requests
        /\ request'[r] = [op |-> "replace", affects |-> assigned, current |-> granted, wanted |-> wanted]
        /\ \A q \in Requests \ {r} : request'[q] = request[q]
    BY <1>1, Moves DEF ReplaceReads, Begins
  <2>2. UNCHANGED <<version, assigned, eras, cache, overlaps, Effective>>
    BY <1>1 DEF ReplaceReads, userVars, roleVars, Effective
  <2>3. FreshInv'
    BY <2>1, <2>2 DEF FreshInv
  <2>4. HeldInv'
    BY <2>1, <2>2 DEF HeldInv
  <2> QED  BY <2>3, <2>4
<1>2. CASE ReplaceConflicts(r)
  BY <1>2, MovesOn DEF ReplaceConflicts, Ends, Goes, userVars
<1>3. CASE ReplaceSaves(r)
  <2> SUFFICES ASSUME "roles" \notin overlaps, "roles" \notin overlaps' PROVE FreshInv' /\ HeldInv'
    BY <1>3 DEF ReplaceSaves, FreshInv, HeldInv
  <2>1. /\ DOMAIN request' = Requests
        /\ request'[r].op = "done"
        /\ \A q \in Requests \ {r} : request'[q] = request[q]
    BY <1>3, Moves DEF ReplaceSaves, Ends, Goes
  <2>2. request[r].affects = assigned /\ UNCHANGED <<assigned, cache>>
    BY <1>3 DEF ReplaceSaves, FreshInv
  <2>3. /\ Len(eras') \in Nat /\ Len(eras) \in Nat /\ Len(eras') >= Len(eras)
        /\ \A k \in 1..Len(eras) : eras'[k] = eras[k]
    <3>1. granted' \in SUBSET Permissions
      BY <1>3 DEF ReplaceSaves, Added, SessionsTypeOK, InHandOK
    <3> QED  BY <1>3, <3>1, EraType DEF ReplaceSaves, ErasOK
  <2>4. \A p : \A k \in 1..Len(eras) : Had(eras, p, k) => Had(eras', p, k)
    BY <2>3 DEF Had
  <2>5. \A q \in Requests : request[q].op \in {"access", "read", "answered"} =>
              request[q].since \in 1..Len(eras)
    BY DEF InHandOK
  <2>6. HeldInv'
    BY <2>1, <2>2, <2>4, <2>5 DEF HeldInv
  <2>7. CASE assigned
    <3>1. version' = version + 1
      BY <1>3, <2>2, <2>7 DEF ReplaceSaves, Invalidate
    <3>2. version \in Nat /\ DOMAIN cache \subseteq 1..version
      BY DEF SessionsTypeOK
    <3>3. version' \notin DOMAIN cache'
      BY <2>2, <3>1, <3>2
    <3>4. \A q \in Requests : request'[q].op = "read" => request'[q].version # version'
      BY <2>1, <3>1, <3>2 DEF InHandOK
    <3> QED  BY <2>1, <2>2, <2>6, <3>3, <3>4 DEF FreshInv
  <2>8. CASE ~assigned
    <3>1. version' = version /\ Effective' = Effective
      BY <1>3, <2>2, <2>8 DEF ReplaceSaves, Effective
    <3> QED  BY <2>1, <2>2, <2>6, <3>1 DEF FreshInv
  <2> QED  BY <2>7, <2>8
<1> QED  BY <1>1, <1>2, <1>3 DEF ReplaceNext

LEMMA ChangePermissions ==
  ASSUME TypeInv, FreshInv, HeldInv, ChangeRole
  PROVE  FreshInv' /\ HeldInv'
<1> USE DEF TypeInv, HandsOK
<1>1. \/ "roles" \in overlaps'
      \/ overlaps' = overlaps /\ \A q \in Requests : request[q].op # "replace"
  <2>1. overlaps' = overlaps \cup
          (IF \E q \in Requests : request[q].op = "replace" THEN {"roles"} ELSE {})
    BY DEF ChangeRole
  <2> QED  BY <2>1, Zenon
<1> SUFFICES ASSUME "roles" \notin overlaps, \A q \in Requests : request[q].op # "replace"
             PROVE  FreshInv' /\ HeldInv'
  BY <1>1 DEF FreshInv, HeldInv
<1>2. UNCHANGED <<request, cache>> /\ version' = version + 1
  BY DEF ChangeRole, Invalidate
<1>3. /\ Len(eras') \in Nat /\ Len(eras) \in Nat /\ Len(eras') >= Len(eras)
      /\ \A k \in 1..Len(eras) : eras'[k] = eras[k]
  <2>1. NewEra(Effective') /\ Effective' \in SUBSET Permissions
    BY DEF ChangeRole, Effective, SessionsTypeOK
  <2> QED  BY <2>1, EraType DEF ErasOK
<1>4. \A p : \A k \in 1..Len(eras) : Had(eras, p, k) => Had(eras', p, k)
  BY <1>3 DEF Had
<1>5. \A q \in Requests : request[q].op \in {"access", "read", "answered"} =>
          request[q].since \in 1..Len(eras)
  BY DEF InHandOK
<1>6. HeldInv'
  BY <1>2, <1>4, <1>5 DEF HeldInv
<1>7. version \in Nat /\ DOMAIN cache \subseteq 1..version
  BY DEF SessionsTypeOK
<1>8. version' \notin DOMAIN cache'
  BY <1>2, <1>7
<1>9. \A q \in Requests : request'[q].op = "read" => request'[q].version # version'
  BY <1>2, <1>7 DEF InHandOK
<1> QED  BY <1>2, <1>6, <1>8, <1>9 DEF FreshInv

LEMMA AccessPermissions ==
  ASSUME TypeInv, FreshInv, HeldInv, NEW r \in Requests, AccessNext(r)
  PROVE  FreshInv' /\ HeldInv'
<1> USE DEF TypeInv, HandsOK
<1>1. UNCHANGED <<userVars, roleVars, version, assigned, eras, overlaps, Effective>>
  BY DEF AccessNext, Validate, FindCached, ReadPermissions, StorePermissions, userVars, roleVars, Effective
<1> SUFFICES ASSUME "roles" \notin overlaps, "roles" \notin overlaps' PROVE FreshInv' /\ HeldInv'
  BY <1>1 DEF FreshInv, HeldInv
<1>2. /\ Len(eras) \in Nat \ {0} /\ eras[Len(eras)] = Effective
      /\ \A k \in 1..Len(eras) : Had(eras, Effective, k)
  BY DEF ErasOK, Had
<1>3. InHandOK(request[r], version, Len(eras))
  OBVIOUS
<1>4. ASSUME NEW s \in Requests, Validate(r, s)
      PROVE  FreshInv' /\ HeldInv'
  <2>1. /\ request'[r] = [op |-> "access", version |-> version, since |-> Len(eras)]
        /\ \A q \in Requests \ {r} : request'[q] = request[q]
        /\ UNCHANGED cache
    BY <1>4, Moves DEF Validate, Begins
  <2>2. FreshInv'
    BY <1>1, <2>1 DEF FreshInv
  <2>3. version \in DOMAIN cache => Had(eras, cache[version], Len(eras))
    BY <1>2 DEF FreshInv
  <2>4. \A p \in Requests : request[p].op = "read" /\ request[p].version = version =>
             Had(eras, request[p].permissions, Len(eras))
    BY <1>2 DEF FreshInv
  <2>5. HeldInv'
    BY <1>1, <2>1, <2>3, <2>4 DEF HeldInv
  <2> QED  BY <2>2, <2>5
<1>5. CASE FindCached(r)
  <2>1. /\ request'[r] = [op |-> "answered", permissions |-> cache[request[r].version],
                          since |-> request[r].since]
        /\ \A q \in Requests \ {r} : request'[q] = request[q]
        /\ UNCHANGED cache
    BY <1>5, Moves DEF FindCached, Answer, Goes, CacheKey
  <2>2. Had(eras, cache[request[r].version], request[r].since)
    BY <1>5 DEF FindCached, CacheKey, HeldInv
  <2>3. FreshInv'
    BY <1>1, <2>1 DEF FreshInv
  <2>4. HeldInv'
    BY <1>1, <2>1, <2>2 DEF HeldInv
  <2> QED  BY <2>3, <2>4
<1>6. CASE ReadPermissions(r)
  <2>1. /\ request'[r] = [op |-> "read", version |-> request[r].version, since |-> request[r].since,
                          permissions |-> Effective]
        /\ \A q \in Requests \ {r} : request'[q] = request[q]
        /\ UNCHANGED cache
    BY <1>6, Moves DEF ReadPermissions, Goes
  <2>2. \A q \in Requests : request[q].op = "access" => Had(eras, Effective, request[q].since)
    BY <1>2 DEF InHandOK
  <2>3. Had(eras, Effective, request[r].since)
    BY <1>6, <2>2 DEF ReadPermissions
  <2>4. FreshInv'
    BY <1>1, <2>1 DEF FreshInv
  <2>5. HeldInv'
    BY <1>1, <2>1, <2>2, <2>3 DEF HeldInv
  <2> QED  BY <2>4, <2>5
<1>7. CASE StorePermissions(r)
  <2>1. /\ request'[r] = [op |-> "answered", permissions |-> request[r].permissions,
                          since |-> request[r].since]
        /\ \A q \in Requests \ {r} : request'[q] = request[q]
    BY <1>7, Moves DEF StorePermissions, Answer, Goes
  <2>2. \/ cache' = cache
        \/ /\ DOMAIN cache' = DOMAIN cache \cup {request[r].version}
           /\ cache'[request[r].version] = request[r].permissions
           /\ \A key \in DOMAIN cache \ {request[r].version} : cache'[key] = cache[key]
    BY <1>7 DEF StorePermissions, Remember, CacheKey
  <2>3. Had(eras, request[r].permissions, request[r].since)
    BY <1>7 DEF StorePermissions, HeldInv
  <2>4. request[r].version = version => request[r].permissions = Effective
    BY <1>7 DEF StorePermissions, FreshInv
  <2>5. \A q \in Requests : request[q].op = "access" /\ request[q].version = request[r].version =>
            Had(eras, request[r].permissions, request[q].since)
    BY <1>7 DEF StorePermissions, HeldInv
  <2>6. FreshInv'
    BY <1>1, <2>1, <2>2, <2>4 DEF FreshInv
  <2>7. HeldInv'
    BY <1>1, <2>1, <2>2, <2>3, <2>5 DEF HeldInv
  <2> QED  BY <2>6, <2>7
<1> QED  BY <1>4, <1>5, <1>6, <1>7 DEF AccessNext

LEMMA PermissionsNext ==
  ASSUME TypeInv, FreshInv, HeldInv, [Next]_vars
  PROVE  FreshInv' /\ HeldInv'
<1>1. ASSUME UNCHANGED <<request, roleVars, cache, version>>, overlaps \subseteq overlaps'
      PROVE  FreshInv' /\ HeldInv'
  BY <1>1, PermissionsKept DEF TypeInv, HandsOK
<1>2. ASSUME NEW r \in Requests, LoginNext(r) \/ LogoutNext(r)
      PROVE  FreshInv' /\ HeldInv'
  <2>1. CASE LoginNext(r)
    BY <2>1, MovesOn DEF LoginNext, LoginReads, LoginSaves, LoginRenews, Begins, Ends, Goes, userVars
  <2>2. CASE LogoutNext(r)
    BY <2>2, MovesOn DEF LogoutNext, LogoutReads, LogoutSaves, Begins, Ends, Goes, userVars
  <2> QED  BY <1>2, <2>1, <2>2
<1>3. ASSUME NEW r \in Requests, PasswordNext(r)
      PROVE  FreshInv' /\ HeldInv'
  <2>1. CASE ChangeReads(r) \/ ChangeSaves(r) \/ Conflicts(r) \/ CompleteSaves(r)
    BY <2>1, MovesOn DEF ChangeReads, ChangeSaves, Conflicts, CompleteSaves, Adopt,
                         Begins, Ends, Goes, userVars
  <2>2. CASE CompleteFinds(r) \/ \E t \in Requests : CompleteReads(r, t)
    BY <2>2, MovesOn DEF CompleteFinds, CompleteReads, Begins, Goes, userVars
  <2> QED  BY <1>3, <2>1, <2>2 DEF PasswordNext
<1>4. ASSUME NEW r \in Requests, ResetNext(r)
      PROVE  FreshInv' /\ HeldInv'
  <2>1. CASE ResetReads(r)
    BY <2>1, MovesOn DEF ResetReads, Begins, userVars
  <2>2. CASE ResetSaves(r)
    BY <2>2, MovesOn DEF ResetSaves, Goes, userVars
  <2>3. CASE Deliver(r)
    BY <1>1, <2>3 DEF Deliver, userVars
  <2>4. CASE Delivered(r) \/ DeliveryFails(r)
    BY <2>4, MovesOn DEF Delivered, DeliveryFails, Ends, Goes, userVars
  <2> QED  BY <1>4, <2>1, <2>2, <2>3, <2>4 DEF ResetNext
<1>5. CASE RevokeAllForUser \/ \E r \in Requests : ExpireSession(r) \/ ExpireToken(r)
  BY <1>1, <1>5 DEF RevokeAllForUser, ExpireSession, ExpireToken, userVars
<1>6. CASE UNCHANGED vars
  BY <1>1, <1>6 DEF vars, userVars
<1> QED  BY <1>2, <1>3, <1>4, <1>5, <1>6, ReplacePermissions, AccessPermissions, ChangePermissions
         DEF Next

LEMMA PermissionsInit == Init => FreshInv /\ HeldInv
BY DEF Init, FreshInv, HeldInv

(* The cache never shows other permissions for the present version than the *)
(* account has, unless role changes overlapped (SecurityVersionInvalidator,  *)
(* PostgresPermissionResolver).                                             *)
THEOREM CacheStaysCurrent == Spec => []CacheIsCurrent
<1>1. FreshInv => CacheIsCurrent
  BY DEF FreshInv, CacheIsCurrent
<1> QED  BY <1>1, TypeInit, TypeNext, PermissionsInit, PermissionsNext, PTL DEF Spec

(* With the same exception, a request is answered with permissions that the *)
(* account had at some time since its session was validated, whichever      *)
(* requests filled the cache in between.                                    *)
THEOREM AnswersWereEffective == Spec => []PermissionsWereEffective
<1>1. HeldInv => PermissionsWereEffective
  BY DEF HeldInv, Had, PermissionsWereEffective
<1> QED  BY <1>1, TypeInit, TypeNext, PermissionsInit, PermissionsNext, PTL DEF Spec

-----------------------------------------------------------------------------
(* Sessions implements Account. *)

(* What has been read at the present version holds; what a request makes is  *)
(* there only from its last step on.                                        *)
AccountInv ==
    /\ \A r \in Requests : request[r].op = "login" /\ request[r].version = version =>
          request[r].knows = password
    /\ \A s \in Requests : sessions[s].snapshot # 0 => request[s].op = "done"
    /\ \A t \in Requests :
          /\ tokens[t].uses # 0 => tokens[t].made
          /\ tokens[t].made => request[t].op \in {"delivery", "done"}
    /\ \A r \in Requests : request[r].op \in {"completing", "complete"} =>
          /\ tokens[request[r].token].made
          /\ request[r].version = version => tokens[request[r].token].uses = 0
    /\ password \in Requests => request[password].op = "done"

(* A request reads, or ends without having saved anything of its own.       *)
LEMMA AccountRead ==
  ASSUME TypeInv, AccountInv, NEW r \in Requests, NEW next, Becomes(r, next),
         UNCHANGED <<userVars, sessions, tokens>>,
         request[r].op = "done" => next.op = "done",
         request[r].op = "delivery" => next.op \in {"delivery", "done"},
         next.op = "login" /\ next.version = version => next.knows = password,
         next.op \in {"completing", "complete"} =>
            /\ tokens[next.token].made
            /\ next.version = version => tokens[next.token].uses = 0
  PROVE  AccountInv'
<1>1. /\ request'[r] = next
      /\ \A q \in Requests \ {r} : request'[q] = request[q]
  BY Moves DEF TypeInv, HandsOK
<1> QED  BY <1>1 DEF AccountInv, userVars

(* The rows change, the user and the requests do not.                       *)
LEMMA AccountRows ==
  ASSUME TypeInv, AccountInv, UNCHANGED <<request, userVars>>,
         \A s \in Requests : sessions'[s].snapshot = sessions[s].snapshot,
         \A t \in Requests : tokens'[t].made = tokens[t].made /\ tokens'[t].uses = tokens[t].uses
  PROVE  AccountInv'
<1>1. \A r \in Requests : request[r].op \in {"completing", "complete"} => request[r].token \in Requests
  BY DEF TypeInv, HandsOK, InHandOK
<1> QED  BY <1>1 DEF AccountInv, userVars

(* The version moves: what was read before is out of date.                  *)
LEMMA AccountMoves ==
  ASSUME TypeInv, AccountInv, version' = version + 1,
         \A r \in Requests : request'[r] = request[r] \/ request'[r].op = "done",
         \A s \in Requests : sessions'[s].snapshot = sessions[s].snapshot \/ request'[s].op = "done",
         \A t \in Requests : /\ tokens'[t].made = tokens[t].made
                             /\ tokens'[t].uses = tokens[t].uses \/ tokens'[t].made,
         password' \in Requests => request'[password'].op = "done"
  PROVE  AccountInv'
<1>1. \A r \in Requests : request'[r].op \in {"login", "completing", "complete"} =>
          request'[r].version # version' /\ request'[r] = request[r]
  BY DEF TypeInv, SessionsTypeOK, HandsOK, InHandOK
<1>2. \A r \in Requests : request[r].op \in {"completing", "complete"} => request[r].token \in Requests
  BY DEF TypeInv, HandsOK, InHandOK
<1> QED  BY <1>1, <1>2 DEF AccountInv

-----------------------------------------------------------------------------
(* What the sessions show. *)

LEMMA ShownType ==
  ASSUME TypeInv, NEW s \in Requests
  PROVE  /\ Opened(s) = "never" <=> sessions[s].snapshot = 0
         /\ Opened(s) \notin {"never", "ended"} => Valid(s)
         /\ Valid(s) => sessions[s].snapshot # 0 /\ Opened(s) = sessions[s].knows
                        /\ Opened(s) \notin {"never", "ended"}
         /\ sessions[s].snapshot # 0 /\ ~Valid(s) => Opened(s) = "ended"
BY PasswordsAssumption DEF Opened, Valid, TypeInv, SessionsTypeOK

LEMMA ShownStays ==
  ASSUME NEW s \in Requests, UNCHANGED <<version, sessions[s]>>
  PROVE  UNCHANGED Opened(s)
BY DEF Opened, Valid

(* No session is valid at a version later than its own.                     *)
LEMMA ShownEnds ==
  ASSUME TypeInv, NEW s \in Requests, version' = version + 1,
         sessions'[s].snapshot = sessions[s].snapshot
  PROVE  Opened(s)' = IF Opened(s) = "never" THEN "never" ELSE "ended"
BY ShownType DEF Opened, Valid, TypeInv, SessionsTypeOK

-----------------------------------------------------------------------------
(* The steps. *)

Shown == [s \in Requests |-> Opened(s)]
Used == [t \in Requests |-> tokens[t].uses]

Served == [ServedAtOnce!AccountNext]_ServedAtOnce!accountVars

LEMMA Stutters ==
  ASSUME UNCHANGED <<password, Shown, Used>>
  PROVE  Served
BY DEF Served, ServedAtOnce!accountVars, Shown, Used

LEMMA Opens ==
  ASSUME NEW s \in Requests, Opened(s) = "never", Opened(s)' \in {password, "ended"},
         \A q \in Requests \ {s} : UNCHANGED Opened(q), UNCHANGED <<password, Used>>
  PROVE  Served
<1>1. Shown' = [Shown EXCEPT ![s] = Opened(s)']
  BY DEF Shown
<1>2. ServedAtOnce!Open(s)
  BY <1>1 DEF ServedAtOnce!Open, Shown, Used
<1> QED  BY <1>2 DEF Served, ServedAtOnce!AccountNext

LEMMA OpensOnly ==
  ASSUME NEW s \in Requests, Opened(s) = "never", Opened(s)' = password,
         \A q \in Requests \ {s} : Opened(q)' = IF Opened(q) = "never" THEN "never" ELSE "ended",
         UNCHANGED <<password, Used>>
  PROVE  Served
<1>1. Shown' = [ServedAtOnce!EndAll EXCEPT ![s] = password]
  BY DEF Shown, ServedAtOnce!EndAll
<1>2. ServedAtOnce!OpenOnly(s)
  BY <1>1 DEF ServedAtOnce!OpenOnly, Shown, Used
<1> QED  BY <1>2 DEF Served, ServedAtOnce!AccountNext

LEMMA EndsOne ==
  ASSUME NEW s \in Requests, Opened(s) \notin {"never", "ended"}, Opened(s)' = "ended",
         \A q \in Requests \ {s} : UNCHANGED Opened(q), UNCHANGED <<password, Used>>
  PROVE  Served
<1>1. Shown' = [Shown EXCEPT ![s] = "ended"]
  BY DEF Shown
<1>2. ServedAtOnce!End(s)
  BY <1>1 DEF ServedAtOnce!End, Shown, Used
<1> QED  BY <1>2 DEF Served, ServedAtOnce!AccountNext

LEMMA EndsEach ==
  ASSUME \A q \in Requests : Opened(q)' = IF Opened(q) = "never" THEN "never" ELSE "ended"
  PROVE  Shown' = ServedAtOnce!EndAll
BY DEF Shown, ServedAtOnce!EndAll

LEMMA Withdraws ==
  ASSUME Shown' = ServedAtOnce!EndAll, UNCHANGED <<password, Used>>
  PROVE  Served
<1>1. ServedAtOnce!Withdraw
  BY DEF ServedAtOnce!Withdraw, Shown, Used
<1> QED  BY <1>1 DEF Served, ServedAtOnce!AccountNext

LEMMA Changes ==
  ASSUME NEW p \in (Requests \cup {First}) \ {password}, password' = p,
         Shown' = ServedAtOnce!EndAll, UNCHANGED Used
  PROVE  Served
<1>1. ServedAtOnce!Change(p)
  BY DEF ServedAtOnce!Change, ServedAtOnce!ChangeTo, Shown, Used
<1> QED  BY <1>1 DEF Served, ServedAtOnce!AccountNext

LEMMA Resets ==
  ASSUME NEW p \in (Requests \cup {First}) \ {password}, password' = p, NEW t \in Requests,
         Shown' = ServedAtOnce!EndAll, Used[t] = 0, Used' = [Used EXCEPT ![t] = 1]
  PROVE  Served
<1>1. ServedAtOnce!Reset(t, p)
  BY DEF ServedAtOnce!Reset, ServedAtOnce!ChangeTo, Shown, Used
<1> QED  BY <1>1 DEF Served, ServedAtOnce!AccountNext

(* Neither the user nor a row the account shows changes.                    *)
LEMMA Unseen ==
  ASSUME UNCHANGED <<userVars, sessions, Used>>
  PROVE  Served
<1>1. \A s \in Requests : UNCHANGED Opened(s)
  BY ShownStays DEF userVars
<1> QED  BY <1>1, Stutters DEF Shown, userVars

LEMMA LoginServed ==
  ASSUME TypeInv, AccountInv, NEW r \in Requests, LoginNext(r)
  PROVE  AccountInv' /\ Served
<1> USE DEF TypeInv, HandsOK
<1>1. CASE LoginReads(r)
  <2>1. AccountInv'
    BY <1>1, AccountRead DEF LoginReads, Begins
  <2>2. Served
    BY <1>1, Unseen DEF LoginReads, Used
  <2> QED  BY <2>1, <2>2
<1>2. CASE LoginSaves(r)
  <2>1. /\ request'[r] = [op |-> "done"] /\ \A q \in Requests \ {r} : request'[q] = request[q]
        /\ UNCHANGED <<password, version, tokens>>
    BY <1>2, Moves DEF LoginSaves, Ends, Goes, userVars
  <2>2. /\ sessions'[r] = [NoSession EXCEPT !.snapshot = request[r].version, !.knows = request[r].knows]
        /\ \A s \in Requests \ {r} : sessions'[s] = sessions[s]
    BY <1>2 DEF LoginSaves, Insert, SessionsTypeOK
  <2>3. request[r].version \in 1..version /\ version \in Nat
    BY <1>2 DEF LoginSaves, InHandOK, SessionsTypeOK
  <2>4. AccountInv'
    BY <2>1, <2>2 DEF AccountInv, InHandOK
  <2>5. Opened(r) = "never"
    BY <1>2, ShownType DEF LoginSaves, AccountInv
  <2>6. \A s \in Requests \ {r} : UNCHANGED Opened(s)
    BY <2>1, <2>2, ShownStays
  <2>7. Opened(r)' \in {password, "ended"}
    BY <1>2, <2>1, <2>2, <2>3 DEF Opened, Valid, NoSession, LoginSaves, AccountInv
  <2>8. Served
    BY <2>1, <2>5, <2>6, <2>7, Opens DEF Used
  <2> QED  BY <2>4, <2>8
<1>3. CASE LoginRenews(r)
  <2>1. /\ request'[r] = [op |-> "done"] /\ \A q \in Requests \ {r} : request'[q] = request[q]
        /\ UNCHANGED tokens /\ version' = version + 1
    BY <1>3, Moves DEF LoginRenews, Ends, Goes
  <2>2. /\ sessions'[r] = [NoSession EXCEPT !.snapshot = version', !.knows = request[r].knows]
        /\ \A s \in Requests \ {r} : sessions'[s] = sessions[s]
    BY <1>3 DEF LoginRenews, Insert, SessionsTypeOK
  <2>3. password' = password /\ request[r].knows = password
    BY <1>3 DEF LoginRenews, Unmoved, AccountInv
  <2>4. AccountInv'
    BY <2>1, <2>2, <2>3, AccountMoves DEF AccountInv
  <2>5. Opened(r) = "never"
    BY <1>3, ShownType DEF LoginRenews, AccountInv
  <2>6. \A s \in Requests \ {r} : Opened(s)' = IF Opened(s) = "never" THEN "never" ELSE "ended"
    BY <2>1, <2>2, ShownEnds
  <2>7. Opened(r)' = password
    BY <2>1, <2>2, <2>3 DEF Opened, Valid, NoSession, SessionsTypeOK
  <2>8. Served
    BY <2>1, <2>3, <2>5, <2>6, <2>7, OpensOnly DEF Used
  <2> QED  BY <2>4, <2>8
<1> QED  BY <1>1, <1>2, <1>3 DEF LoginNext

LEMMA RevokedRows ==
  ASSUME TypeInv, NEW rows, Revoke(rows)
  PROVE  \A s \in Requests : /\ sessions'[s].snapshot = sessions[s].snapshot
                             /\ s \notin rows => sessions'[s] = sessions[s]
                             /\ s \in rows => sessions'[s].revoked
<1> SUFFICES ASSUME NEW s \in Requests
             PROVE  /\ sessions'[s].snapshot = sessions[s].snapshot
                    /\ s \notin rows => sessions'[s] = sessions[s]
                    /\ s \in rows => sessions'[s].revoked
  OBVIOUS
<1>1. sessions[s] \in [snapshot : 0..version, knows : Requests \cup {First},
                      revoked : BOOLEAN, expired : BOOLEAN]
  BY DEF TypeInv, SessionsTypeOK
<1>2. sessions'[s] = [sessions[s] EXCEPT !.revoked = @ \/ s \in rows]
  BY DEF Revoke
<1> QED  BY <1>1, <1>2

LEMMA LogoutServed ==
  ASSUME TypeInv, AccountInv, NEW r \in Requests, LogoutNext(r)
  PROVE  AccountInv' /\ Served
<1>1. ASSUME NEW s \in Requests, LogoutReads(r, s)
      PROVE  AccountInv' /\ Served
  <2>1. AccountInv'
    BY <1>1, AccountRead DEF LogoutReads, Begins
  <2>2. Served
    BY <1>1, Unseen DEF LogoutReads, Used
  <2> QED  BY <2>1, <2>2
<1>2. CASE LogoutSaves(r)
  <2>1. /\ request'[r] = [op |-> "done"] /\ \A q \in Requests \ {r} : request'[q] = request[q]
        /\ UNCHANGED <<password, version, tokens>>
    BY <1>2, Moves DEF LogoutSaves, Ends, Goes, userVars, TypeInv, HandsOK
  <2>2. PICK s \in Requests : s = request[r].session
    BY <1>2 DEF LogoutSaves, TypeInv, HandsOK, InHandOK
  <2>3. \A q \in Requests : /\ sessions'[q].snapshot = sessions[q].snapshot
                            /\ q # s => sessions'[q] = sessions[q]
                            /\ q = s => sessions'[q].revoked
    BY <1>2, <2>2, RevokedRows DEF LogoutSaves
  <2>4. AccountInv'
    BY <2>1, <2>3 DEF AccountInv, TypeInv, HandsOK, InHandOK
  <2>5. \A q \in Requests \ {s} : UNCHANGED Opened(q)
    BY <2>1, <2>3, ShownStays
  <2>6. CASE Opened(s) \notin {"never", "ended"}
    <3>1. Opened(s)' = "ended"
      BY <2>3, <2>6, ShownType DEF Opened, Valid
    <3> QED  BY <2>1, <2>4, <2>5, <2>6, <3>1, EndsOne DEF Used
  <2>7. CASE Opened(s) \in {"never", "ended"}
    <3>1. Opened(s)' = Opened(s)
      BY <2>3, <2>7, ShownType DEF Opened, Valid
    <3>2. UNCHANGED <<password, Shown, Used>>
      BY <2>1, <2>5, <3>1 DEF Shown, Used
    <3> QED  BY <2>4, <3>2, Stutters
  <2> QED  BY <2>6, <2>7
<1> QED  BY <1>1, <1>2 DEF LogoutNext

LEMMA PasswordServed ==
  ASSUME TypeInv, AccountInv, NEW r \in Requests, PasswordNext(r)
  PROVE  AccountInv' /\ Served
<1> USE DEF TypeInv, HandsOK
<1>1. CASE ChangeReads(r)
  <2>1. AccountInv'
    BY <1>1, AccountRead DEF ChangeReads, Begins
  <2>2. Served
    BY <1>1, Unseen DEF ChangeReads, Used
  <2> QED  BY <2>1, <2>2
<1>2. CASE Conflicts(r)
  <2>1. AccountInv'
    BY <1>2, AccountRead DEF Conflicts, Ends, Goes
  <2>2. Served
    BY <1>2, Unseen DEF Conflicts, Used
  <2> QED  BY <2>1, <2>2
<1>3. ASSUME NEW t \in Requests, CompleteReads(r, t)
      PROVE  AccountInv' /\ Served
  <2>1. AccountInv'
    BY <1>3, AccountRead DEF CompleteReads, Begins, Usable
  <2>2. Served
    BY <1>3, Unseen DEF CompleteReads, Used
  <2> QED  BY <2>1, <2>2
<1>4. CASE CompleteFinds(r)
  <2> DEFINE next == [op |-> "complete", token |-> request[r].token, version |-> request[r].version,
                found |-> {s \in Requests : sessions[s].snapshot # 0 /\ ~sessions[s].revoked}]
  <2>1. /\ tokens[next.token].made
        /\ next.version = version => tokens[next.token].uses = 0
    BY <1>4 DEF CompleteFinds, AccountInv
  <2>2. AccountInv'
    BY <1>4, <2>1, AccountRead DEF CompleteFinds, Goes
  <2>3. Served
    BY <1>4, Unseen DEF CompleteFinds, Used
  <2> QED  BY <2>2, <2>3
<1>5. CASE ChangeSaves(r)
  <2>1. /\ request'[r] = [op |-> "done"] /\ \A q \in Requests \ {r} : request'[q] = request[q]
        /\ UNCHANGED <<sessions, tokens>> /\ password' = r /\ version' = version + 1
    BY <1>5, Moves DEF ChangeSaves, Adopt, Ends, Goes
  <2>2. AccountInv'
    BY <2>1, AccountMoves
  <2>3. r # password
    BY <1>5 DEF ChangeSaves, AccountInv
  <2>4. Shown' = ServedAtOnce!EndAll
    BY <2>1, ShownEnds, EndsEach
  <2>5. Served
    BY <2>1, <2>3, <2>4, Changes DEF Used
  <2> QED  BY <2>2, <2>5
<1>6. CASE CompleteSaves(r)
  <2>1. /\ request'[r] = [op |-> "done"] /\ \A q \in Requests \ {r} : request'[q] = request[q]
        /\ password' = r /\ version' = version + 1
    BY <1>6, Moves DEF CompleteSaves, Adopt, Ends, Goes
  <2>2. PICK t \in Requests : t = request[r].token
    BY <1>6 DEF CompleteSaves, InHandOK
  <2>3. tokens' = [tokens EXCEPT ![t].uses = tokens[t].uses + 1]
    BY <1>6, <2>2 DEF CompleteSaves
  <2>4. tokens[t].uses = 0 /\ tokens[t].made
    BY <1>6, <2>2 DEF CompleteSaves, Unmoved, AccountInv
  <2>5. \A s \in Requests : sessions'[s].snapshot = sessions[s].snapshot
    BY <1>6, RevokedRows DEF CompleteSaves
  <2>6. \A u \in Requests : /\ tokens'[u].made = tokens[u].made
                            /\ tokens'[u].uses = tokens[u].uses \/ tokens'[u].made
    BY <2>3, <2>4 DEF SessionsTypeOK
  <2>7. AccountInv'
    <3>1. \A q \in Requests : request'[q] = request[q] \/ request'[q].op = "done"
      BY <2>1
    <3>2. password' \in Requests => request'[password'].op = "done"
      BY <2>1
    <3> QED  BY <2>1, <2>5, <2>6, <3>1, <3>2, AccountMoves
  <2>8. r # password
    BY <1>6 DEF CompleteSaves, AccountInv
  <2>9. Shown' = ServedAtOnce!EndAll
    BY <2>1, <2>5, ShownEnds, EndsEach
  <2>10. Used[t] = 0 /\ Used' = [Used EXCEPT ![t] = 1]
    <3>1. tokens'[t].uses = 1 /\ \A u \in Requests \ {t} : tokens'[u] = tokens[u]
      BY <2>3, <2>4 DEF SessionsTypeOK
    <3> QED  BY <2>4, <3>1 DEF Used
  <2>11. Served
    BY <2>1, <2>8, <2>9, <2>10, Resets
  <2> QED  BY <2>7, <2>11
<1> QED  BY <1>1, <1>2, <1>3, <1>4, <1>5, <1>6 DEF PasswordNext

LEMMA ResetServed ==
  ASSUME TypeInv, AccountInv, NEW r \in Requests, ResetNext(r)
  PROVE  AccountInv' /\ Served
<1> USE DEF TypeInv, HandsOK
<1>1. CASE ResetReads(r)
  <2>1. AccountInv'
    BY <1>1, AccountRead DEF ResetReads, Begins
  <2>2. Served
    BY <1>1, Unseen DEF ResetReads, Used
  <2> QED  BY <2>1, <2>2
<1>2. CASE ResetSaves(r)
  <2>1. /\ request'[r] = [op |-> "delivery"] /\ \A q \in Requests \ {r} : request'[q] = request[q]
        /\ UNCHANGED <<userVars, sessions, password, version>>
    BY <1>2, Moves DEF ResetSaves, Goes, userVars
  <2>2. tokens[r].uses = 0 /\ ~tokens[r].made
    BY <1>2 DEF ResetSaves, AccountInv
  <2>3. /\ tokens'[r].made /\ tokens'[r].uses = 0
        /\ \A t \in Requests \ {r} : tokens'[t].made = tokens[t].made /\ tokens'[t].uses = tokens[t].uses
    BY <1>2 DEF ResetSaves, NoToken, SessionsTypeOK
  <2>4. AccountInv'
    BY <1>2, <2>1, <2>2, <2>3 DEF AccountInv, InHandOK, ResetSaves
  <2>5. Served
    BY <2>1, <2>2, <2>3, Unseen DEF Used
  <2> QED  BY <2>4, <2>5
<1>3. CASE Deliver(r)
  <2>1. \A t \in Requests : tokens'[t].made = tokens[t].made /\ tokens'[t].uses = tokens[t].uses
    BY <1>3 DEF Deliver, SessionsTypeOK
  <2>2. AccountInv'
    BY <1>3, <2>1, AccountRows DEF Deliver
  <2>3. Served
    BY <1>3, <2>1, Unseen DEF Deliver, Used
  <2> QED  BY <2>2, <2>3
<1>4. CASE Delivered(r)
  <2>1. AccountInv'
    BY <1>4, AccountRead DEF Delivered, Ends, Goes
  <2>2. Served
    BY <1>4, Unseen DEF Delivered, Used
  <2> QED  BY <2>1, <2>2
<1>5. CASE DeliveryFails(r)
  <2>1. /\ request'[r] = [op |-> "done"] /\ \A q \in Requests \ {r} : request'[q] = request[q]
        /\ UNCHANGED <<userVars, sessions, password, version>>
    BY <1>5, Moves DEF DeliveryFails, Ends, Goes, userVars
  <2>2. \A t \in Requests : tokens'[t].made = tokens[t].made /\ tokens'[t].uses = tokens[t].uses
    BY <1>5 DEF DeliveryFails, SessionsTypeOK
  <2>3. AccountInv'
    BY <2>1, <2>2 DEF AccountInv, InHandOK
  <2>4. Served
    BY <2>1, <2>2, Unseen DEF Used
  <2> QED  BY <2>3, <2>4
<1> QED  BY <1>1, <1>2, <1>3, <1>4, <1>5 DEF ResetNext

LEMMA ReplaceServed ==
  ASSUME TypeInv, AccountInv, NEW r \in Requests, ReplaceNext(r)
  PROVE  AccountInv' /\ Served
<1> USE DEF TypeInv, HandsOK
<1>1. ASSUME NEW wanted \in SUBSET Permissions, ReplaceReads(r, wanted)
      PROVE  AccountInv' /\ Served
  <2>1. AccountInv'
    BY <1>1, AccountRead DEF ReplaceReads, Begins
  <2>2. Served
    BY <1>1, Unseen DEF ReplaceReads, Used
  <2> QED  BY <2>1, <2>2
<1>2. CASE ReplaceConflicts(r)
  <2>1. AccountInv'
    BY <1>2, AccountRead DEF ReplaceConflicts, Ends, Goes
  <2>2. Served
    BY <1>2, Unseen DEF ReplaceConflicts, Used
  <2> QED  BY <2>1, <2>2
<1>3. CASE ReplaceSaves(r)
  <2>1. /\ request'[r] = [op |-> "done"] /\ \A q \in Requests \ {r} : request'[q] = request[q]
        /\ UNCHANGED <<password, dated, sessions, tokens>>
        /\ request[r].op = "replace"
        /\ version' = version \/ version' = version + 1
    BY <1>3, Moves DEF ReplaceSaves, Invalidate, Ends, Goes
  <2>2. CASE version' = version + 1
    <3>1. AccountInv'
      BY <2>1, <2>2, AccountMoves DEF AccountInv
    <3>2. Shown' = ServedAtOnce!EndAll
      BY <2>1, <2>2, ShownEnds, EndsEach
    <3>3. Served
      BY <2>1, <3>2, Withdraws DEF Used
    <3> QED  BY <3>1, <3>3
  <2>3. CASE version' = version
    <3>1. AccountInv'
      BY <2>1, <2>3 DEF AccountInv, InHandOK
    <3>2. Served
      BY <2>1, <2>3, Unseen DEF Used, userVars
    <3> QED  BY <3>1, <3>2
  <2> QED  BY <2>1, <2>2, <2>3
<1> QED  BY <1>1, <1>2, <1>3 DEF ReplaceNext

LEMMA AccessServed ==
  ASSUME TypeInv, AccountInv, NEW r \in Requests, AccessNext(r)
  PROVE  AccountInv' /\ Served
<1>1. ASSUME NEW next, Becomes(r, next), next.op \in {"access", "read", "answered"},
             request[r].op \in {"none", "access", "read"}, UNCHANGED <<userVars, sessions, tokens>>
      PROVE  AccountInv'
  BY <1>1, AccountRead
<1>2. ASSUME NEW s \in Requests, Validate(r, s)
      PROVE  AccountInv'
  BY <1>1, <1>2 DEF Validate, Begins
<1>3. ASSUME NEW permissions, Answer(r, permissions), request[r].op \in {"access", "read"},
             UNCHANGED <<userVars, sessions, tokens>>
      PROVE  AccountInv'
  <2> DEFINE next == [op |-> "answered", permissions |-> permissions, since |-> request[r].since]
  <2>1. Becomes(r, next) /\ next.op = "answered"
    BY <1>3 DEF Answer, Goes
  <2> HIDE DEF next
  <2> QED  BY <1>1, <1>3, <2>1
<1>4. ASSUME ReadPermissions(r)
      PROVE  AccountInv'
  <2> DEFINE next == [op |-> "read", version |-> request[r].version, since |-> request[r].since,
                      permissions |-> Effective]
  <2>1. Becomes(r, next) /\ next.op = "read"
    BY <1>4 DEF ReadPermissions, Goes
  <2> HIDE DEF next
  <2> QED  BY <1>1, <1>4, <2>1 DEF ReadPermissions
<1>5. ASSUME FindCached(r) \/ StorePermissions(r)
      PROVE  AccountInv'
  BY <1>3, <1>5 DEF FindCached, StorePermissions
<1>6. Served
  BY Unseen DEF AccessNext, Validate, FindCached, ReadPermissions, StorePermissions, Used
<1> QED  BY <1>2, <1>4, <1>5, <1>6 DEF AccessNext

LEMMA OtherServed ==
  ASSUME TypeInv, AccountInv,
         \/ RevokeAllForUser \/ ChangeRole
         \/ \E r \in Requests : ExpireSession(r) \/ ExpireToken(r)
         \/ UNCHANGED vars
  PROVE  AccountInv' /\ Served
<1> USE DEF TypeInv
<1>1. CASE RevokeAllForUser
  <2>1. UNCHANGED <<password, tokens, request, userVars>>
    BY <1>1 DEF RevokeAllForUser, userVars
  <2>2. \A s \in Requests : sessions'[s].snapshot = sessions[s].snapshot /\ sessions'[s].revoked
    BY <1>1, RevokedRows DEF RevokeAllForUser
  <2>3. AccountInv'
    BY <2>1, <2>2, AccountRows
  <2>4. \A s \in Requests : Opened(s)' = IF Opened(s) = "never" THEN "never" ELSE "ended"
    BY <2>2, ShownType DEF Opened, Valid
  <2>5. Served
    BY <2>1, <2>4, EndsEach, Withdraws DEF Used
  <2> QED  BY <2>3, <2>5
<1>2. CASE ChangeRole
  <2>1. UNCHANGED <<password, tokens, request, sessions>> /\ version' = version + 1
    BY <1>2 DEF ChangeRole, Invalidate
  <2>2. AccountInv'
    BY <2>1, AccountMoves DEF AccountInv
  <2>3. Shown' = ServedAtOnce!EndAll
    BY <2>1, ShownEnds, EndsEach
  <2>4. Served
    BY <2>1, <2>3, Withdraws DEF Used
  <2> QED  BY <2>2, <2>4
<1>3. ASSUME NEW s \in Requests, ExpireSession(s)
      PROVE  AccountInv' /\ Served
  <2>1. UNCHANGED <<password, version, tokens, request, userVars>>
    BY <1>3 DEF ExpireSession, userVars
  <2>2. /\ sessions'[s].snapshot = sessions[s].snapshot /\ sessions'[s].expired
        /\ \A q \in Requests \ {s} : sessions'[q] = sessions[q]
    BY <1>3 DEF ExpireSession, SessionsTypeOK
  <2>3. AccountInv'
    BY <2>1, <2>2, AccountRows
  <2>4. \A q \in Requests \ {s} : UNCHANGED Opened(q)
    BY <2>1, <2>2, ShownStays
  <2>5. Opened(s)' = "ended" /\ Opened(s) # "never"
    BY <1>3, <2>2, ShownType DEF ExpireSession, Opened, Valid
  <2>6. CASE Opened(s) = "ended"
    <3>1. UNCHANGED <<password, Shown, Used>>
      BY <2>1, <2>4, <2>5, <2>6 DEF Shown, Used
    <3> QED  BY <2>3, <3>1, Stutters
  <2>7. CASE Opened(s) # "ended"
    BY <2>1, <2>3, <2>4, <2>5, <2>7, EndsOne DEF Used
  <2> QED  BY <2>6, <2>7
<1>4. ASSUME NEW t \in Requests, ExpireToken(t)
      PROVE  AccountInv' /\ Served
  <2>1. \A u \in Requests : tokens'[u].made = tokens[u].made /\ tokens'[u].uses = tokens[u].uses
    BY <1>4 DEF ExpireToken, SessionsTypeOK
  <2>2. AccountInv'
    BY <1>4, <2>1, AccountRows DEF ExpireToken
  <2>3. Served
    BY <1>4, <2>1, Unseen DEF ExpireToken, Used
  <2> QED  BY <2>2, <2>3
<1>5. CASE UNCHANGED vars
  BY <1>5, AccountRows, Unseen DEF vars, userVars, Used
<1> QED  BY <1>1, <1>2, <1>3, <1>4, <1>5

(* Overlapping logins, password changes, resets, role changes and           *)
(* expirations behave as if the account served each request at once: a new  *)
(* password is never lost, no session outlives it, no token is used twice   *)
(* (SecurityVersion and its concurrency check).                             *)
THEOREM AccountServesAtOnce == Spec => AccountIsAtomic
<1>1. Init => AccountInv /\ ServedAtOnce!AccountInit
  <2> SUFFICES ASSUME Init PROVE AccountInv /\ ServedAtOnce!AccountInit
    OBVIOUS
  <2>1. AccountInv
    BY SessionsAssumption DEF Init, AccountInv, NoSession, NoToken
  <2>2. ServedAtOnce!AccountInit
    <3>1. \A s \in Requests : Opened(s) = "never"
      <4>1. \A s \in Requests : sessions[s].snapshot = 0
        BY DEF Init, NoSession
      <4> QED  BY <4>1 DEF Opened, Valid
    <3> QED  BY <3>1 DEF Init, ServedAtOnce!AccountInit, NoToken
  <2> QED  BY <2>1, <2>2
<1>2. TypeInv /\ AccountInv /\ [Next]_vars => AccountInv' /\ Served
  BY LoginServed, LogoutServed, PasswordServed, ResetServed, ReplaceServed, AccessServed,
     OtherServed DEF Next
<1> QED  BY <1>1, <1>2, TypeInit, TypeNext, PTL
         DEF Spec, AccountIsAtomic, ServedAtOnce!AccountSpec, Served
=============================================================================
