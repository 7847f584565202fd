------------------------------ MODULE Sessions ------------------------------
(***************************************************************************)
(* Sessions, passwords and permissions of one account of the Proprium API: *)
(* login and logout (PostgresAuthenticationService), the validation of a   *)
(* session (PostgresSessionService), password change and reset             *)
(* (PostgresPasswordChangeService, PostgresPasswordResetService), role     *)
(* changes (SecurityVersionInvalidator) and the permissions of a request,  *)
(* read through a cache (PostgresPermissionResolver).                      *)
(*                                                                         *)
(* A request reads, works and saves later; other requests save between.    *)
(* The user row carries a concurrency token, its SecurityVersion; the      *)
(* rows of sessions and tokens carry none.  A session, a token and a       *)
(* password are named after the request that made them.  Calls that are    *)
(* refused and only write an authentication event are left out.            *)
(***************************************************************************)
EXTENDS Naturals, FiniteSets, Sequences

CONSTANTS
    Requests,     \* bound: the requests of a run, each made once
    First,        \* the password the account starts with
    Permissions,  \* permissions its role may grant
    Loads         \* bounds: the calls a run makes, one load chosen at the start

Load == [logins : Nat, logouts : Nat, revokes : Nat, changes : Nat, resets : Nat,
         completes : Nat, roles : Nat, replaces : Nat, accesses : Nat, expiries : Nat]

ASSUME SessionsAssumption == First \notin Requests /\ Loads \subseteq Load

\* A password is not the name of a state that a session is shown in.
ASSUME PasswordsAssumption == {"never", "ended"} \cap (Requests \cup {First}) = {}

VARIABLES
    left,      \* what is left of the load
    password,  \* PasswordHash: the password it was made from
    dated,     \* the hash is of an older format, to be renewed at the next login
    version,   \* SecurityVersion
    sessions,  \* session rows
    tokens,    \* password reset tokens
    assigned,  \* the account has the role
    granted,   \* permissions of the role
    cache,     \* permissions cached, by version
    request,   \* request[r]: what r has read, by which its place in the code shows
    \* history
    eras,      \* the permissions the account has had
    overlaps   \* which calls have overlapped: "resets", "roles"

userVars == <<password, dated, version>>
roleVars == <<assigned, granted, eras>>
vars == <<left, userVars, roleVars, sessions, tokens, cache, request, overlaps>>

NoSession == [snapshot |-> 0, knows |-> First, revoked |-> FALSE, expired |-> FALSE]
NoToken == [made |-> FALSE, sent |-> FALSE, uses |-> 0, superseded |-> FALSE, expired |-> FALSE]

Effective == IF assigned THEN granted ELSE {}

Init ==
    /\ left \in Loads
    /\ password = First /\ dated \in BOOLEAN /\ version = 1
    /\ sessions = [r \in Requests |-> NoSession]
    /\ tokens = [r \in Requests |-> NoToken]
    /\ assigned \in BOOLEAN /\ granted \in SUBSET Permissions
    /\ eras = <<Effective>>
    /\ cache = [key \in {} |-> {}]
    /\ request = [r \in Requests |-> [op |-> "none"]]
    /\ overlaps = {}

Spend(bound) == left[bound] > 0 /\ left' = [left EXCEPT ![bound] = @ - 1]
Becomes(r, next) == request' = [request EXCEPT ![r] = next]
Begins(r, bound, next) == request[r].op = "none" /\ Spend(bound) /\ Becomes(r, next)
Goes(r, next) == UNCHANGED left /\ Becomes(r, next)
Ends(r) == Goes(r, [op |-> "done"])

(* Mistaken variant: the user row carries no concurrency token.             *)
UnmovedAnyway(q) == TRUE

\* The user row still has the version q has read, so that q can save it.
Unmoved(q) == version = q.version

\* ValidateAsync accepts session s.
Valid(s) ==
    LET row == sessions[s] IN
    row.snapshot # 0 /\ ~row.expired /\ ~row.revoked /\ row.snapshot = version

\* Token t is neither consumed nor superseded nor expired.
Usable(t) ==
    tokens[t].made /\ tokens[t].uses = 0 /\ ~tokens[t].superseded /\ ~tokens[t].expired

Insert(r, snapshot, knows) ==
    sessions' = [sessions EXCEPT ![r] = [NoSession EXCEPT !.snapshot = snapshot, !.knows = knows]]
Revoke(rows) ==
    sessions' = [s \in Requests |-> [sessions[s] EXCEPT !.revoked = @ \/ s \in rows]]

-----------------------------------------------------------------------------
\* LoginAsync reads the user and verifies the password typed.
LoginReads(r) ==
    /\ Begins(r, "logins", [op |-> "login", version |-> version, knows |-> password, renew |-> dated])
    /\ UNCHANGED <<userVars, roleVars, sessions, tokens, cache, overlaps>>

\* It inserts a session with the version it has read,
LoginSaves(r) ==
    /\ request[r].op = "login" /\ ~request[r].renew
    /\ Insert(r, request[r].version, request[r].knows)
    /\ Ends(r)
    /\ UNCHANGED <<userVars, roleVars, tokens, cache, overlaps>>

\* or, with a renewed hash, with the next version.
LoginRenews(r) ==
    /\ request[r].op = "login" /\ request[r].renew /\ Unmoved(request[r])
    /\ password' = request[r].knows /\ dated' = FALSE /\ version' = version + 1
    /\ Insert(r, version', request[r].knows)
    /\ Ends(r)
    /\ UNCHANGED <<roleVars, tokens, cache, overlaps>>

(* Mistaken variant: with a new password the versions start again.          *)
AdoptAnew(p) == password' = p /\ dated' = FALSE /\ version' = 1

\* A new password, saved with the next version.
Adopt(p) == password' = p /\ dated' = FALSE /\ version' = version + 1

ChangeReads(r) ==
    /\ Begins(r, "changes", [op |-> "change", version |-> version])
    /\ UNCHANGED <<userVars, roleVars, sessions, tokens, cache, overlaps>>
ChangeSaves(r) ==
    /\ request[r].op = "change" /\ Unmoved(request[r])
    /\ Adopt(r)
    /\ Ends(r)
    /\ UNCHANGED <<roleVars, sessions, tokens, cache, overlaps>>

\* A request that would save the user finds another version: it rolls back.
Conflicts(r) ==
    /\ \/ request[r].op \in {"change", "complete"}
       \/ request[r].op = "login" /\ request[r].renew
    /\ ~Unmoved(request[r])
    /\ Ends(r)
    /\ UNCHANGED <<userVars, roleVars, sessions, tokens, cache, overlaps>>

-----------------------------------------------------------------------------
(* Mistaken variant: a new reset leaves the older tokens as they are.       *)
SupersededNone(r) == {}

\* LogoutAsync reads the session,
LogoutReads(r, s) ==
    /\ sessions[s].snapshot # 0 /\ ~sessions[s].revoked
    /\ Begins(r, "logouts", [op |-> "logout", session |-> s])
    /\ UNCHANGED <<userVars, roleVars, sessions, tokens, cache, overlaps>>

\* and revokes it, unless it has been revoked meanwhile.
LogoutSaves(r) ==
    /\ request[r].op = "logout"
    /\ Revoke({request[r].session})
    /\ Ends(r)
    /\ UNCHANGED <<userVars, roleVars, tokens, cache, overlaps>>

RevokeAllForUser ==
    /\ Spend("revokes")
    /\ Revoke(Requests)
    /\ UNCHANGED <<userVars, roleVars, tokens, cache, request, overlaps>>

ExpireSession(s) ==
    /\ sessions[s].snapshot # 0 /\ ~sessions[s].expired
    /\ Spend("expiries")
    /\ sessions' = [sessions EXCEPT ![s].expired = TRUE]
    /\ UNCHANGED <<userVars, roleVars, tokens, cache, request, overlaps>>
ExpireToken(t) ==
    /\ tokens[t].made /\ ~tokens[t].expired
    /\ Spend("expiries")
    /\ tokens' = [tokens EXCEPT ![t].expired = TRUE]
    /\ UNCHANGED <<userVars, roleVars, sessions, cache, request, overlaps>>

-----------------------------------------------------------------------------
\* RequestAsync reads the usable tokens,
ResetReads(r) ==
    /\ Begins(r, "resets", [op |-> "reset", found |-> {t \in Requests : Usable(t)}])
    /\ overlaps' = overlaps \cup
          (IF \E q \in Requests : request[q].op = "reset" THEN {"resets"} ELSE {})
    /\ UNCHANGED <<userVars, roleVars, sessions, tokens, cache>>

\* supersedes them and inserts its own,
Superseded(r) == request[r].found

ResetSaves(r) ==
    /\ request[r].op = "reset"
    /\ tokens' = [t \in Requests |->
          IF t = r THEN [NoToken EXCEPT !.made = TRUE]
          ELSE [tokens[t] EXCEPT !.superseded = @ \/ t \in Superseded(r)]]
    /\ Goes(r, [op |-> "delivery"])
    /\ UNCHANGED <<userVars, roleVars, sessions, cache, overlaps>>

\* and sends it.
Deliver(r) ==
    /\ request[r].op = "delivery" /\ ~tokens[r].sent
    /\ tokens' = [tokens EXCEPT ![r].sent = TRUE]
    /\ UNCHANGED <<left, userVars, roleVars, sessions, cache, request, overlaps>>
Delivered(r) ==
    /\ request[r].op = "delivery" /\ tokens[r].sent
    /\ Ends(r)
    /\ UNCHANGED <<userVars, roleVars, sessions, tokens, cache, overlaps>>

\* The delivery reports a failure, rightly or not: the token is superseded.
DeliveryFails(r) ==
    /\ request[r].op = "delivery"
    /\ tokens' = [tokens EXCEPT ![r].superseded = TRUE]
    /\ Ends(r)
    /\ UNCHANGED <<userVars, roleVars, sessions, cache, overlaps>>

\* CompleteAsync reads token and user, then the sessions to revoke.
CompleteReads(r, t) ==
    /\ tokens[t].sent /\ Usable(t)
    /\ Begins(r, "completes", [op |-> "completing", token |-> t, version |-> version])
    /\ UNCHANGED <<userVars, roleVars, sessions, tokens, cache, overlaps>>
CompleteFinds(r) ==
    /\ request[r].op = "completing"
    /\ Goes(r, [op |-> "complete", token |-> request[r].token, version |-> request[r].version,
                found |-> {s \in Requests : sessions[s].snapshot # 0 /\ ~sessions[s].revoked}])
    /\ UNCHANGED <<userVars, roleVars, sessions, tokens, cache, overlaps>>
CompleteSaves(r) ==
    /\ request[r].op = "complete" /\ Unmoved(request[r])
    /\ Adopt(r)
    /\ tokens' = [tokens EXCEPT ![request[r].token].uses = @ + 1]
    /\ Revoke(request[r].found)
    /\ Ends(r)
    /\ UNCHANGED <<roleVars, cache, overlaps>>

-----------------------------------------------------------------------------
(* Mistaken variants: role changes leave the version as it is; the cache    *)
(* does not tell versions apart.                                            *)
InvalidateNothing == UNCHANGED version
OneKey(q) == 1

\* IncrementAsync, in the transaction of the change.
Invalidate == version' = version + 1

\* Permissions are cached for a user and a version.
CacheKey(q) == q.version

\* The account may have other permissions from now on.
NewEra(effective) == eras' = IF effective = Effective THEN eras ELSE Append(eras, effective)

\* AssignRoleAsync and RemoveRoleAsync, each one transaction.
ChangeRole ==
    /\ Spend("roles")
    /\ assigned' = ~assigned
    /\ Invalidate
    /\ NewEra(IF assigned THEN {} ELSE granted)
    /\ overlaps' = overlaps \cup
          (IF \E q \in Requests : request[q].op = "replace" THEN {"roles"} ELSE {})
    /\ UNCHANGED <<password, dated, granted, sessions, tokens, cache, request>>

\* ReplaceRolePermissionsAsync reads who has the role, then its permissions,
ReplaceReads(r, wanted) ==
    /\ wanted # granted
    /\ Begins(r, "replaces",
          [op |-> "replace", affects |-> assigned, current |-> granted, wanted |-> wanted])
    /\ UNCHANGED <<userVars, roleVars, sessions, tokens, cache, overlaps>>

Removed(q) == q.current \ q.wanted
Added(q) == q.wanted \ q.current
Replaceable(q) == Removed(q) \subseteq granted /\ Added(q) \cap granted = {}

\* and deletes, inserts and invalidates as it has read.
ReplaceSaves(r) ==
    LET q == request[r] IN
    /\ q.op = "replace" /\ Replaceable(q)
    /\ granted' = (granted \ Removed(q)) \cup Added(q)
    /\ IF q.affects THEN Invalidate ELSE UNCHANGED version
    /\ NewEra(IF assigned THEN granted' ELSE {})
    /\ Ends(r)
    /\ UNCHANGED <<password, dated, assigned, sessions, tokens, cache, overlaps>>

\* The rows are no longer as it has read them: it rolls back.
ReplaceConflicts(r) ==
    /\ request[r].op = "replace" /\ ~Replaceable(request[r])
    /\ Ends(r)
    /\ UNCHANGED <<userVars, roleVars, sessions, tokens, cache, overlaps>>

-----------------------------------------------------------------------------
\* HandleAuthenticateAsync validates the session of a request,
Validate(r, s) ==
    /\ Valid(s)
    /\ Begins(r, "accesses", [op |-> "access", version |-> version, since |-> Len(eras)])
    /\ UNCHANGED <<userVars, roleVars, sessions, tokens, cache, overlaps>>

Answer(r, permissions) ==
    Goes(r, [op |-> "answered", permissions |-> permissions, since |-> request[r].since])

\* and ResolveAsync finds its permissions in the cache,
FindCached(r) ==
    /\ request[r].op = "access" /\ CacheKey(request[r]) \in DOMAIN cache
    /\ Answer(r, cache[CacheKey(request[r])])
    /\ UNCHANGED <<userVars, roleVars, sessions, tokens, cache, overlaps>>

\* or, when the entry is missing or expired or the cache is out, reads them
ReadPermissions(r) ==
    /\ request[r].op = "access"
    /\ Goes(r, [op |-> "read", version |-> request[r].version, since |-> request[r].since,
                permissions |-> Effective])
    /\ UNCHANGED <<userVars, roleVars, sessions, tokens, cache, overlaps>>

\* and puts them into the cache, if that is not out.
Remember(q) == [key \in DOMAIN cache \cup {CacheKey(q)} |->
    IF key = CacheKey(q) THEN q.permissions ELSE cache[key]]

StorePermissions(r) ==
    /\ request[r].op = "read"
    /\ cache' \in {cache, Remember(request[r])}
    /\ Answer(r, request[r].permissions)
    /\ UNCHANGED <<userVars, roleVars, sessions, tokens, overlaps>>

-----------------------------------------------------------------------------
LoginNext(r) == LoginReads(r) \/ LoginSaves(r) \/ LoginRenews(r)
LogoutNext(r) == LogoutSaves(r) \/ \E s \in Requests : LogoutReads(r, s)
PasswordNext(r) ==
    \/ ChangeReads(r) \/ ChangeSaves(r) \/ Conflicts(r)
    \/ CompleteFinds(r) \/ CompleteSaves(r) \/ \E t \in Requests : CompleteReads(r, t)
ResetNext(r) == ResetReads(r) \/ ResetSaves(r) \/ Deliver(r) \/ Delivered(r) \/ DeliveryFails(r)
ReplaceNext(r) ==
    \/ ReplaceSaves(r) \/ ReplaceConflicts(r)
    \/ \E wanted \in SUBSET Permissions : ReplaceReads(r, wanted)
AccessNext(r) ==
    \/ FindCached(r) \/ ReadPermissions(r) \/ StorePermissions(r)
    \/ \E s \in Requests : Validate(r, s)

Next ==
    \/ \E r \in Requests : LoginNext(r) \/ LogoutNext(r) \/ PasswordNext(r) \/ ResetNext(r)
                           \/ ReplaceNext(r) \/ AccessNext(r)
    \/ RevokeAllForUser \/ ChangeRole
    \/ \E r \in Requests : ExpireSession(r) \/ ExpireToken(r)

Spec == Init /\ [][Next]_vars
=============================================================================
