------------------------- MODULE SessionProperties -------------------------
(***************************************************************************)
(* What Sessions is checked for.                                           *)
(***************************************************************************)
EXTENDS Sessions

\* The session as the account shows it: valid with the password that opened
\* it, or ended.
Opened(s) ==
    CASE sessions[s].snapshot = 0 -> "never"
      [] Valid(s) -> sessions[s].knows
      [] OTHER -> "ended"

ServedAtOnce == INSTANCE Account WITH
    Sessions <- Requests, Tokens <- Requests, Passwords <- Requests \cup {First},
    secret <- password,
    opened <- [s \in Requests |-> Opened(s)],
    used <- [t \in Requests |-> tokens[t].uses]

\* The services behave as if every request were served at once: overlapping
\* logins, changes, resets and role changes never lose a new password, keep an
\* older session valid or use a reset token twice.
AccountIsAtomic == ServedAtOnce!AccountSpec

\* The shape of the state; nothing is ahead of the version of the user.
SessionsTypeOK ==
    /\ left \in Load
    /\ password \in Requests \cup {First} /\ dated \in BOOLEAN /\ version \in Nat \ {0}
    /\ sessions \in [Requests -> [snapshot : 0..version, knows : Requests \cup {First},
                                  revoked : BOOLEAN, expired : BOOLEAN]]
    /\ tokens \in [Requests -> [made : BOOLEAN, sent : BOOLEAN, uses : Nat,
                                superseded : BOOLEAN, expired : BOOLEAN]]
    /\ assigned \in BOOLEAN /\ granted \subseteq Permissions
    /\ DOMAIN cache \subseteq 1..version
    /\ \A key \in DOMAIN cache : cache[key] \subseteq Permissions

\* The permissions cached for the current version are those of the account:
\* an entry made from an earlier reading never gets under a later version,
\* unless the role was assigned or removed while its permissions were being
\* replaced (ReplaceRolePermissionsAsync, ResolveAsync).
CacheIsCurrent ==
    version \in DOMAIN cache => cache[version] = Effective \/ "roles" \in overlaps

\* A request is answered with permissions the account had at some time since
\* its session was validated, with the same exception.
PermissionsWereEffective ==
    \A r \in Requests : request[r].op = "answered" =>
        \/ \E k \in request[r].since..Len(eras) : eras[k] = request[r].permissions
        \/ "roles" \in overlaps

\* One reset token is usable at a time, unless two requests for one overlapped
\* (RequestAsync supersedes the tokens it has read).
OneUsableToken ==
    Cardinality({t \in Requests : Usable(t)}) <= 1 \/ "resets" \in overlaps
=============================================================================
