----------------------------- MODULE MCSessions -----------------------------
(***************************************************************************)
(* Sessions on small instances.                                            *)
(***************************************************************************)
EXTENDS SessionProperties, TLC

Nothing == [logins |-> 0, logouts |-> 0, revokes |-> 0, changes |-> 0, resets |-> 0,
            completes |-> 0, roles |-> 0, replaces |-> 0, accesses |-> 0, expiries |-> 0]

\* Logins against password changes and logouts; two resets and what they
\* complete; role changes against the requests of a session.
MCLoads == {
    [Nothing EXCEPT !.logins = 2, !.changes = 1, !.logouts = 2],
    [Nothing EXCEPT !.logins = 2, !.changes = 1, !.revokes = 1, !.roles = 1, !.expiries = 1],
    [Nothing EXCEPT !.logins = 1, !.resets = 2, !.completes = 2, !.expiries = 1],
    [Nothing EXCEPT !.logins = 1, !.changes = 1, !.resets = 1, !.completes = 2],
    [Nothing EXCEPT !.logins = 1, !.accesses = 2, !.replaces = 1, !.roles = 1],
    [Nothing EXCEPT !.logins = 2, !.accesses = 2, !.roles = 2],
    [Nothing EXCEPT !.logins = 2, !.accesses = 1, !.replaces = 2, !.roles = 1]}

Symmetry == Permutations(Requests)
=============================================================================
