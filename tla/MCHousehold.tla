---------------------------- MODULE MCHousehold ----------------------------
(***************************************************************************)
(* Households and event delivery on small instances.                       *)
(***************************************************************************)
EXTENDS HouseholdProperties

CONSTANTS api1, api2

Nothing == [invites |-> 0, answers |-> 0, changes |-> 0, days |-> 0,
            opens |-> 0, breaks |-> 0, crashes |-> 0, failures |-> 0]

\* Invitations are made, answered, or both; or bills change while the events
\* are delivered, with each kind of fault.
MCLoads == {
    [Nothing EXCEPT !.invites = 3, !.answers = 1],
    [Nothing EXCEPT !.invites = 1, !.answers = 4, !.days = 1],
    [Nothing EXCEPT !.invites = 2, !.answers = 3],
    [Nothing EXCEPT !.changes = 2, !.opens = 1, !.crashes = 1, !.failures = 1],
    [Nothing EXCEPT !.changes = 2, !.opens = 1, !.breaks = 1, !.failures = 1]}

MCFleets == [load \in MCLoads |-> IF load.opens = 0 THEN {{}} ELSE {{api1}, {api1, api2}}]
=============================================================================
