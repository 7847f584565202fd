------------------------------ MODULE Account ------------------------------
(***************************************************************************)
(* What the authentication services promise of one account, as if every    *)
(* request were served at once: a session is opened with the password of   *)
(* the account and is valid until it ends; it ends at the latest when the  *)
(* password or the permissions of the account change, and an ended session *)
(* is never valid again.  A reset token sets a password once.              *)
(***************************************************************************)
EXTENDS Naturals

CONSTANTS
    Sessions, Tokens, Passwords,
    First   \* the password the account starts with

VARIABLES
    secret,  \* the password of the account
    opened,  \* opened[s]: the password s was opened with, or "never" or "ended"
    used     \* used[t]: passwords set with t

accountVars == <<secret, opened, used>>

AccountInit ==
    /\ secret = First
    /\ opened = [s \in Sessions |-> "never"]
    /\ used = [t \in Tokens |-> 0]

EndAll == [s \in Sessions |-> IF opened[s] = "never" THEN "never" ELSE "ended"]

\* Open a session.  It ends at once if the account changed meanwhile.
Open(s) ==
    /\ opened[s] = "never"
    /\ \E how \in {secret, "ended"} : opened' = [opened EXCEPT ![s] = how]
    /\ UNCHANGED <<secret, used>>

\* Open a session and end the others (the stored hash is renewed).
OpenOnly(s) ==
    /\ opened[s] = "never"
    /\ opened' = [EndAll EXCEPT ![s] = secret]
    /\ UNCHANGED <<secret, used>>

End(s) ==
    /\ opened[s] \notin {"never", "ended"}
    /\ opened' = [opened EXCEPT ![s] = "ended"]
    /\ UNCHANGED <<secret, used>>

\* The permissions of the account change, or all of its sessions are revoked.
Withdraw == opened' = EndAll /\ UNCHANGED <<secret, used>>

ChangeTo(p) == secret' = p /\ opened' = EndAll
Change(p) == ChangeTo(p) /\ UNCHANGED used
Reset(t, p) ==
    /\ used[t] = 0
    /\ ChangeTo(p)
    /\ used' = [used EXCEPT ![t] = 1]

AccountNext ==
    \/ \E s \in Sessions : Open(s) \/ OpenOnly(s) \/ End(s)
    \/ Withdraw
    \/ \E p \in Passwords \ {secret} : Change(p) \/ \E t \in Tokens : Reset(t, p)

AccountSpec == AccountInit /\ [][AccountNext]_accountVars
=============================================================================
