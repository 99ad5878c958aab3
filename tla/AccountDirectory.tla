--------------------------- MODULE AccountDirectory ---------------------------
(***************************************************************************)
(* What registration, login and authorisation promise together: a mailbox  *)
(* belongs to at most one account, for good; a session is opened only with *)
(* the account's secret; and a session acts only on its own account, or on *)
(* any when the account is an admin's.                                     *)
(***************************************************************************)
CONSTANTS
  Mailboxes,  \* emails without regard to case
  Secrets,    \* what is compared of a password
  Ids         \* client ids

VARIABLES
  members,    \* the accounts
  sessions,   \* ids a token was issued for
  acted       \* <<session, client>> pairs that were authorised

vars == <<members, sessions, acted>>

Roles == {"CLIENT", "ADMIN"}

Init ==
  /\ members = {}
  /\ sessions = {}
  /\ acted = {}

Join(m, id, role, secret) ==
  /\ \A a \in members : a.mailbox # m /\ a.id # id
  /\ members' = members \cup
       {[mailbox |-> m, id |-> id, role |-> role, secret |-> secret]}
  /\ UNCHANGED <<sessions, acted>>

SignIn(m, secret) ==
  /\ \E a \in members :
       /\ a.mailbox = m
       /\ a.secret = secret
       /\ sessions' = sessions \cup {a.id}
  /\ UNCHANGED <<members, acted>>

Act(id, client) ==
  /\ id \in sessions
  /\ \E a \in members : a.id = id /\ (a.role = "ADMIN" \/ id = client)
  /\ acted' = acted \cup {<<id, client>>}
  /\ UNCHANGED <<members, sessions>>

Next ==
  \/ \E m \in Mailboxes, id \in Ids, role \in Roles, secret \in Secrets :
       Join(m, id, role, secret)
  \/ \E m \in Mailboxes, secret \in Secrets : SignIn(m, secret)
  \/ \E id, client \in Ids : Act(id, client)

Spec == Init /\ [][Next]_vars
===============================================================================
