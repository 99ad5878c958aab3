---------------------------- MODULE AccountsSafety ----------------------------
(***************************************************************************)
(* Correctness of Accounts: type invariant, safety invariants, refinement  *)
(* of AccountDirectory and the inductive invariant its proof rests on.     *)
(***************************************************************************)
EXTENDS Accounts

Registered == {i \in Calls : profiles[i] # NoItem}

(* Type invariant: shapes of items and locals, and that a phase belongs to *)
(* a command of its kind.                                                  *)
TypeOK ==
  /\ profiles \in [Calls -> Profiles \cup {NoItem}]
  /\ emailItems \in [Mailboxes -> Calls \cup {NoItem}]
  /\ indexed \subseteq Registered
  /\ replicated \subseteq Registered
  /\ tokens \in [Calls -> Claims \cup {NoItem}]
  /\ expired \subseteq Calls
  /\ pc \in [Calls -> InFlightPhases \cup {"idle", "done"}]
  /\ cmd \in [Calls -> Commands \cup {NoItem}]
  /\ reply \in [Calls -> ReplyKinds]
  /\ \A r \in Calls :
       /\ pc[r] \in {"save_client", "created"} => cmd[r] \in RegisterCommands
       /\ pc[r] = "get_client_by_email" => cmd[r] \in LoginCommands
       /\ pc[r] \in {"decode_access_token", "get_current_client"}
            => cmd[r] \in AccessCommands

(* One account per mailbox, whatever the spelling and whatever overlaps:   *)
(* the uniqueness item of a mailbox names the only profile that has it,    *)
(* and no item is left without its profile or profile without its item.    *)
OneAccountPerEmail ==
  /\ \A i \in Registered : emailItems[EmailKey(profiles[i].email)] = i
  /\ \A m \in Mailboxes : emailItems[m] # NoItem =>
       /\ emailItems[m] \in Registered
       /\ EmailKey(profiles[emailItems[m]].email) = m

(* A registration that was refused left no account behind, and one that    *)
(* was answered with a client left the account it asked for, a CLIENT      *)
(* unless the seeding script made it.                                      *)
AnswersMatchAccounts ==
  \A r \in Calls :
    /\ reply[r] = "EmailAlreadyExists" => r \notin Registered
    /\ reply[r] = "Created" =>
         /\ r \in Registered
         /\ profiles[r].email = cmd[r].email
         /\ profiles[r].role = "ADMIN" => cmd[r].op = "SEED_ADMIN"

(* A token is for the account whose mailbox and password, up to the 72     *)
(* bytes bcrypt reads, the login presented, and carries that account's     *)
(* role.                                                                   *)
TokenMatchesLogin ==
  \A r \in Calls : tokens[r] # NoItem =>
    LET account == profiles[tokens[r].sub]
    IN  /\ account # NoItem
        /\ EmailKey(account.email) = EmailKey(cmd[r].email)
        /\ account.password_hash = FirstBytes[cmd[r].password]
        /\ account.role = tokens[r].role

(* Access to a client's data is granted only to a token of that client, or *)
(* of an account the seeding script made.                                  *)
GrantedToOwnerOrAdmin ==
  \A r \in Calls : reply[r] = "Granted" =>
    LET caller == tokens[cmd[r].token].sub
    IN  caller = cmd[r].client \/ cmd[caller].op = "SEED_ADMIN"

(* A login with an account's mailbox and password (its first 72 bytes) is  *)
(* refused only while the index does not show the account: the query never *)
(* returns another account of the mailbox instead.                         *)
RefusedLoginsAreWrong ==
  [][\A r \in Calls :
       pc[r] # "done" /\ reply'[r] = "InvalidCredentials" =>
         \A i \in Registered :
           /\ EmailKey(profiles[i].email) = EmailKey(cmd[r].email)
           /\ profiles[i].password_hash = FirstBytes[cmd[r].password]
           => i \notin indexed]_vars

-------------------------------------------------------------------------------
(* Refinement.                                                             *)

AccountOf(i) ==
  [mailbox |-> EmailKey(profiles[i].email), id |-> i,
   role |-> profiles[i].role, secret |-> profiles[i].password_hash]

Directory == INSTANCE AccountDirectory WITH
  Ids      <- Calls,
  members  <- {AccountOf(i) : i \in Registered},
  sessions <- {tokens[r].sub : r \in {t \in Calls : tokens[t] # NoItem}},
  acted    <- {<<tokens[cmd[r].token].sub, cmd[r].client>> :
                 r \in {a \in Calls : reply[a] = "Granted"}}

(* Registration, login and authorisation together implement                *)
(* AccountDirectory, also with a lagging index.                            *)
ImplementsDirectory == Directory!Spec

-------------------------------------------------------------------------------
(* The inductive invariant.                                                *)

(* A profile is the one its own call registered, with its command's data.  *)
ProfilesFromCommands ==
  /\ \A i \in Registered :
       /\ cmd[i] \in RegisterCommands
       /\ profiles[i] = ProfileOf(cmd[i])
       /\ pc[i] \in {"created", "done"}
       /\ reply[i] # "EmailAlreadyExists"
  /\ \A r \in Calls :
       /\ pc[r] = "created" \/ reply[r] = "Created" => r \in Registered
       /\ pc[r] # "done" => reply[r] = "Pending"

(* A token belongs to a login that was answered with it, and an access     *)
(* past the decoding has one.                                              *)
TokensFromLogins ==
  /\ \A r \in Calls : tokens[r] # NoItem =>
       cmd[r] \in LoginCommands /\ pc[r] = "done"
  /\ \A r \in Calls :
       pc[r] = "get_current_client" \/ reply[r] = "Granted" =>
         /\ cmd[r] \in AccessCommands
         /\ cmd[r].token \in Calls
         /\ tokens[cmd[r].token] # NoItem
  /\ \A r \in Calls :
       cmd[r] \in AccessCommands /\ cmd[r].token # NoItem =>
         tokens[cmd[r].token] # NoItem

AccountsInv ==
  /\ TypeOK
  /\ OneAccountPerEmail
  /\ ProfilesFromCommands
  /\ AnswersMatchAccounts
  /\ TokensFromLogins
  /\ TokenMatchesLogin
  /\ GrantedToOwnerOrAdmin
===============================================================================
