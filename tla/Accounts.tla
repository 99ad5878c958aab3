------------------------------- MODULE Accounts -------------------------------
(***************************************************************************)
(* Registration, login and authorisation: POST /auth/register, the         *)
(* seed_admin script, POST /auth/login, and the dependencies every         *)
(* /clients/{client_id} endpoint runs before its use case.  A call is a    *)
(* process that makes at most one boto3 call per step; calls interleave.   *)
(* A client id is the call that registered it, as new_id is a fresh uuid.  *)
(***************************************************************************)
CONSTANTS
  Calls,       \* calls that may arrive; also the client ids they create
  Emails,      \* email addresses as spelled by callers
  Mailboxes,   \* their lower-case forms
  LowerCase,   \* LowerCase[e]: the lower-case form of e
  Passwords,
  Secrets,     \* the first 72 bytes of a password, all bcrypt looks at
  FirstBytes,  \* FirstBytes[p]: the secret of p
  NoItem,      \* absent item, absent or unreadable token
  StaleReads   \* TRUE: the index and a replica of the table may lag

Roles == {"CLIENT", "ADMIN"}

Profiles == [email : Emails, role : Roles, password_hash : Secrets]

(* What a token carries. *)
Claims == [sub : Calls, role : Roles]

RegisterCommands ==
  [op : {"REGISTER", "SEED_ADMIN"}, email : Emails, password : Passwords]

LoginCommands == [op : {"LOGIN"}, email : Emails, password : Passwords]

(* The bearer token and the client id in the path. *)
AccessCommands == [op : {"ACCESS"}, token : Calls \cup {NoItem}, client : Calls]

Commands == RegisterCommands \cup LoginCommands \cup AccessCommands

ASSUME AccountsAssumption ==
  /\ LowerCase \in [Emails -> Mailboxes]
  /\ FirstBytes \in [Passwords -> Secrets]
  /\ StaleReads \in BOOLEAN
  /\ NoItem \notin Calls \cup Profiles \cup Claims \cup Commands

VARIABLES
  profiles,    \* profiles[i]: the profile item of client i, or NoItem
  emailItems,  \* emailItems[m]: the client the uniqueness item names, or NoItem
  indexed,     \* clients whose profile GSI1 shows
  replicated,  \* clients whose profile the lagging replica shows
  tokens,      \* tokens[r]: the claims of the token login r got, or NoItem
  expired,     \* logins whose token has expired
  pc,          \* pc[r]: the next step of call r
  cmd,         \* cmd[r]: its input, NoItem before it arrives
  reply        \* reply[r]: its answer

table == <<profiles, emailItems, indexed, replicated>>

vars == <<table, tokens, expired, pc, cmd, reply>>

InFlightPhases == {"save_client", "created", "get_client_by_email",
                   "decode_access_token", "get_current_client"}

ReplyKinds == {"Pending", "Created", "EmailAlreadyExists", "Token",
               "InvalidCredentials", "Unauthorized", "Forbidden", "Granted",
               "ServerError"}

Answer(r, kind) ==
  /\ pc' = [pc EXCEPT ![r] = "done"]
  /\ reply' = [reply EXCEPT ![r] = kind]

Goto(r, phase) == pc' = [pc EXCEPT ![r] = phase] /\ UNCHANGED reply

(* email_key: partition of the uniqueness item and of GSI1. *)
EmailKey(email) == LowerCase[email]

(* BcryptPasswordHasher.hash; a salt makes hashes differ, verify undoes it. *)
Hash(password) == FirstBytes[password]

(* Mutant: verify does not compare. *)
Verify_Always(password, hash) == TRUE

Verify(password, hash) == FirstBytes[password] = hash

-------------------------------------------------------------------------------
Init ==
  /\ profiles = [i \in Calls |-> NoItem]
  /\ emailItems = [m \in Mailboxes |-> NoItem]
  /\ indexed = {}
  /\ replicated = {}
  /\ tokens = [r \in Calls |-> NoItem]
  /\ expired = {}
  /\ pc = [r \in Calls |-> "idle"]
  /\ cmd = [r \in Calls |-> NoItem]
  /\ reply = [r \in Calls |-> "Pending"]

FirstPhase(op) ==
  IF op = "LOGIN" THEN "get_client_by_email"
  ELSE IF op = "ACCESS" THEN "decode_access_token"
  ELSE "save_client"

(* A caller presents a token some login got, or none that can be decoded. *)
Arrive(r, command) ==
  /\ pc[r] = "idle"
  /\ command.op = "ACCESS" =>
       command.token \in {NoItem} \cup {t \in Calls : tokens[t] # NoItem}
  /\ cmd' = [cmd EXCEPT ![r] = command]
  /\ Goto(r, FirstPhase(command.op))
  /\ UNCHANGED <<table, tokens, expired>>

-------------------------------------------------------------------------------
(* Registration.                                                           *)

(* CreateClientUseCase always creates a CLIENT, seed_admin an ADMIN. *)
RoleFor(op) == IF op = "SEED_ADMIN" THEN "ADMIN" ELSE "CLIENT"

ProfileOf(command) ==
  [email |-> command.email, role |-> RoleFor(command.op),
   password_hash |-> Hash(command.password)]

(* Mutant: the uniqueness item loses its attribute_not_exists condition. *)
EmailIsFree_Unguarded(email) == TRUE

EmailIsFree(email) == emailItems[EmailKey(email)] = NoItem

(* Mutant: the profile is put alone. *)
SaveClient_ProfileOnly(r) ==
  /\ pc[r] = "save_client"
  /\ EmailIsFree(cmd[r].email)
  /\ profiles' = [profiles EXCEPT ![r] = ProfileOf(cmd[r])]
  /\ indexed' = IF StaleReads THEN indexed ELSE indexed \cup {r}
  /\ replicated' = IF StaleReads THEN replicated ELSE replicated \cup {r}
  /\ Goto(r, "created")
  /\ UNCHANGED <<emailItems, tokens, expired, cmd>>

(* save_client commits: the profile and the uniqueness item in one         *)
(* transaction.                                                            *)
SaveClient(r) ==
  /\ pc[r] = "save_client"
  /\ EmailIsFree(cmd[r].email)
  /\ profiles' = [profiles EXCEPT ![r] = ProfileOf(cmd[r])]
  /\ emailItems' = [emailItems EXCEPT ![EmailKey(cmd[r].email)] = r]
  /\ indexed' = IF StaleReads THEN indexed ELSE indexed \cup {r}
  /\ replicated' = IF StaleReads THEN replicated ELSE replicated \cup {r}
  /\ Goto(r, "created")
  /\ UNCHANGED <<tokens, expired, cmd>>

(* Mutant: the two puts are separate, and the profile's came first. *)
EmailTaken_ProfileStays(r) ==
  /\ pc[r] = "save_client"
  /\ ~EmailIsFree(cmd[r].email)
  /\ profiles' = [profiles EXCEPT ![r] = ProfileOf(cmd[r])]
  /\ Answer(r, "EmailAlreadyExists")
  /\ UNCHANGED <<emailItems, indexed, replicated, tokens, expired, cmd>>

(* The transaction is cancelled: the uniqueness item exists. *)
EmailTaken(r) ==
  /\ pc[r] = "save_client"
  /\ ~EmailIsFree(cmd[r].email)
  /\ Answer(r, "EmailAlreadyExists")
  /\ UNCHANGED <<table, tokens, expired, cmd>>

(* The transaction is cancelled with TransactionConflict, another one      *)
(* being about to write the same uniqueness item; save_client raises the   *)
(* same error for every cancellation.                                      *)
SaveConflicted(r) ==
  /\ pc[r] = "save_client"
  /\ \E q \in Calls \ {r} :
       /\ pc[q] = "save_client"
       /\ EmailKey(cmd[q].email) = EmailKey(cmd[r].email)
  /\ Answer(r, "EmailAlreadyExists")
  /\ UNCHANGED <<table, tokens, expired, cmd>>

RespondCreated(r) ==
  /\ pc[r] = "created"
  /\ Answer(r, "Created")
  /\ UNCHANGED <<table, tokens, expired, cmd>>

-------------------------------------------------------------------------------
(* Login.                                                                  *)

(* Mutant: the query is made with the email as the caller spelled it. *)
GetClientByEmail_AsSpelled(email) == {i \in indexed : profiles[i].email = email}

(* get_client_by_email: the query on GSI1 returns the profiles indexed     *)
(* under the email's key, and the first of them is taken.                  *)
GetClientByEmail(email) ==
  {i \in indexed : EmailKey(profiles[i].email) = EmailKey(email)}

(* No such client, or the password is wrong: the same error. *)
LoginRefused(r) ==
  /\ pc[r] = "get_client_by_email"
  /\ \/ GetClientByEmail(cmd[r].email) = {}
     \/ \E i \in GetClientByEmail(cmd[r].email) :
          ~Verify(cmd[r].password, profiles[i].password_hash)
  /\ Answer(r, "InvalidCredentials")
  /\ UNCHANGED <<table, tokens, expired, cmd>>

(* A token with the client's id and role is created and returned. *)
Login(r) ==
  /\ pc[r] = "get_client_by_email"
  /\ \E i \in GetClientByEmail(cmd[r].email) :
       /\ Verify(cmd[r].password, profiles[i].password_hash)
       /\ tokens' = [tokens EXCEPT ![r] =
                       [sub |-> i, role |-> profiles[i].role]]
  /\ Answer(r, "Token")
  /\ UNCHANGED <<table, expired, cmd>>

-------------------------------------------------------------------------------
(* Access to /clients/{client_id}.                                         *)

DecodeAccessToken(r) ==
  /\ pc[r] = "decode_access_token"
  /\ \/ /\ cmd[r].token \in {NoItem} \cup expired
        /\ Answer(r, "Unauthorized")
     \/ /\ cmd[r].token \notin {NoItem} \cup expired
        /\ Goto(r, "get_current_client")
  /\ UNCHANGED <<table, tokens, expired, cmd>>

(* Mutant: any authenticated client may act on any client id. *)
OwnerOrAdmin_Anyone(role, id, client) == TRUE

(* require_owner_or_admin goes by the stored role, not by the token's. *)
OwnerOrAdmin(role, id, client) == role = "ADMIN" \/ id = client

(* get_client of the token's subject. *)
GetCurrentClient(r) ==
  LET sub == tokens[cmd[r].token].sub
  IN  /\ pc[r] = "get_current_client"
      /\ \/ /\ sub \notin replicated
            /\ Answer(r, "Unauthorized")
         \/ /\ profiles[sub] # NoItem
            /\ OwnerOrAdmin(profiles[sub].role, sub, cmd[r].client)
            /\ Answer(r, "Granted")
         \/ /\ profiles[sub] # NoItem
            /\ ~OwnerOrAdmin(profiles[sub].role, sub, cmd[r].client)
            /\ Answer(r, "Forbidden")
      /\ UNCHANGED <<table, tokens, expired, cmd>>

-------------------------------------------------------------------------------
(* jwt_access_token_expire_minutes have passed. *)
ExpireToken(t) ==
  /\ tokens[t] # NoItem
  /\ t \notin expired
  /\ expired' = expired \cup {t}
  /\ UNCHANGED <<table, tokens, pc, cmd, reply>>

(* A profile reaches the index, or the lagging replica. *)
CatchUp(i) ==
  /\ profiles[i] # NoItem
  /\ \/ /\ i \notin indexed
        /\ indexed' = indexed \cup {i}
        /\ UNCHANGED replicated
     \/ /\ i \notin replicated
        /\ replicated' = replicated \cup {i}
        /\ UNCHANGED indexed
  /\ UNCHANGED <<profiles, emailItems, tokens, expired, pc, cmd, reply>>

(* An unmapped exception, a time-out, a crash or a lost answer. *)
Die(r) ==
  /\ pc[r] \in InFlightPhases
  /\ Answer(r, "ServerError")
  /\ UNCHANGED <<table, tokens, expired, cmd>>

AllAnswered == (\A r \in Calls : pc[r] = "done") /\ UNCHANGED vars

Step(r) ==
  \/ SaveClient(r)
  \/ EmailTaken(r)
  \/ SaveConflicted(r)
  \/ RespondCreated(r)
  \/ LoginRefused(r)
  \/ Login(r)
  \/ DecodeAccessToken(r)
  \/ GetCurrentClient(r)

Next ==
  \/ \E r \in Calls, command \in Commands : Arrive(r, command)
  \/ \E r \in Calls : Step(r) \/ Die(r) \/ ExpireToken(r) \/ CatchUp(r)
  \/ AllAnswered

Spec == Init /\ [][Next]_vars
===============================================================================
