---------------------------- MODULE AccountsProofs ----------------------------
(***************************************************************************)
(* The inductive invariant of Accounts, the safety theorems it gives and   *)
(* the refinement of AccountDirectory.                                     *)
(***************************************************************************)
EXTENDS AccountsSafety, TLAPS

(* The initial state has no account and no call. *)
LEMMA InitAccounts == Init => AccountsInv
<1> SUFFICES ASSUME Init PROVE AccountsInv
  OBVIOUS
<1> USE DEF Init
<1>1. TypeOK
  BY DEF TypeOK, Registered, InFlightPhases, ReplyKinds
<1>2. OneAccountPerEmail
  BY DEF OneAccountPerEmail, Registered
<1>3. ProfilesFromCommands
  BY DEF ProfilesFromCommands, Registered
<1>4. AnswersMatchAccounts
  BY DEF AnswersMatchAccounts
<1>5. \A r \in Calls : cmd[r] \notin AccessCommands
  BY AccountsAssumption DEF Commands
<1>6. TokensFromLogins
  BY <1>5 DEF TokensFromLogins
<1>7. TokenMatchesLogin
  BY DEF TokenMatchesLogin
<1>8. GrantedToOwnerOrAdmin
  BY DEF GrantedToOwnerOrAdmin
<1> QED
  BY <1>1, <1>2, <1>3, <1>4, <1>6, <1>7, <1>8 DEF AccountsInv

(* The profile a registration writes has the shape of a profile. *)
LEMMA ProfileTyping ==
  ASSUME NEW command \in RegisterCommands
  PROVE  /\ ProfileOf(command) \in Profiles
         /\ ProfileOf(command) # NoItem
         /\ ProfileOf(command).email = command.email
         /\ ProfileOf(command).role = "ADMIN" => command.op = "SEED_ADMIN"
         /\ ProfileOf(command).role \in Roles
         /\ ProfileOf(command).password_hash \in Secrets
         /\ EmailKey(command.email) \in Mailboxes
<1>1. ProfileOf(command) \in Profiles
  BY AccountsAssumption
     DEF ProfileOf, Profiles, RoleFor, Roles, Hash, RegisterCommands
<1>2. ProfileOf(command) # NoItem
  BY <1>1, AccountsAssumption
<1>3. EmailKey(command.email) \in Mailboxes
  BY AccountsAssumption DEF EmailKey, RegisterCommands
<1> QED
  BY <1>1, <1>2, <1>3 DEF ProfileOf, RoleFor, Profiles

(* A call that moves without touching the table or the tokens: it answers  *)
(* something that is neither a creation nor a grant, or goes on.           *)
LEMMA QuietStep ==
  ASSUME AccountsInv, NEW r \in Calls,
         pc[r] \in InFlightPhases,
         UNCHANGED <<table, tokens, expired, cmd>>,
         \/ \E kind \in ReplyKinds \ {"Pending", "Created", "Granted"} :
              /\ Answer(r, kind)
              /\ kind = "EmailAlreadyExists" => r \notin Registered
         \/ /\ Goto(r, "get_current_client")
            /\ cmd[r] \in AccessCommands
            /\ cmd[r].token # NoItem
  PROVE  AccountsInv'
<1> USE DEF AccountsInv, table
<1>1. TypeOK'
  BY DEF TypeOK, Registered, Answer, Goto, InFlightPhases, ReplyKinds
<1>2. OneAccountPerEmail'
  BY DEF OneAccountPerEmail, Registered
<1>3. ProfilesFromCommands'
  BY DEF ProfilesFromCommands, TypeOK, Registered, Answer, Goto,
         InFlightPhases, RegisterCommands, AccessCommands
<1>4. AnswersMatchAccounts'
  BY DEF AnswersMatchAccounts, TypeOK, Registered, Answer, Goto
<1>5. TokensFromLogins'
  BY DEF TokensFromLogins, TypeOK, Answer, Goto, InFlightPhases,
         AccessCommands, LoginCommands
<1>6. TokenMatchesLogin'
  BY DEF TokenMatchesLogin
<1>7. GrantedToOwnerOrAdmin'
  BY DEF GrantedToOwnerOrAdmin, TypeOK, Answer, Goto
<1> QED
  BY <1>1, <1>2, <1>3, <1>4, <1>5, <1>6, <1>7

LEMMA ArriveStep ==
  ASSUME AccountsInv, NEW r \in Calls, NEW command \in Commands,
         Arrive(r, command)
  PROVE  AccountsInv'
<1> USE DEF AccountsInv, table, Arrive, Goto
<1>0. command # NoItem
  BY AccountsAssumption
<1>1. TypeOK'
  BY DEF TypeOK, Registered, FirstPhase, InFlightPhases, Commands,
         RegisterCommands, LoginCommands, AccessCommands
<1>2. OneAccountPerEmail'
  BY DEF OneAccountPerEmail, Registered
<1>3. r \notin Registered
  BY DEF ProfilesFromCommands, Registered
<1>4. ProfilesFromCommands'
  BY <1>3 DEF ProfilesFromCommands, TypeOK, Registered, FirstPhase, Commands,
         RegisterCommands, LoginCommands, AccessCommands
<1>5. reply[r] = "Pending"
  BY DEF ProfilesFromCommands
<1>6. AnswersMatchAccounts'
  BY <1>5 DEF AnswersMatchAccounts, TypeOK, Registered
<1>7. TokensFromLogins'
  BY <1>5 DEF TokensFromLogins, TypeOK, FirstPhase, Commands,
         RegisterCommands, LoginCommands, AccessCommands
<1>8. tokens[r] = NoItem
  BY DEF TokensFromLogins
<1>9. TokenMatchesLogin'
  BY <1>8 DEF TokenMatchesLogin, TypeOK
<1>10. GrantedToOwnerOrAdmin'
  <2> SUFFICES ASSUME NEW q \in Calls, reply'[q] = "Granted"
               PROVE  LET caller == tokens'[cmd'[q].token].sub
                      IN  caller = cmd'[q].client \/ cmd'[caller].op = "SEED_ADMIN"
    BY DEF GrantedToOwnerOrAdmin
  <2>1. q # r /\ reply[q] = "Granted"
    BY <1>5
  <2> DEFINE caller == tokens[cmd[q].token].sub
  <2>2. caller \in Registered /\ caller # r
    BY <1>3, <2>1 DEF TokensFromLogins, TokenMatchesLogin, TypeOK, Registered,
                 Claims
  <2> QED
    BY <2>1, <2>2 DEF GrantedToOwnerOrAdmin, TypeOK
<1> QED
  BY <1>1, <1>2, <1>4, <1>6, <1>7, <1>9, <1>10

LEMMA SaveClientStep ==
  ASSUME AccountsInv, NEW r \in Calls, SaveClient(r)
  PROVE  AccountsInv'
<1> USE DEF AccountsInv, SaveClient, Goto
<1> DEFINE profile == ProfileOf(cmd[r])
           box == EmailKey(cmd[r].email)
<1>1. cmd[r] \in RegisterCommands
  BY DEF TypeOK
<1>2. /\ profile \in Profiles /\ profile # NoItem
      /\ profile.email = cmd[r].email
      /\ profile.role = "ADMIN" => cmd[r].op = "SEED_ADMIN"
      /\ box \in Mailboxes
  BY <1>1, ProfileTyping
<1>3. r \notin Registered
  BY DEF ProfilesFromCommands
<1>4. /\ profiles' = [profiles EXCEPT ![r] = profile]
      /\ profiles'[r] = profile
      /\ \A i \in Calls \ {r} : profiles'[i] = profiles[i]
      /\ Registered' = Registered \cup {r}
  <2> HIDE DEF profile
  <2> QED BY <1>2 DEF TypeOK, Registered, profile
<1>5. /\ emailItems[box] = NoItem
      /\ emailItems'[box] = r
      /\ \A m \in Mailboxes \ {box} : emailItems'[m] = emailItems[m]
  BY <1>2 DEF EmailIsFree, TypeOK
<1> HIDE DEF profile, box
<1>6. TypeOK'
  BY <1>1, <1>2, <1>4 DEF TypeOK, InFlightPhases
<1>7. OneAccountPerEmail'
  <2>1. \A i \in Registered : EmailKey(profiles[i].email) \in Mailboxes \ {box}
    BY <1>5, AccountsAssumption
       DEF OneAccountPerEmail, TypeOK, Registered, EmailKey, Profiles
  <2>2. \A i \in Registered' : emailItems'[EmailKey(profiles'[i].email)] = i
    BY <1>2, <1>3, <1>4, <1>5, <2>1 DEF OneAccountPerEmail, Registered, box
  <2>3. \A m \in Mailboxes : emailItems'[m] # NoItem =>
          /\ emailItems'[m] \in Registered'
          /\ EmailKey(profiles'[emailItems'[m]].email) = m
    <3> SUFFICES ASSUME NEW m \in Mailboxes, emailItems'[m] # NoItem
                 PROVE  /\ emailItems'[m] \in Registered'
                        /\ EmailKey(profiles'[emailItems'[m]].email) = m
      OBVIOUS
    <3>1. CASE m = box
      BY <3>1, <1>2, <1>4, <1>5 DEF box
    <3>2. CASE m # box
      BY <3>2, <1>3, <1>4, <1>5 DEF OneAccountPerEmail, Registered
    <3> QED
      BY <3>1, <3>2
  <2> QED
    BY <2>2, <2>3 DEF OneAccountPerEmail
<1>8. ProfilesFromCommands'
  BY <1>1, <1>3, <1>4 DEF ProfilesFromCommands, TypeOK, profile, ProfileOf
<1>9. AnswersMatchAccounts'
  BY <1>3, <1>4 DEF AnswersMatchAccounts, ProfilesFromCommands, Registered
<1>10. TokensFromLogins'
  BY DEF TokensFromLogins, TypeOK
<1>11. TokenMatchesLogin'
  BY <1>3, <1>4 DEF TokenMatchesLogin, TypeOK, Claims, Registered
<1>12. GrantedToOwnerOrAdmin'
  BY DEF GrantedToOwnerOrAdmin
<1> QED
  BY <1>6, <1>7, <1>8, <1>9, <1>10, <1>11, <1>12

LEMMA RespondCreatedStep ==
  ASSUME AccountsInv, NEW r \in Calls, RespondCreated(r)
  PROVE  AccountsInv'
<1> USE DEF AccountsInv, table, RespondCreated, Answer
<1>1. r \in Registered /\ cmd[r] \in RegisterCommands
      /\ profiles[r] = ProfileOf(cmd[r])
  BY DEF ProfilesFromCommands
<1>2. TypeOK'
  BY DEF TypeOK, Registered, ReplyKinds
<1>3. OneAccountPerEmail'
  BY DEF OneAccountPerEmail, Registered
<1>4. ProfilesFromCommands'
  BY <1>1 DEF ProfilesFromCommands, TypeOK, Registered
<1>5. AnswersMatchAccounts'
  BY <1>1, ProfileTyping DEF AnswersMatchAccounts, TypeOK, Registered
<1>6. TokensFromLogins'
  BY DEF TokensFromLogins, TypeOK
<1>7. TokenMatchesLogin'
  BY DEF TokenMatchesLogin
<1>8. GrantedToOwnerOrAdmin'
  BY DEF GrantedToOwnerOrAdmin, TypeOK
<1> QED
  BY <1>2, <1>3, <1>4, <1>5, <1>6, <1>7, <1>8

LEMMA LoginStep ==
  ASSUME AccountsInv, NEW r \in Calls, Login(r)
  PROVE  AccountsInv'
<1> USE DEF AccountsInv, table, Login, Answer
<1>1. PICK i \in GetClientByEmail(cmd[r].email) :
        /\ Verify(cmd[r].password, profiles[i].password_hash)
        /\ tokens' = [tokens EXCEPT
                        ![r] = [sub |-> i, role |-> profiles[i].role]]
  OBVIOUS
<1>2. i \in Registered /\ i \in Calls /\ profiles[i] \in Profiles
  BY DEF GetClientByEmail, TypeOK, Registered
<1>3. cmd[r] \in LoginCommands
  BY DEF TypeOK
<1>4. [sub |-> i, role |-> profiles[i].role] \in Claims
  BY <1>2 DEF Claims, Profiles
<1>5. TypeOK'
  BY <1>1, <1>4 DEF TypeOK, Registered, ReplyKinds
<1>6. OneAccountPerEmail'
  BY DEF OneAccountPerEmail, Registered
<1>7. ProfilesFromCommands'
  BY DEF ProfilesFromCommands, TypeOK, Registered
<1>8. AnswersMatchAccounts'
  BY DEF AnswersMatchAccounts, TypeOK, Registered
<1>9. [sub |-> i, role |-> profiles[i].role] # NoItem /\ tokens[r] = NoItem
  BY <1>4, AccountsAssumption DEF TokensFromLogins
<1>10. TokensFromLogins'
  BY <1>1, <1>3, <1>9 DEF TokensFromLogins, TypeOK
<1>11. TokenMatchesLogin'
  BY <1>1, <1>2, <1>3 DEF TokenMatchesLogin, TypeOK, Registered,
     GetClientByEmail, Verify
<1>12. GrantedToOwnerOrAdmin'
  BY <1>1, <1>9 DEF GrantedToOwnerOrAdmin, TokensFromLogins, TypeOK
<1> QED
  BY <1>5, <1>6, <1>7, <1>8, <1>10, <1>11, <1>12

LEMMA GrantedStep ==
  ASSUME AccountsInv, NEW r \in Calls,
         pc[r] = "get_current_client",
         UNCHANGED <<table, tokens, expired, cmd>>,
         Answer(r, "Granted"),
         profiles[tokens[cmd[r].token].sub] # NoItem,
         OwnerOrAdmin(profiles[tokens[cmd[r].token].sub].role,
                      tokens[cmd[r].token].sub, cmd[r].client)
  PROVE  AccountsInv'
<1> USE DEF AccountsInv, table, Answer
<1> DEFINE sub == tokens[cmd[r].token].sub
<1>1. /\ cmd[r] \in AccessCommands
      /\ cmd[r].token \in Calls
      /\ tokens[cmd[r].token] # NoItem
  BY DEF TokensFromLogins
<1>2. sub \in Registered /\ sub \in Calls
  BY <1>1 DEF TypeOK, Claims, Registered
<1>3. TypeOK'
  BY DEF TypeOK, Registered, ReplyKinds
<1>4. OneAccountPerEmail'
  BY DEF OneAccountPerEmail, Registered
<1>5. ProfilesFromCommands'
  BY DEF ProfilesFromCommands, TypeOK, Registered
<1>6. AnswersMatchAccounts'
  BY DEF AnswersMatchAccounts, TypeOK, Registered
<1>7. TokensFromLogins'
  BY <1>1 DEF TokensFromLogins, TypeOK
<1>8. TokenMatchesLogin'
  BY DEF TokenMatchesLogin
<1>9. sub = cmd[r].client \/ cmd[sub].op = "SEED_ADMIN"
  BY <1>2, ProfileTyping DEF OwnerOrAdmin, ProfilesFromCommands
<1>10. GrantedToOwnerOrAdmin'
  BY <1>9 DEF GrantedToOwnerOrAdmin, TypeOK
<1> QED
  BY <1>3, <1>4, <1>5, <1>6, <1>7, <1>8, <1>10

(* A token expires, or a profile reaches the index or the replica. *)
LEMMA BackgroundStep ==
  ASSUME AccountsInv, NEW i \in Calls, ExpireToken(i) \/ CatchUp(i)
  PROVE  AccountsInv'
<1>1. /\ UNCHANGED <<profiles, emailItems, tokens, pc, cmd, reply>>
      /\ expired' \in {expired, expired \cup {i}}
      /\ indexed' \in {indexed, indexed \cup {i}}
      /\ replicated' \in {replicated, replicated \cup {i}}
      /\ indexed' # indexed \/ replicated' # replicated => i \in Registered
  BY DEF ExpireToken, CatchUp, table, Registered
<1>2. TypeOK'
  BY <1>1 DEF AccountsInv, TypeOK, Registered
<1> QED
  BY <1>1, <1>2
     DEF AccountsInv, OneAccountPerEmail, ProfilesFromCommands,
         AnswersMatchAccounts, TokensFromLogins, TokenMatchesLogin,
         GrantedToOwnerOrAdmin, Registered

LEMMA NextAccounts == AccountsInv /\ [Next]_vars => AccountsInv'
<1> SUFFICES ASSUME AccountsInv, [Next]_vars
             PROVE  AccountsInv'
  OBVIOUS
<1>1. CASE UNCHANGED vars
  BY <1>1
     DEF vars, table, AccountsInv, TypeOK, OneAccountPerEmail,
         ProfilesFromCommands, AnswersMatchAccounts, TokensFromLogins,
         TokenMatchesLogin, GrantedToOwnerOrAdmin, Registered
<1>2. ASSUME NEW r \in Calls, NEW command \in Commands, Arrive(r, command)
      PROVE  AccountsInv'
  BY <1>2, ArriveStep
<1>3. ASSUME NEW r \in Calls, Step(r)
      PROVE  AccountsInv'
  <2>1. CASE SaveClient(r)
    BY <2>1, SaveClientStep
  <2>2. CASE EmailTaken(r) \/ SaveConflicted(r)
    <3>1. r \notin Registered
      BY <2>2 DEF EmailTaken, SaveConflicted, AccountsInv, ProfilesFromCommands
    <3> QED
      BY <2>2, <3>1, QuietStep
         DEF EmailTaken, SaveConflicted, InFlightPhases, ReplyKinds
  <2>3. CASE RespondCreated(r)
    BY <2>3, RespondCreatedStep
  <2>4. CASE LoginRefused(r)
    BY <2>4, QuietStep DEF LoginRefused, InFlightPhases, ReplyKinds
  <2>5. CASE Login(r)
    BY <2>5, LoginStep
  <2>6. CASE DecodeAccessToken(r)
    <3>1. cmd[r] \in AccessCommands
      BY <2>6 DEF DecodeAccessToken, AccountsInv, TypeOK
    <3> QED
      BY <2>6, <3>1, QuietStep DEF DecodeAccessToken, InFlightPhases, ReplyKinds
  <2>7. CASE GetCurrentClient(r)
    <3>1. CASE Answer(r, "Granted")
               /\ profiles[tokens[cmd[r].token].sub] # NoItem
               /\ OwnerOrAdmin(profiles[tokens[cmd[r].token].sub].role,
                               tokens[cmd[r].token].sub, cmd[r].client)
      BY <2>7, <3>1, GrantedStep DEF GetCurrentClient
    <3>2. CASE Answer(r, "Unauthorized") \/ Answer(r, "Forbidden")
      BY <2>7, <3>2, QuietStep DEF GetCurrentClient, InFlightPhases, ReplyKinds
    <3> QED
      BY <2>7, <3>1, <3>2 DEF GetCurrentClient
  <2> QED
    BY <1>3, <2>1, <2>2, <2>3, <2>4, <2>5, <2>6, <2>7 DEF Step
<1>4. ASSUME NEW r \in Calls, Die(r)
      PROVE  AccountsInv'
  BY <1>4, QuietStep DEF Die, ReplyKinds
<1>5. ASSUME NEW r \in Calls, ExpireToken(r) \/ CatchUp(r)
      PROVE  AccountsInv'
  BY <1>5, BackgroundStep
<1> QED
  BY <1>1, <1>2, <1>3, <1>4, <1>5 DEF Next, AllAnswered

(* The inductive invariant holds in every reachable state, however many    *)
(* registrations, logins and accesses interleave.                          *)
THEOREM AccountsInvariant == Spec => []AccountsInv
<1> QED
  BY InitAccounts, NextAccounts, PTL DEF Spec

(* save_client never lets two accounts share a mailbox, nor leaves a       *)
(* uniqueness item without its profile.                                    *)
THEOREM OneAccountPerEmailCorrect == Spec => []OneAccountPerEmail
<1>1. AccountsInv => OneAccountPerEmail
  BY DEF AccountsInv
<1> QED
  BY <1>1, AccountsInvariant, PTL

(* TokenMatchesLogin: a token is for the account whose mailbox and         *)
(* password, up to the 72 bytes bcrypt reads, were presented.              *)
THEOREM TokensCorrect == Spec => []TokenMatchesLogin
<1>1. AccountsInv => TokenMatchesLogin
  BY DEF AccountsInv
<1> QED
  BY <1>1, AccountsInvariant, PTL

(* RefusedLoginsAreWrong: as the uniqueness item keeps a mailbox to one    *)
(* account, the first profile the index returns is the account itself.     *)
THEOREM LoginsAreNotMistaken == Spec => RefusedLoginsAreWrong
<1>1. ASSUME AccountsInv, [Next]_vars, NEW r \in Calls,
             pc[r] # "done", reply'[r] = "InvalidCredentials",
             NEW i \in Registered, i \in indexed,
             EmailKey(profiles[i].email) = EmailKey(cmd[r].email),
             profiles[i].password_hash = FirstBytes[cmd[r].password]
      PROVE  FALSE
  <2>1. LoginRefused(r)
    <3>1. reply[r] = "Pending"
      BY <1>1 DEF AccountsInv, ProfilesFromCommands
    <3>2. ASSUME NEW q \in Calls,
                 SaveClient(q) \/ EmailTaken(q) \/ SaveConflicted(q)
                   \/ RespondCreated(q) \/ Login(q) \/ DecodeAccessToken(q)
                   \/ GetCurrentClient(q) \/ Die(q)
          PROVE  reply'[r] # "InvalidCredentials"
      BY <1>1, <3>1, <3>2
      DEF SaveClient, EmailTaken, SaveConflicted, RespondCreated, Login,
          DecodeAccessToken, GetCurrentClient, Die, Answer, Goto, AccountsInv,
          TypeOK
    <3>3. ASSUME NEW q \in Calls, LoginRefused(q)
          PROVE  q = r
      BY <1>1, <3>1, <3>3 DEF LoginRefused, Answer, AccountsInv, TypeOK
    <3>4. ASSUME NEW q \in Calls, NEW command \in Commands, Arrive(q, command)
          PROVE  reply' = reply
      BY <3>4 DEF Arrive, Goto
    <3>5. ASSUME NEW q \in Calls, ExpireToken(q) \/ CatchUp(q)
          PROVE  reply' = reply
      BY <3>5 DEF ExpireToken, CatchUp
    <3>6. AllAnswered \/ UNCHANGED vars => reply' = reply
      BY DEF AllAnswered, vars
    <3> QED
      BY <1>1, <3>1, <3>2, <3>3, <3>4, <3>5, <3>6 DEF Next, Step
  <2>2. i \in GetClientByEmail(cmd[r].email)
    BY <1>1 DEF GetClientByEmail
  <2>3. ASSUME NEW j \in GetClientByEmail(cmd[r].email)
        PROVE  j = i
    BY <1>1 DEF GetClientByEmail, AccountsInv, TypeOK, OneAccountPerEmail
  <2> QED
    BY <1>1, <2>1, <2>2, <2>3 DEF LoginRefused, Verify
<1>2. AccountsInv /\ [Next]_vars
        => [\A r \in Calls :
              pc[r] # "done" /\ reply'[r] = "InvalidCredentials" =>
                \A i \in Registered :
                  /\ EmailKey(profiles[i].email) = EmailKey(cmd[r].email)
                  /\ profiles[i].password_hash = FirstBytes[cmd[r].password]
                  => i \notin indexed]_vars
  BY <1>1
<1> QED
  BY <1>2, AccountsInvariant, PTL DEF Spec, RefusedLoginsAreWrong

(* require_owner_or_admin lets through owners and seeded admins only.      *)
THEOREM AccessCorrect == Spec => []GrantedToOwnerOrAdmin
<1>1. AccountsInv => GrantedToOwnerOrAdmin
  BY DEF AccountsInv
<1> QED
  BY <1>1, AccountsInvariant, PTL

(* AnswersMatchAccounts: who was told that the email exists has left no    *)
(* account behind, who was answered with a client has the one asked for.   *)
THEOREM RegistrationsAnswered == Spec => []AnswersMatchAccounts
<1>1. AccountsInv => AnswersMatchAccounts
  BY DEF AccountsInv
<1> QED
  BY <1>1, AccountsInvariant, PTL

-------------------------------------------------------------------------------
(* Accounts implements AccountDirectory.                                   *)

(* The directory's variables, by their mapping. *)
members == {AccountOf(i) : i \in Registered}

sessions == {tokens[r].sub : r \in {t \in Calls : tokens[t] # NoItem}}

acted == {<<tokens[cmd[r].token].sub, cmd[r].client>> :
            r \in {a \in Calls : reply[a] = "Granted"}}

LEMMA DirectoryInit == Init => Directory!Init
BY DEF Init, Directory!Init, Registered

(* Only a committed registration changes the members. *)
LEMMA MembersKept ==
  ASSUME UNCHANGED profiles
  PROVE  members' = members
BY DEF members, AccountOf, Registered

(* Only a login changes the sessions. *)
LEMMA SessionsKept ==
  ASSUME UNCHANGED tokens
  PROVE  sessions' = sessions
BY DEF sessions

(* A call that has not been answered has no grant, so a step of it that is *)
(* not one leaves the grants as they were.                                 *)
LEMMA ActedKept ==
  ASSUME AccountsInv, NEW r \in Calls, pc[r] # "done",
         \A q \in Calls \ {r} : /\ tokens'[q] = tokens[q]
                                /\ cmd'[q] = cmd[q]
                                /\ reply'[q] = reply[q],
         reply'[r] # "Granted"
  PROVE  acted' = acted
<1>1. reply[r] = "Pending" /\ tokens[r] = NoItem
  BY DEF AccountsInv, ProfilesFromCommands, TokensFromLogins
<1>2. \A a \in Calls : reply'[a] = "Granted" <=> reply[a] = "Granted"
  BY <1>1
<1>3. ASSUME NEW a \in Calls, reply[a] = "Granted"
      PROVE  /\ cmd'[a] = cmd[a]
             /\ tokens'[cmd'[a].token] = tokens[cmd[a].token]
  <2>1. a # r /\ cmd[a].token \in Calls /\ cmd[a].token # r
    BY <1>1, <1>3 DEF AccountsInv, TokensFromLogins
  <2> QED
    BY <2>1
<1> QED
  BY <1>2, <1>3 DEF acted

LEMMA SaveClientJoins ==
  ASSUME AccountsInv, NEW r \in Calls, SaveClient(r)
  PROVE  Directory!Next
<1> DEFINE profile == ProfileOf(cmd[r])
           box == EmailKey(cmd[r].email)
<1>1. cmd[r] \in RegisterCommands /\ r \notin Registered
  BY DEF SaveClient, AccountsInv, TypeOK, ProfilesFromCommands
<1>2. /\ profile \in Profiles /\ profile # NoItem
      /\ profile.role \in Roles /\ profile.password_hash \in Secrets
      /\ box \in Mailboxes /\ EmailKey(profile.email) = box
  BY <1>1, ProfileTyping
<1>3. /\ profiles' = [profiles EXCEPT ![r] = profile]
      /\ emailItems[box] = NoItem
      /\ UNCHANGED <<tokens, cmd, reply>>
  BY DEF SaveClient, EmailIsFree, Goto
<1> HIDE DEF profile, box
<1>4. \A i \in Registered : EmailKey(profiles[i].email) # box /\ i # r
  BY <1>1, <1>3, AccountsAssumption DEF AccountsInv, OneAccountPerEmail,
     Registered
<1>5. /\ Registered' = Registered \cup {r}
      /\ profiles'[r] = profile
      /\ \A i \in Registered : profiles'[i] = profiles[i]
  BY <1>1, <1>2, <1>3 DEF AccountsInv, TypeOK, Registered
<1>6. members' = members \cup
        {[mailbox |-> box, id |-> r, role |-> profile.role,
          secret |-> profile.password_hash]}
  BY <1>2, <1>5 DEF members, AccountOf
<1>7. \A a \in members : a.mailbox # box /\ a.id # r
  BY <1>4 DEF members, AccountOf
<1>8. UNCHANGED <<sessions, acted>>
  BY <1>3 DEF sessions, acted
<1>9. Directory!Join(box, r, profile.role, profile.password_hash)
  BY <1>6, <1>7, <1>8 DEF Directory!Join, members, sessions, acted
<1> QED
  BY <1>2, <1>9 DEF Directory!Next, Roles, Directory!Roles

LEMMA LoginSignsIn ==
  ASSUME AccountsInv, NEW r \in Calls, Login(r)
  PROVE  Directory!Next
<1>1. PICK i \in GetClientByEmail(cmd[r].email) :
        /\ Verify(cmd[r].password, profiles[i].password_hash)
        /\ tokens' = [tokens EXCEPT
                        ![r] = [sub |-> i, role |-> profiles[i].role]]
  BY DEF Login
<1>2. i \in Registered /\ i \in Calls /\ profiles[i] \in Profiles
  BY DEF GetClientByEmail, AccountsInv, TypeOK, Registered
<1>3. /\ EmailKey(profiles[i].email) \in Mailboxes
      /\ profiles[i].password_hash \in Secrets
      /\ [sub |-> i, role |-> profiles[i].role] # NoItem
  BY <1>2, AccountsAssumption DEF Profiles, EmailKey, Claims
<1>4. tokens[r] = NoItem /\ pc[r] # "done"
  BY DEF Login, AccountsInv, TokensFromLogins
<1>5. /\ tokens'[r] = [sub |-> i, role |-> profiles[i].role]
      /\ \A q \in Calls \ {r} : tokens'[q] = tokens[q]
  BY <1>1 DEF AccountsInv, TypeOK
<1>6. sessions' = sessions \cup {i}
  BY <1>3, <1>4, <1>5 DEF sessions
<1>7. acted' = acted
  BY <1>4, <1>5, ActedKept DEF Login, Answer, AccountsInv, TypeOK
<1>8. members' = members
  BY MembersKept DEF Login, table
<1>9. AccountOf(i) \in members
  BY <1>2 DEF members
<1>10. PICK m \in Mailboxes : m = EmailKey(profiles[i].email)
  BY <1>3
<1>11. PICK secret \in Secrets : secret = profiles[i].password_hash
  BY <1>3
<1>12. Directory!SignIn(m, secret)
  BY <1>6, <1>7, <1>8, <1>9, <1>10, <1>11
     DEF Directory!SignIn, members, sessions, acted, AccountOf
<1> QED
  BY <1>12 DEF Directory!Next

LEMMA GrantActs ==
  ASSUME AccountsInv, NEW r \in Calls,
         pc[r] = "get_current_client",
         UNCHANGED <<table, tokens, expired, cmd>>,
         Answer(r, "Granted"),
         profiles[tokens[cmd[r].token].sub] # NoItem,
         OwnerOrAdmin(profiles[tokens[cmd[r].token].sub].role,
                      tokens[cmd[r].token].sub, cmd[r].client)
  PROVE  Directory!Next
<1>1. /\ cmd[r].token \in Calls
      /\ tokens[cmd[r].token] # NoItem
      /\ cmd[r].client \in Calls
      /\ reply[r] # "Granted"
  BY DEF AccountsInv, TokensFromLogins, AccessCommands, ProfilesFromCommands
<1>2. PICK sub \in Calls : sub = tokens[cmd[r].token].sub
  BY <1>1 DEF AccountsInv, TypeOK, Claims
<1>3. PICK client \in Calls : client = cmd[r].client
  BY <1>1
<1>4. sub \in Registered /\ sub \in sessions
  BY <1>1, <1>2 DEF Registered, sessions
<1>5. AccountOf(sub) \in members
  BY <1>4 DEF members
<1>6. \A a \in Calls : reply'[a] = IF a = r THEN "Granted" ELSE reply[a]
  BY DEF Answer, AccountsInv, TypeOK
<1>7. acted' = acted \cup {<<sub, client>>}
  BY <1>1, <1>2, <1>3, <1>6 DEF acted
<1>8. UNCHANGED <<members, sessions>>
  BY MembersKept, SessionsKept DEF table
<1>9. \E a \in members : a.id = sub /\ (a.role = "ADMIN" \/ sub = client)
  <2>1. profiles[sub].role = "ADMIN" \/ sub = client
    BY <1>2, <1>3 DEF OwnerOrAdmin
  <2>2. AccountOf(sub).id = sub /\ AccountOf(sub).role = profiles[sub].role
    BY DEF AccountOf
  <2> QED
    BY <1>5, <2>1, <2>2
<1>10. Directory!Act(sub, client)
  BY <1>4, <1>7, <1>8, <1>9 DEF Directory!Act, members, sessions, acted
<1> QED
  BY <1>10 DEF Directory!Next

(* Any other step of a call, and the background's, is a stutter. *)
LEMMA OtherStutters ==
  ASSUME AccountsInv,
         UNCHANGED <<profiles, tokens>>,
         \/ UNCHANGED <<cmd, reply>>
         \/ \E r \in Calls :
              /\ pc[r] # "done"
              /\ reply'[r] # "Granted"
              /\ \A q \in Calls \ {r} : cmd'[q] = cmd[q] /\ reply'[q] = reply[q]
  PROVE  UNCHANGED Directory!vars
<1>1. members' = members /\ sessions' = sessions
  BY MembersKept, SessionsKept
<1>2. acted' = acted
  <2>1. CASE UNCHANGED <<cmd, reply>>
    BY <2>1 DEF acted
  <2>2. CASE ~UNCHANGED <<cmd, reply>>
    BY <2>2, ActedKept
  <2> QED
    BY <2>1, <2>2
<1> QED
  BY <1>1, <1>2 DEF Directory!vars, members, sessions, acted

LEMMA DirectoryNext ==
  AccountsInv /\ [Next]_vars => [Directory!Next]_(Directory!vars)
<1> SUFFICES ASSUME AccountsInv, [Next]_vars
             PROVE  Directory!Next \/ UNCHANGED Directory!vars
  OBVIOUS
<1>1. CASE UNCHANGED vars
  BY <1>1, OtherStutters DEF vars, table
<1>2. ASSUME NEW r \in Calls, NEW command \in Commands, Arrive(r, command)
      PROVE  UNCHANGED Directory!vars
  <2>1. reply'[r] # "Granted" /\ pc[r] # "done"
    BY <1>2 DEF Arrive, Goto, AccountsInv, ProfilesFromCommands
  <2>2. \A q \in Calls \ {r} : cmd'[q] = cmd[q] /\ reply'[q] = reply[q]
    BY <1>2 DEF Arrive, Goto, AccountsInv, TypeOK
  <2> QED
    BY <1>2, <2>1, <2>2, OtherStutters DEF Arrive, table
<1>3. ASSUME NEW r \in Calls, pc[r] # "done",
             UNCHANGED <<table, tokens, expired, cmd>>,
             Goto(r, "get_current_client")
               \/ \E kind \in ReplyKinds \ {"Granted"} : Answer(r, kind)
      PROVE  UNCHANGED Directory!vars
  <2>1. reply'[r] # "Granted"
    BY <1>3 DEF Goto, Answer, AccountsInv, ProfilesFromCommands, TypeOK
  <2>2. \A q \in Calls \ {r} : cmd'[q] = cmd[q] /\ reply'[q] = reply[q]
    BY <1>3 DEF Goto, Answer, AccountsInv, TypeOK
  <2> QED
    BY <1>3, <2>1, <2>2, OtherStutters DEF table
<1>4. ASSUME NEW r \in Calls, Step(r)
      PROVE  Directory!Next \/ UNCHANGED Directory!vars
  <2>1. CASE SaveClient(r)
    BY <2>1, SaveClientJoins
  <2>2. CASE EmailTaken(r) \/ SaveConflicted(r) \/ RespondCreated(r)
             \/ LoginRefused(r) \/ DecodeAccessToken(r)
    BY <2>2, <1>3
       DEF EmailTaken, SaveConflicted, RespondCreated, LoginRefused,
           DecodeAccessToken, ReplyKinds
  <2>3. CASE Login(r)
    BY <2>3, LoginSignsIn
  <2>4. CASE GetCurrentClient(r)
    <3>1. CASE Answer(r, "Granted")
               /\ profiles[tokens[cmd[r].token].sub] # NoItem
               /\ OwnerOrAdmin(profiles[tokens[cmd[r].token].sub].role,
                               tokens[cmd[r].token].sub, cmd[r].client)
      BY <2>4, <3>1, GrantActs DEF GetCurrentClient
    <3>2. CASE Answer(r, "Unauthorized") \/ Answer(r, "Forbidden")
      BY <2>4, <3>2, <1>3 DEF GetCurrentClient, ReplyKinds
    <3> QED
      BY <2>4, <3>1, <3>2 DEF GetCurrentClient
  <2> QED
    BY <1>4, <2>1, <2>2, <2>3, <2>4 DEF Step
<1>5. ASSUME NEW r \in Calls, Die(r)
      PROVE  UNCHANGED Directory!vars
  BY <1>5, <1>3 DEF Die, InFlightPhases, ReplyKinds
<1>6. ASSUME NEW i \in Calls, ExpireToken(i) \/ CatchUp(i)
      PROVE  UNCHANGED Directory!vars
  BY <1>6, OtherStutters DEF ExpireToken, CatchUp, table
<1> QED
  BY <1>1, <1>2, <1>4, <1>5, <1>6 DEF Next, AllAnswered

(* Registration, login and authorisation implement AccountDirectory: a     *)
(* mailbox has one account for good, a session opens only with its secret  *)
(* and acts only where its owner may.                                      *)
THEOREM DirectoryRefinement == Spec => ImplementsDirectory
<1> QED
  BY DirectoryInit, DirectoryNext, AccountsInvariant, PTL
     DEF Spec, ImplementsDirectory, Directory!Spec
===============================================================================
