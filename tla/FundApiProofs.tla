----------------------------- MODULE FundApiProofs -----------------------------
(***************************************************************************)
(* The HTTP surface, for all values of the constants: whatever requests    *)
(* overlap and whatever replicas answer, it runs FundService on commands   *)
(* that are authorized, and its statuses tell what they did.               *)
(***************************************************************************)
EXTENDS FundApiSafety, FundRefinementProofs

USE ApiAssumption

everything == <<vars, apiVars>>

-------------------------------------------------------------------------------
(* Steps.                                                                  *)

(* Only the sender's step changes who was notified. *)
LEMMA OthersNotifyNobody ==
  ASSUME NEW r \in Requests, Read(r) \/ Write(r) \/ Respond(r) \/ Die(r)
  PROVE  notified' = notified
BY DEF Read, GetIdempotencyResult, RebuildClient, GetClientProfile,
       ValidateSubscribe, ValidateCancel, ReplayOrConflict, RebuildReplay,
       Write, CommitSubscribe, CommitCancel, KeyTaken, WriteRefused,
       WriteConflicted, Respond, Die

(* What one step may do to request q. *)
Unmoved(q) ==
  /\ stage'[q] = stage[q]
  /\ asked'[q] = asked[q]
  /\ status'[q] = status[q]
  /\ pc'[q] = pc[q]
  /\ cmd'[q] = cmd[q]
  /\ reply'[q] = reply[q]

TurnedAway(q) ==
  /\ stage[q] \in {"idle", "get_current_client"}
  /\ stage'[q] = "answered"
  /\ status'[q] \in {400, 401, 403, 500}
  /\ asked'[q] = asked[q]
  /\ pc'[q] = pc[q]

Admitted(q) ==
  /\ stage[q] = "idle"
  /\ stage'[q] = "get_current_client"
  /\ status'[q] = status[q]
  /\ asked'[q] \in HttpRequests
  /\ asked'[q].caller \in Clients
  /\ CommandOf(asked'[q]) \in Commands
  /\ pc'[q] = pc[q]

Started(q) ==
  /\ stage[q] = "get_current_client"
  /\ stage'[q] = "execute"
  /\ status'[q] = status[q]
  /\ asked'[q] = asked[q]
  /\ Arrive(q, CommandOf(asked[q]))
  /\ OwnerOrAdmin(asked[q].caller, asked[q].client)
  /\ profiles[asked[q].caller] # NoItem

Ran(q) ==
  /\ pc[q] \in InFlightPhases
  /\ cmd'[q] = cmd[q]
  /\ asked'[q] = asked[q]
  /\ \/ /\ pc'[q] \in InFlightPhases
        /\ stage'[q] = stage[q]
        /\ status'[q] = status[q]
     \/ /\ pc'[q] = "done"
        /\ stage'[q] = "answered"
        /\ status'[q] = StatusOf(asked[q].op, reply'[q].kind)

HttpMove(q) == Unmoved(q) \/ TurnedAway(q) \/ Admitted(q) \/ Started(q) \/ Ran(q)

LEMMA Requesting ==
  ASSUME ApiInv, NEW r \in Requests, NEW request \in HttpRequests,
         Receive(r, request)
  PROVE  \A q \in Requests : HttpMove(q)
<1> USE DEF ApiInv, ApiTypeOK
<1>1. UNCHANGED <<pc, cmd, reply>>
  BY DEF Receive, vars, locals
<1>2. \A q \in Requests \ {r} : Unmoved(q)
  BY <1>1 DEF Receive, Answer, Unmoved
<1>3. CASE IdempotencyKey(request.header) = NoItem \/ request.caller = NoItem
  BY <1>1, <1>2, <1>3 DEF Receive, Answer, TurnedAway, HttpMove
<1>4. CASE /\ IdempotencyKey(request.header) # NoItem
           /\ request.caller # NoItem
  <2>1. CommandOf(request) \in Commands /\ request.caller \in Clients
    BY <1>4 DEF HttpRequests, CommandOf, Commands, IdempotencyKey
  <2>2. Admitted(r)
    BY <1>1, <1>4, <2>1 DEF Receive, Answer, Admitted
  <2> QED BY <1>2, <2>2 DEF HttpMove
<1> QED BY <1>3, <1>4

LEMMA Authorizing ==
  ASSUME ApiInv, NEW r \in Requests, Authorize(r)
  PROVE  \A q \in Requests : HttpMove(q)
<1> USE DEF ApiInv, ApiTypeOK
<1>1. PICK balance \in GetClient(asked[r].caller) :
        \/ balance = NoItem /\ Answer(r, 401) /\ UNCHANGED vars
        \/ /\ balance # NoItem
           /\ ~OwnerOrAdmin(asked[r].caller, asked[r].client)
           /\ Answer(r, 403)
           /\ UNCHANGED vars
        \/ /\ balance # NoItem
           /\ OwnerOrAdmin(asked[r].caller, asked[r].client)
           /\ Arrive(r, CommandOf(asked[r]))
           /\ stage' = [stage EXCEPT ![r] = "execute"]
           /\ UNCHANGED status
  BY DEF Authorize
<1>2. stage[r] = "get_current_client" /\ asked' = asked
  BY DEF Authorize
<1>3. CASE UNCHANGED vars /\ (Answer(r, 401) \/ Answer(r, 403))
  BY <1>2, <1>3 DEF Answer, Unmoved, TurnedAway, HttpMove, vars, locals
<1>4. CASE /\ balance # NoItem
           /\ OwnerOrAdmin(asked[r].caller, asked[r].client)
           /\ Arrive(r, CommandOf(asked[r]))
           /\ stage' = [stage EXCEPT ![r] = "execute"]
           /\ UNCHANGED status
  <2>1. asked[r].caller \in Clients
    BY <1>2 DEF CommandsAreAuthorized
  <2>2. profiles[asked[r].caller] # NoItem
    BY <1>4, <2>1 DEF GetClient, Answers, ReplicaKnowsClients
  <2>3. Started(r)
    BY <1>2, <1>4, <2>2 DEF Started
  <2>4. \A q \in Requests \ {r} : Unmoved(q)
    BY <1>2, <1>4 DEF Unmoved, Arrive, Goto
  <2> QED BY <2>3, <2>4 DEF HttpMove
<1> QED BY <1>1, <1>3, <1>4

LEMMA Running ==
  ASSUME ApiInv, TypeOK, NEW r \in Requests, Execute(r) \/ Notify(r) \/ Fail(r)
  PROVE  \A q \in Requests : HttpMove(q)
<1> USE DEF ApiInv, ApiTypeOK
<1>1. CASE Execute(r)
  <2>1. Step(r)
    BY <1>1 DEF Execute, Step
  <2>2. \A q \in Requests \ {r} : Unmoved(q)
    BY <1>1, <2>1, OneExecutes DEF Execute, Answer, Unmoved
  <2>3. Ran(r)
    BY <1>1, <2>1, OneExecutes DEF Execute, Answer, Ran
  <2> QED BY <2>2, <2>3 DEF HttpMove
<1>2. CASE Notify(r)
  <2>1. Step(r) /\ pc'[r] = "respond" /\ UNCHANGED <<stage, asked, status>>
    BY <1>2 DEF Notify, NotifyClient, Goto, Step, TypeOK, LocalsTypeOK
  <2>2. \A q \in Requests \ {r} : Unmoved(q)
    BY <2>1, OneExecutes DEF Unmoved
  <2>3. Ran(r)
    BY <2>1, OneExecutes DEF Ran, InFlightPhases
  <2> QED BY <2>2, <2>3 DEF HttpMove
<1>3. CASE Fail(r) /\ UNCHANGED vars /\ stage[r] = "get_current_client"
  <2>1. \A q \in Requests \ {r} : Unmoved(q)
    BY <1>3 DEF Fail, Answer, Unmoved, vars, locals
  <2>2. TurnedAway(r)
    BY <1>3 DEF Fail, Answer, StatusOf, TurnedAway, vars, locals
  <2> QED BY <2>1, <2>2 DEF HttpMove
<1>4. CASE Fail(r) /\ Die(r)
  <2>1. \A q \in Requests \ {r} : Unmoved(q)
    BY <1>4, OneExecutes DEF Fail, Answer, Unmoved
  <2>2. reply'[r].kind = "ServerError" /\ pc'[r] = "done"
    BY <1>4 DEF Die, Raise, Return, Goto, TypeOK, LocalsTypeOK
  <2>3. Ran(r)
    BY <1>4, <2>2, OneExecutes DEF Fail, Answer, Ran
  <2> QED BY <2>1, <2>3 DEF HttpMove
<1> QED BY <1>1, <1>2, <1>3, <1>4 DEF Fail

LEMMA HttpMoves ==
  ASSUME ApiInv, TypeOK, [ApiNext]_everything
  PROVE  \A q \in Requests : HttpMove(q)
<1>1. CASE Background \/ Closed \/ UNCHANGED everything
  BY <1>1 DEF Background, CatchUp, Expire, Closed, everything, apiVars, vars,
              locals, HttpMove, Unmoved
<1> QED BY <1>1, Requesting, Authorizing, Running DEF ApiNext

(* Every step is one of FundService, or leaves its variables alone. *)
LEMMA ApiStepIsServiceStep ==
  ASSUME ApiInv, [ApiNext]_everything
  PROVE  [Next]_vars
<1>1. ASSUME NEW r \in Requests, Authorize(r)
      PROVE  [Next]_vars
  <2>1. CommandOf(asked[r]) \in Commands
    BY <1>1 DEF Authorize, ApiInv, CommandsAreAuthorized
  <2> QED BY <1>1, <2>1 DEF Authorize, Next
<1>2. ASSUME NEW r \in Requests, Execute(r) \/ Notify(r) \/ Fail(r)
      PROVE  [Next]_vars
  BY <1>2 DEF Execute, Notify, Fail, Next, Step
<1>3. ASSUME NEW r \in Requests, NEW request \in HttpRequests,
             Receive(r, request)
      PROVE  UNCHANGED vars
  BY <1>3 DEF Receive
<1>4. Background \/ Closed \/ UNCHANGED everything => [Next]_vars
  BY DEF Background, Closed, Next, everything
<1> QED BY <1>1, <1>2, <1>3, <1>4 DEF ApiNext

(* Steps of the service, for the lemmas below. *)
LEMMA ServiceSteps ==
  ASSUME IInv, ApiInv, [ApiNext]_everything
  PROVE  /\ [Next]_vars
         /\ IInv'
         /\ \A q \in Requests : HttpMove(q)
BY ApiStepIsServiceStep, NextInvariant, HttpMoves DEF IInv

-------------------------------------------------------------------------------
(* The invariant, part by part.                                            *)

LEMMA StatusTyping ==
  ASSUME NEW op, NEW kind
  PROVE  StatusOf(op, kind) \in {200, 201, 404, 409, 500}
BY DEF StatusOf

LEMMA InitApi == ApiInit => IInv /\ ApiInv
<1> SUFFICES ASSUME ApiInit PROVE IInv /\ ApiInv
  OBVIOUS
<1> USE DEF ApiInit, Init, InitTable
<1>1. IInv
  BY InitInvariant DEF ApiInit
<1>2. ApiTypeOK
  BY DEF ApiTypeOK, Stages, Statuses, InFlightPhases
<1>3. /\ CommandsAreAuthorized
      /\ StatusMatchesReply
      /\ ReplaysHaveKey
      /\ DeliveredWereNotified
  BY DEF CommandsAreAuthorized, StatusMatchesReply, ReplaysHaveKey,
         DeliveredWereNotified
<1>4. ReplicaKnowsClients
  BY DEF ReplicaKnowsClients
<1> QED BY <1>1, <1>2, <1>3, <1>4 DEF ApiInv

LEMMA ApiVariablesTyping ==
  ASSUME IInv, ApiInv, [ApiNext]_everything
  PROVE  /\ stage' \in [Requests -> Stages]
         /\ asked' \in [Requests -> HttpRequests \cup {NoItem}]
         /\ status' \in [Requests -> Statuses]
         /\ delivered' \subseteq Messages
<1> USE DEF ApiInv, ApiTypeOK, Stages, Statuses
<1>1. ASSUME NEW r \in Requests, NEW request \in HttpRequests,
             Receive(r, request)
      PROVE  /\ stage' \in [Requests -> Stages]
             /\ asked' \in [Requests -> HttpRequests \cup {NoItem}]
             /\ status' \in [Requests -> Statuses]
             /\ delivered' = delivered
  BY <1>1 DEF Receive, Answer
<1>2. ASSUME NEW r \in Requests, Authorize(r)
      PROVE  /\ stage' \in [Requests -> Stages]
             /\ status' \in [Requests -> Statuses]
             /\ UNCHANGED <<asked, delivered>>
  BY <1>2 DEF Authorize, Answer
<1>3. ASSUME NEW r \in Requests, Execute(r) \/ Fail(r)
      PROVE  /\ stage' \in [Requests -> Stages]
             /\ status' \in [Requests -> Statuses]
             /\ UNCHANGED <<asked, delivered>>
  BY <1>3, StatusTyping DEF Execute, Fail, Answer
<1>4. ASSUME NEW r \in Requests, Notify(r)
      PROVE  UNCHANGED <<stage, asked, status>> /\ delivered' \subseteq Messages
  <2>1. cmd[r].client \in Clients
    BY <1>4, InFlightTyping DEF Notify, NotifyClient, IInv, TypeOK, InFlightPhases
  <2>2. \A n \in 1 .. MaxAttempts : Message(r, n) \in Messages
    BY <2>1 DEF Message, Messages
  <2> QED BY <1>4, <2>2 DEF Notify
<1>5. CASE Background \/ Closed \/ UNCHANGED everything
  BY <1>5 DEF Background, Closed, everything, apiVars
<1> QED BY <1>1, <1>2, <1>3, <1>4, <1>5 DEF ApiNext

LEMMA ApiTypeOKStep ==
  ASSUME IInv, ApiInv, [ApiNext]_everything
  PROVE  ApiTypeOK'
<1> USE DEF ApiInv, ApiTypeOK
<1>1. ASSUME NEW q \in Requests
      PROVE  /\ stage'[q] = "idle" => asked'[q] = NoItem
             /\ stage'[q] \in {"get_current_client", "execute"} =>
                  asked'[q] \in HttpRequests
             /\ stage'[q] = "answered" <=> status'[q] # 0
             /\ stage'[q] = "execute" <=> pc'[q] \in InFlightPhases
             /\ stage'[q] \in {"idle", "get_current_client"} => pc'[q] = "idle"
  <2>1. HttpMove(q)
    BY ServiceSteps
  <2>2. CASE Unmoved(q)
    BY <2>2 DEF Unmoved
  <2>3. CASE TurnedAway(q)
    BY <2>3 DEF TurnedAway, InFlightPhases
  <2>4. CASE Admitted(q)
    BY <2>4 DEF Admitted, InFlightPhases
  <2>5. CASE Started(q)
    <3>1. pc'[q] \in InFlightPhases
      BY <2>5 DEF Started, Arrive, Goto, InFlightPhases, IInv, TypeOK, LocalsTypeOK
    <3> QED BY <2>5, <3>1 DEF Started, InFlightPhases
  <2>6. CASE Ran(q)
    BY <2>6, StatusTyping DEF Ran, InFlightPhases
  <2> QED BY <2>1, <2>2, <2>3, <2>4, <2>5, <2>6 DEF HttpMove
<1> QED BY <1>1, ApiVariablesTyping

LEMMA CommandsAreAuthorizedStep ==
  ASSUME IInv, ApiInv, ApiTypeOK', [ApiNext]_everything
  PROVE  CommandsAreAuthorized'
<1> USE DEF ApiInv, ApiTypeOK
<1>1. ASSUME NEW q \in Requests
      PROVE  /\ stage'[q] = "get_current_client" \/ pc'[q] # "idle" =>
                  /\ asked'[q] \in HttpRequests
                  /\ asked'[q].caller \in Clients
                  /\ CommandOf(asked'[q]) \in Commands
             /\ pc'[q] # "idle" =>
                  /\ cmd'[q] = CommandOf(asked'[q])
                  /\ OwnerOrAdmin(asked'[q].caller, asked'[q].client)
                  /\ profiles'[asked'[q].caller] # NoItem
  <2>1. [Next]_vars /\ TypeOK /\ HttpMove(q)
    BY ServiceSteps DEF IInv
  <2>2. CASE Unmoved(q)
    BY <2>1, <2>2, ClientsStay DEF Unmoved, CommandsAreAuthorized
  <2>3. CASE TurnedAway(q)
    BY <2>3 DEF TurnedAway
  <2>4. CASE Admitted(q)
    BY <2>4 DEF Admitted
  <2>5. CASE Started(q)
    <3>1. cmd'[q] = CommandOf(asked[q])
      BY <2>5 DEF Started, Arrive, IInv, TypeOK, LocalsTypeOK
    <3>2. /\ asked[q] \in HttpRequests
          /\ asked[q].caller \in Clients
          /\ CommandOf(asked[q]) \in Commands
      BY <2>5 DEF Started, CommandsAreAuthorized
    <3> QED BY <2>1, <2>5, <3>1, <3>2, ClientsStay DEF Started
  <2>6. CASE Ran(q)
    <3>1. pc[q] # "idle"
      BY <2>6 DEF Ran, InFlightPhases
    <3> QED BY <2>1, <2>6, <3>1, ClientsStay DEF Ran, CommandsAreAuthorized
  <2> QED BY <2>1, <2>2, <2>3, <2>4, <2>5, <2>6 DEF HttpMove
<1> QED BY <1>1 DEF CommandsAreAuthorized

LEMMA ReplicaKnowsClientsStep ==
  ASSUME IInv, ApiInv, [ApiNext]_everything
  PROVE  ReplicaKnowsClients'
<1> SUFFICES ASSUME NEW c \in Clients, staleProfiles'[c] # NoItem
             PROVE  profiles'[c] # NoItem
  BY DEF ReplicaKnowsClients
<1>1. [Next]_vars /\ TypeOK
  BY ServiceSteps DEF IInv
<1>2. staleProfiles'[c] \in {staleProfiles[c], profiles[c]}
  BY <1>1, ReplicaSteps DEF replicas, CatchUp, Replicate, TypeOK, TableTypeOK
<1>3. profiles[c] # NoItem
  BY <1>2 DEF ApiInv, ReplicaKnowsClients
<1> QED BY <1>1, <1>3, ClientsStay

LEMMA StatusMatchesReplyStep ==
  ASSUME IInv, ApiInv, ApiTypeOK', [ApiNext]_everything
  PROVE  StatusMatchesReply'
<1> USE DEF ApiInv, ApiTypeOK
<1>1. ASSUME NEW q \in Requests
      PROVE  /\ pc'[q] = "done" =>
                  status'[q] = StatusOf(cmd'[q].op, reply'[q].kind)
             /\ status'[q] \in {200, 201, 404, 409} => pc'[q] = "done"
  <2>1. HttpMove(q)
    BY ServiceSteps
  <2>2. CASE Unmoved(q)
    BY <2>2 DEF Unmoved, StatusMatchesReply
  <2>3. CASE TurnedAway(q)
    BY <2>3 DEF TurnedAway
  <2>4. CASE Admitted(q)
    BY <2>4 DEF Admitted
  <2>5. CASE Started(q)
    BY <2>5 DEF Started, InFlightPhases
  <2>6. CASE Ran(q)
    <3>1. pc[q] # "idle"
      BY <2>6 DEF Ran, InFlightPhases
    <3>2. cmd[q] = CommandOf(asked[q])
      BY <3>1 DEF CommandsAreAuthorized
    <3>3. cmd[q].op = asked[q].op
      BY <3>2 DEF CommandOf
    <3> QED BY <2>6, <3>3 DEF Ran, InFlightPhases
  <2> QED BY <2>1, <2>2, <2>3, <2>4, <2>5, <2>6 DEF HttpMove
<1> QED BY <1>1 DEF StatusMatchesReply

LEMMA ReplaysHaveKeyStep ==
  ASSUME IInv, ApiInv, [ApiNext]_everything
  PROVE  ReplaysHaveKey'
<1> SUFFICES ASSUME NEW q \in Requests, reply'[q].kind = "Replayed"
             PROVE  cmd'[q].key \in Keys
  BY DEF ReplaysHaveKey
<1>1. TypeOK /\ [Next]_vars /\ PhasesMatchLedger
  BY ServiceSteps DEF IInv
<1>2. CASE reply'[q] = reply[q]
  <2>1. pc[q] = "done" /\ cmd[q].key \in Keys
    BY <1>1, <1>2 DEF PhasesMatchLedger, ApiInv, ReplaysHaveKey
  <2> QED BY <1>1, <2>1, OneRequestMoves
<1>3. CASE Replay(q)
  BY <1>1, <1>3 DEF Replay, TypeOK, LocalsTypeOK
<1>4. CASE Respond(q) \/ Die(q) \/ Refuse(q)
  BY <1>1, <1>4 DEF Respond, Die, Refuse, Raise, Return, TypeOK, LocalsTypeOK,
                    DomainErrors
<1>5. CASE Progress(q) \/ Commit(q) \/ NotifyClient(q)
  BY <1>1, <1>2, <1>5, CommitLocals DEF Progress, NotifyClient
<1> QED BY <1>1, <1>3, <1>4, <1>5, RequestMoves

LEMMA DeliveredWereNotifiedStep ==
  ASSUME IInv, ApiInv, [ApiNext]_everything
  PROVE  DeliveredWereNotified'
<1> USE DEF ApiInv, ApiTypeOK
<1>1. TypeOK /\ [Next]_vars
  BY ServiceSteps DEF IInv
<1>2. ASSUME NEW q \in Requests, pc[q] # "idle"
      PROVE  cmd'[q] = cmd[q]
  BY <1>2, ServiceSteps
  DEF HttpMove, Unmoved, TurnedAway, Admitted, Started, Ran
<1>3. \A q \in notified : q \in Requests /\ pc[q] # "idle"
  BY <1>1 DEF IInv, NotifiedWereCommitted, LedgerFromRequests, TypeOK,
              LocalsTypeOK
<1>4. ASSUME NEW r \in Requests, Notify(r)
      PROVE  /\ notified \subseteq notified'
             /\ \A m \in delivered' \ delivered :
                  r \in notified' /\ \E n : m = Message(r, n)
             /\ cmd' = cmd
  BY <1>4 DEF Notify, NotifyClient
<1>5. ASSUME NEW r \in Requests, Authorize(r) \/ Execute(r) \/ Fail(r)
      PROVE  notified' = notified /\ delivered' = delivered
  BY <1>5, OthersNotifyNobody
  DEF Authorize, Execute, Fail, Arrive, vars, locals
<1>6. ASSUME NEW r \in Requests, NEW request \in HttpRequests,
             Receive(r, request)
      PROVE  notified' = notified /\ delivered' = delivered
  BY <1>6 DEF Receive, vars, locals
<1>7. Background \/ Closed \/ UNCHANGED everything
        => notified' = notified /\ delivered' = delivered
  BY DEF Background, CatchUp, Expire, Closed, everything, apiVars, vars, locals
<1>8. CASE notified' = notified /\ delivered' = delivered
  BY <1>2, <1>3, <1>8 DEF DeliveredWereNotified, Message
<1>9. ASSUME NEW r \in Requests, Notify(r)
      PROVE  DeliveredWereNotified'
  <2>1. \A m \in delivered :
          m.about \in notified' /\ m = Message(m.about, m.attempt)
    BY <1>4, <1>9 DEF DeliveredWereNotified
  <2>2. \A n : Message(r, n).about = r /\ Message(r, n).attempt = n
    BY DEF Message
  <2>3. \A m \in delivered' :
          m.about \in notified' /\ m = Message(m.about, m.attempt)
    BY <1>4, <1>9, <2>1, <2>2
  <2> QED BY <1>4, <1>9, <2>3 DEF DeliveredWereNotified, Message
<1> QED BY <1>5, <1>6, <1>7, <1>8, <1>9 DEF ApiNext

LEMMA NextApi == IInv /\ ApiInv /\ [ApiNext]_everything => IInv' /\ ApiInv'
<1> SUFFICES ASSUME IInv, ApiInv, [ApiNext]_everything
             PROVE  IInv' /\ ApiInv'
  OBVIOUS
<1>1. IInv' /\ ApiTypeOK'
  BY ServiceSteps, ApiTypeOKStep
<1> QED
  BY <1>1, CommandsAreAuthorizedStep, ReplicaKnowsClientsStep,
     StatusMatchesReplyStep, ReplaysHaveKeyStep, DeliveredWereNotifiedStep
  DEF ApiInv

-------------------------------------------------------------------------------
(* Theorems.                                                               *)

(* Header, token, status and channel take nothing from the service: with   *)
(* the HTTP surface around it, it still behaves as FundService.            *)
THEOREM ApiRefinesService == ApiSpec => Spec
<1>1. ApiInit => Init
  BY DEF ApiInit
<1>2. ApiSpec => [](IInv /\ ApiInv)
  BY InitApi, NextApi, PTL DEF ApiSpec, everything
<1>3. ApiInv /\ [ApiNext]_everything => [Next]_vars
  BY ApiStepIsServiceStep
<1> QED
  BY <1>1, <1>2, <1>3, PTL DEF ApiSpec, Spec, everything

(* ApiInv holds for any callers, admins, headers and number of requests at *)
(* a time, with current or stale reads.                                    *)
THEOREM ApiInvariant == ApiSpec => [](IInv /\ ApiInv)
BY InitApi, NextApi, PTL DEF ApiSpec, everything

(* OnlyAuthorizedChange: nothing enters the ledger that its client, or an  *)
(* admin, did not ask for, even if the profile was read from a replica.    *)
THEOREM ChangesAreAuthorized == ApiSpec => []OnlyAuthorizedChange
<1>1. IInv /\ ApiInv => OnlyAuthorizedChange
  <2> SUFFICES ASSUME IInv, ApiInv, NEW t \in transactions
               PROVE  /\ asked[t.id].client = t.client
                      /\ asked[t.id].fund = t.fund
                      /\ TransactionTypeOf(asked[t.id].op) = t.type
                      /\ asked[t.id].caller \in Admins
                           \/ asked[t.id].caller = t.client
                      /\ profiles[asked[t.id].caller] # NoItem
                      /\ IdempotencyKey(asked[t.id].header) # NoItem
    BY DEF OnlyAuthorizedChange
  <2>1. /\ t.id \in Requests
        /\ pc[t.id] # "idle"
        /\ t.client = cmd[t.id].client
        /\ t.fund = cmd[t.id].fund
        /\ t.type = TransactionTypeOf(cmd[t.id].op)
    BY DEF IInv, TypeOK, TableTypeOK, TransactionItems, LedgerFromRequests
  <2>2. /\ cmd[t.id] = CommandOf(asked[t.id])
        /\ CommandOf(asked[t.id]) \in Commands
        /\ OwnerOrAdmin(asked[t.id].caller, asked[t.id].client)
        /\ profiles[asked[t.id].caller] # NoItem
    BY <2>1 DEF ApiInv, CommandsAreAuthorized
  <2>3. IdempotencyKey(asked[t.id].header) \in Keys \cup {NoKey}
    BY <2>2 DEF CommandOf, Commands
  <2> QED BY <2>1, <2>2, <2>3 DEF CommandOf, OwnerOrAdmin
<1> QED BY <1>1, ApiInvariant, PTL

(* StatusTellsOutcome: a 4xx means that nothing was done, a 2xx that it is *)
(* in the ledger, by this request or by one with its key.                  *)
THEOREM StatusesTellOutcomes == ApiSpec => []StatusTellsOutcome
<1>1. IInv /\ ApiInv => StatusTellsOutcome
  <2> SUFFICES ASSUME IInv, ApiInv, NEW r \in Requests
               PROVE  /\ status[r] \in {400, 401, 403, 404, 409} =>
                           /\ r \notin Committed
                           /\ \A m \in delivered : m.about # r
                      /\ status[r] \in {200, 201} =>
                           \/ r \in Committed
                           \/ \E q \in Committed :
                                /\ IdempotencyKey(asked[r].header) \in Keys
                                /\ IdempotencyKey(asked[q].header)
                                     = IdempotencyKey(asked[r].header)
    BY DEF StatusTellsOutcome
  <2> USE DEF IInv, ApiInv
  <2>1. /\ r \in Committed => pc[r] \in {"notify", "respond", "done"}
        /\ pc[r] = "idle" => r \notin notified
        /\ r \in notified => r \in Committed
    BY DEF LedgerFromRequests, NotifiedWereCommitted, Committed
  <2>2. pc[r] = "done" => /\ cmd[r] = CommandOf(asked[r])
                          /\ cmd[r].key \in Keys \cup {NoKey}
    BY DEF CommandsAreAuthorized, Commands
  <2>3. CASE status[r] \in {400, 401, 403, 404, 409}
    <3>1. pc[r] \notin InFlightPhases
      BY <2>3 DEF ApiTypeOK
    <3>2. r \notin Committed
      <4>1. CASE pc[r] = "done"
        <5>1. StatusOf(cmd[r].op, reply[r].kind) \in {400, 401, 403, 404, 409}
          BY <2>3, <4>1 DEF StatusMatchesReply
        <5>2. reply[r].kind \in DomainErrors
          BY <5>1 DEF StatusOf, DomainErrors
        <5> QED BY <5>2 DEF AnswersMatchLedger
      <4>2. CASE pc[r] # "done"
        BY <2>1, <3>1, <4>2 DEF InFlightPhases
      <4> QED BY <4>1, <4>2
    <3> QED BY <2>1, <2>3, <3>2 DEF DeliveredWereNotified
  <2>4. CASE status[r] \in {200, 201}
    <3>1. pc[r] = "done"
      BY <2>4 DEF StatusMatchesReply
    <3>2. reply[r].kind \in {"Client", "Replayed"}
      BY <2>4, <3>1 DEF StatusMatchesReply, StatusOf
    <3>3. CASE reply[r].kind = "Client"
      BY <2>4, <3>3 DEF AnswersMatchLedger
    <3>4. CASE reply[r].kind = "Replayed"
      <4>1. PICK t \in transactions : cmd[t.id].key = cmd[r].key
        BY <3>4 DEF ReplayHasOrigin
      <4>2. /\ t.id \in Requests
            /\ pc[t.id] # "idle"
            /\ t.id \in Committed
        BY DEF TypeOK, TableTypeOK, TransactionItems, LedgerFromRequests,
               Committed
      <4>3. cmd[t.id] = CommandOf(asked[t.id])
        BY <4>2 DEF CommandsAreAuthorized
      <4>4. cmd[r].key \in Keys
        BY <3>4 DEF ReplaysHaveKey
      <4> QED BY <2>2, <2>4, <3>1, <4>1, <4>2, <4>3, <4>4 DEF CommandOf
    <3> QED BY <3>2, <3>3, <3>4
  <2> QED BY <2>3, <2>4
<1> QED BY <1>1, ApiInvariant, PTL

(* MessagesMatchOpenings: a message tells a client, on the channel it      *)
(* prefers, of an opening of its own, and a retry under a living key       *)
(* sends none beside those of the request it repeats.                      *)
THEOREM MessagesCorrect == ApiSpec => []MessagesMatchOpenings
<1>1. IInv /\ ApiInv => MessagesMatchOpenings
  <2> SUFFICES ASSUME IInv, ApiInv
               PROVE  MessagesMatchOpenings
    OBVIOUS
  <2>1. ASSUME NEW m \in delivered
        PROVE  \E t \in transactions :
                 /\ t.id = m.about
                 /\ t.type = "OPEN"
                 /\ t.client = m.to
                 /\ m.by = NotifyPref[m.to]
    <3>1. m.about \in notified /\ m = Message(m.about, m.attempt)
      BY DEF ApiInv, DeliveredWereNotified
    <3>2. PICK t \in transactions : t.id = m.about /\ t.type = "OPEN"
      BY <3>1 DEF IInv, NotifiedWereCommitted
    <3>3. t.client = cmd[t.id].client
      BY DEF IInv, LedgerFromRequests
    <3>4. m.to = cmd[m.about].client /\ m.by = NotifyPref[cmd[m.about].client]
      BY <3>1 DEF Message
    <3> QED BY <3>2, <3>3, <3>4
  <2>2. ASSUME NEW m \in delivered
        PROVE  \E t \in EntriesUnder(IdempotencyKey(asked[m.about].header)) :
                 t.id = m.about
    <3>1. PICK t \in transactions : t.id = m.about
      BY <2>1
    <3>2. cmd[t.id] = CommandOf(asked[t.id])
      BY DEF IInv, LedgerFromRequests, TypeOK, TableTypeOK, TransactionItems,
             ApiInv, CommandsAreAuthorized
    <3> QED BY <3>1, <3>2 DEF CommandOf, EntriesUnder
  <2>3. ASSUME NEW m \in delivered, NEW n \in delivered,
               NEW key \in Keys, expiries[key] = 0,
               key = IdempotencyKey(asked[m.about].header),
               key = IdempotencyKey(asked[n.about].header)
        PROVE  m.about = n.about
    <3>1. PICK t \in EntriesUnder(key) : t.id = m.about
      BY <2>2, <2>3
    <3>2. PICK u \in EntriesUnder(key) : u.id = n.about
      BY <2>2, <2>3
    <3>3. t = u
      BY <2>3, OneEntryPerKey
    <3> QED BY <3>1, <3>2, <3>3
  <2> QED BY <2>1, <2>3 DEF MessagesMatchOpenings
<1> QED BY <1>1, ApiInvariant, PTL

-------------------------------------------------------------------------------
(* Callers who wait for their answers, and current reads.                  *)

LEMMA OneInFlight ==
  ASSUME ApiTypeOK, OneAtATime
  PROVE  OneRequestPerClient /\ \A q, r \in InFlight : q = r
<1>1. InFlight \subseteq InProgress
  BY DEF ApiTypeOK, InFlight, InProgress
<1> QED BY <1>1, FS_Subset DEF OneAtATime, OneRequestPerClient

LEMMA OneAtATimeStep ==
  ASSUME MaxAtOnce = 1, ApiTypeOK, OneAtATime, TypeOK, ApiInv,
         [ApiNext]_everything
  PROVE  OneAtATime'
<1>1. ASSUME NEW r \in Requests, NEW request \in HttpRequests,
             Receive(r, request)
      PROVE  OneAtATime'
  <2>1. InProgress = {}
    BY <1>1, FewerThanOne DEF Receive, OneAtATime
  <2>2. InProgress' \subseteq {r}
    BY <1>1, <2>1 DEF Receive, Answer, InProgress, ApiTypeOK
  <2>3. IsFiniteSet({r})
    BY FS_Singleton
  <2>4. IsFiniteSet(InProgress')
    BY <2>2, <2>3, FS_Subset
  <2>5. \A p, q \in InProgress' : p = q
    BY <2>2
  <2> QED BY <2>4, <2>5 DEF OneAtATime
<1>2. ASSUME \A q \in Requests : ~Admitted(q)
      PROVE  OneAtATime'
  <2>1. InProgress' \subseteq InProgress
    <3> SUFFICES ASSUME NEW q \in Requests,
                        stage'[q] \in {"get_current_client", "execute"}
                 PROVE  stage[q] \in {"get_current_client", "execute"}
      BY DEF InProgress
    <3> QED
      BY <1>2, HttpMoves
      DEF HttpMove, Unmoved, TurnedAway, Started, Ran, ApiTypeOK
  <2> QED BY <2>1, FS_Subset DEF OneAtATime
<1>3. ASSUME NEW q \in Requests, Admitted(q)
      PROVE  \E r \in Requests, request \in HttpRequests : Receive(r, request)
  <2>1. ASSUME NEW r \in Requests, Authorize(r) \/ Execute(r) \/ Notify(r) \/ Fail(r)
        PROVE  FALSE
    BY <1>3, <2>1 DEF Admitted, Authorize, Execute, Notify, Fail, Answer, ApiTypeOK
  <2>2. ~(Background \/ Closed \/ UNCHANGED everything)
    BY <1>3 DEF Background, Closed, everything, apiVars, Admitted
  <2> QED BY <2>1, <2>2 DEF ApiNext
<1> QED BY <1>1, <1>2, <1>3

LEMMA RecordsNameClients ==
  ASSUME TypeOK, RecordsAreCurrent, [Next]_vars, NEW k \in Keys,
         idempotency'[k] # NoItem
  PROVE  profiles'[idempotency'[k].client_id] # NoItem
<1>1. CASE idempotency'[k] = idempotency[k]
  <2>1. idempotency[k].client_id \in Clients
    BY <1>1 DEF TypeOK, TableTypeOK, IdempotencyRecords
  <2> QED BY <1>1, <2>1, ClientsStay DEF RecordsAreCurrent
<1>2. ASSUME NEW r \in Requests, Commit(r), idempotency'[k] # idempotency[k]
      PROVE  profiles'[idempotency'[k].client_id] # NoItem
  <2>1. PutIdempotencyRecord(cmd[r].key, cmd[r].op, cmd[r].client, cmd[r].fund,
                             draft[r].balance)
    BY <1>2, CommitWrites
  <2>2. idempotency'[k].client_id = cmd[r].client
    BY <1>2, <2>1 DEF PutIdempotencyRecord, TypeOK, TableTypeOK
  <2>3. profiles' = [profiles EXCEPT ![cmd[r].client] = draft[r].balance]
    BY <1>2 DEF Commit, CommitSubscribe, CommitCancel, SubscribeAtomically,
                CancelAtomically, UpdateBalance
  <2>4. cmd[r].client \in Clients /\ draft[r].balance \in Money
    BY <1>2, CommitLocals, InFlightTyping DEF TypeOK
  <2> QED BY <2>2, <2>3, <2>4, DomainAssumption DEF TypeOK, TableTypeOK
<1>3. ASSUME NEW x \in Keys, Expire(x)
      PROVE  idempotency'[k] = idempotency[k]
  BY <1>3 DEF Expire, ExpireIdempotencyRecord, TypeOK, TableTypeOK
<1> QED BY <1>1, <1>2, <1>3, StepKinds

LEMMA RecordsAreCurrentStep ==
  ASSUME ~StaleReads, TypeOK, RecordsAreCurrent, [Next]_vars,
         \A q, r \in InFlight : q = r
  PROVE  RecordsAreCurrent'
<1> DEFINE Current(q, records) ==
      /\ pc'[q] \in {"get_client", "get_subscription", "transact_write"} =>
           (cmd'[q].key # NoKey => records[cmd'[q].key] = NoItem)
      /\ pc'[q] = "rebuild_client" => profiles'[found'[q].client_id] # NoItem
      /\ pc'[q] \notin {"replay_or_conflict", "rebuild_replay"}
<1> USE DEF TypeOK, LocalsTypeOK, Goto, Return, Raise
<1>1. ASSUME NEW q \in Requests
      PROVE  Current(q, idempotency')
  <2>1. /\ pc[q] \in {"get_client", "get_subscription", "transact_write"} =>
             (cmd[q].key # NoKey => idempotency[cmd[q].key] = NoItem)
        /\ pc[q] = "rebuild_client" => /\ found[q].client_id \in Clients
                                       /\ profiles[found[q].client_id] # NoItem
                                       /\ profiles'[found[q].client_id] # NoItem
        /\ pc[q] \notin {"replay_or_conflict", "rebuild_replay"}
    BY ClientsStay DEF RecordsAreCurrent, KeyIsFree, IdempotencyRecords
  <2>2. CASE /\ pc'[q] = pc[q]
             /\ cmd'[q] = cmd[q]
             /\ found'[q] = found[q]
             /\ idempotency' = idempotency
    BY <2>1, <2>2
  <2>3. CASE pc'[q] = pc[q] /\ pc[q] \notin InFlightPhases
    BY <2>3 DEF InFlightPhases
  <2>4. ASSUME NEW r \in Requests, Read(r)
        PROVE  Current(q, idempotency')
    <3>1. idempotency' = idempotency
      BY <2>4 DEF Read, GetIdempotencyResult, RebuildClient, GetClientProfile,
         ValidateSubscribe, ValidateCancel, ReplayOrConflict, RebuildReplay,
         table, items
    <3>2. CASE r # q
      BY <2>2, <2>4, <3>1, <3>2 DEF Read, GetIdempotencyResult, RebuildClient,
         GetClientProfile, ValidateSubscribe, ValidateCancel, ReplayOrConflict,
         RebuildReplay
    <3>3. CASE GetIdempotencyResult(q)
      <4>1. cmd[q].key \in Keys /\ found'[q] = idempotency[cmd[q].key]
        BY <3>3 DEF GetIdempotencyResult, GetIdempotencyItem, Answers
      <4>2. idempotency[cmd[q].key] # NoItem =>
              profiles'[idempotency[cmd[q].key].client_id] # NoItem
        BY <3>1, <4>1, RecordsNameClients
      <4> QED BY <3>1, <3>3, <4>1, <4>2 DEF GetIdempotencyResult
    <3>4. CASE RebuildClient(q)
      BY <2>1, <3>4 DEF RebuildClient, GetClient, Answers
    <3>5. CASE GetClientProfile(q) \/ ValidateSubscribe(q) \/ ValidateCancel(q)
      BY <2>1, <3>1, <3>5 DEF GetClientProfile, ValidateSubscribe, ValidateCancel
    <3>6. ~(ReplayOrConflict(q) \/ RebuildReplay(q))
      BY <2>1 DEF ReplayOrConflict, RebuildReplay
    <3> QED BY <2>4, <3>2, <3>3, <3>4, <3>5, <3>6 DEF Read
  <2>5. ASSUME NEW r \in Requests, Write(r)
        PROVE  Current(q, idempotency')
    <3>1. pc[r] = "transact_write"
      BY <2>5 DEF Write, CommitSubscribe, CommitCancel, KeyTaken, WriteRefused,
                  WriteConflicted
    <3>2. CASE r # q
      <4>1. pc[q] \notin InFlightPhases
        BY <3>1, <3>2 DEF InFlight, InFlightPhases
      <4>2. pc'[q] = pc[q]
        BY <2>5, <3>2 DEF Write, CommitSubscribe, CommitCancel, KeyTaken,
           WriteRefused, WriteConflicted, RaiseWriteRefused
      <4> QED BY <2>3, <4>1, <4>2
    <3>3. CASE r = q
      <4>1. ~KeyTaken(q)
        BY <2>1, <3>1, <3>3 DEF KeyTaken, KeyIsFree
      <4> QED
        BY <2>5, <3>3, <4>1 DEF Write, CommitSubscribe, CommitCancel,
           WriteRefused, WriteConflicted, RaiseWriteRefused
    <3> QED BY <3>2, <3>3
  <2>6. ASSUME NEW r \in Requests, NotifyClient(r) \/ Respond(r) \/ Die(r)
        PROVE  Current(q, idempotency')
    BY <2>1, <2>6 DEF NotifyClient, Respond, Die, table, items
  <2>7. ASSUME NEW r \in Requests, NEW command \in Commands, Arrive(r, command)
        PROVE  Current(q, idempotency')
    BY <2>1, <2>7 DEF Arrive, table, items
  <2>8. ASSUME NEW k \in Keys, Expire(k)
        PROVE  Current(q, idempotency')
    <3>1. /\ UNCHANGED <<pc, cmd, found>>
          /\ idempotency' = [idempotency EXCEPT ![k] = NoItem]
      BY <2>8 DEF Expire, ExpireIdempotencyRecord, locals
    <3>2. pc[q] \in {"get_client", "get_subscription", "transact_write"} =>
            cmd[q].key # k
      BY <2>8 DEF Expire, InFlight, InFlightPhases
    <3>3. pc[q] \in InFlightPhases => cmd[q].key \in Keys \cup {NoKey}
      BY InFlightTyping DEF InFlightPhases
    <3> QED BY <2>1, <3>1, <3>2, <3>3 DEF InFlightPhases, TableTypeOK
  <2>9. CatchUp \/ UNCHANGED vars => Current(q, idempotency')
    BY <2>2 DEF CatchUp, Replicate, vars, table, items, locals
  <2> QED
    BY <2>2, <2>4, <2>5, <2>6, <2>7, <2>8, <2>9 DEF Next, Step, AllAnswered
<1> QED
  BY <1>1, RecordsNameClients DEF RecordsAreCurrent, KeyIsFree

LEMMA NextWaiting ==
  ASSUME MaxAtOnce = 1, ~StaleReads, IInv, ApiInv, WaitingInv,
         [ApiNext]_everything
  PROVE  WaitingInv'
<1>1. TypeOK /\ ApiTypeOK /\ [Next]_vars
  BY ServiceSteps DEF IInv, ApiInv
<1>2. OneRequestPerClient /\ \A q, r \in InFlight : q = r
  BY <1>1, OneInFlight DEF WaitingInv
<1>3. OneAtATime'
  BY <1>1, OneAtATimeStep DEF WaitingInv
<1>4. DraftsAreCurrent'
  BY <1>1, <1>2, DraftsAreCurrentStep DEF WaitingInv
<1>5. RecordsAreCurrent'
  BY <1>1, <1>2, RecordsAreCurrentStep DEF WaitingInv
<1> QED BY <1>3, <1>4, <1>5 DEF WaitingInv

LEMMA InitWaiting == ApiInit => WaitingInv
<1> SUFFICES ASSUME ApiInit PROVE WaitingInv
  OBVIOUS
<1> USE DEF ApiInit, Init, InitTable
<1>1. InProgress = {}
  BY DEF InProgress
<1>2. OneAtATime
  BY <1>1, FS_EmptySet DEF OneAtATime
<1>3. DraftsAreCurrent /\ RecordsAreCurrent
  BY DEF DraftsAreCurrent, RecordsAreCurrent
<1> QED BY <1>2, <1>3 DEF WaitingInv

(* WaitingInv holds when each caller waits for its answer and reads are    *)
(* current.                                                                *)
THEOREM WaitingInvariant ==
  ASSUME MaxAtOnce = 1, ~StaleReads
  PROVE  ApiSpec => []WaitingInv
BY InitWaiting, NextWaiting, ApiInvariant, PTL DEF ApiSpec, everything

(* Waiting callers keep the requests of the service apart. *)
LEMMA WaitingIsPatient ==
  ASSUME ApiInv, WaitingInv
  PROVE  PatientInv
BY OneInFlight DEF ApiInv, WaitingInv, PatientInv

(* ImplementsAccount: then every change to a balance is an investment or a *)
(* redemption computed from the balance it replaces.                       *)
THEOREM CallersAccountRefinement ==
  ASSUME MaxAtOnce = 1, ~StaleReads
  PROVE  ApiSpec => ImplementsAccount
<1>1. ApiInit => Account!Init
  BY AccountInit DEF ApiInit
<1>2. ASSUME IInv, ApiInv, WaitingInv, [ApiNext]_everything
      PROVE  [Account!Next]_(Account!vars)
  <2>1. [Next]_vars /\ PatientInv
    BY <1>2, ServiceSteps, WaitingIsPatient
  <2> QED BY <1>2, <2>1, AccountNext
<1> QED
  BY <1>1, <1>2, ApiInvariant, WaitingInvariant, PTL
  DEF ApiSpec, everything, Account!Spec, ImplementsAccount

(* MoneyConserved: then no debit or credit is lost either, however many    *)
(* requests about a client the service itself would let overlap.           *)
THEOREM CallersMoneyIsConserved ==
  ASSUME MaxAtOnce = 1, ~StaleReads
  PROVE  ApiSpec => []MoneyConserved
<1>1. ApiInit => MoneyConserved
  BY MoneyConservedInit DEF ApiInit
<1>2. ASSUME IInv, ApiInv, WaitingInv, [ApiNext]_everything,
             SumsAreDefined, SumsAreDefined', MoneyConserved
      PROVE  MoneyConserved'
  <2>1. TypeOK /\ [Next]_vars /\ PatientInv
    BY <1>2, ServiceSteps, WaitingIsPatient DEF IInv
  <2>2. [Account!Next]_(Account!vars)
    BY <1>2, <2>1, AccountNext
  <2> QED BY <1>2, <2>1, <2>2, MoneyConservedStep
<1>3. ApiSpec => []SumsAreDefined
  BY ApiInvariant, InvestmentsCanBeSummed, PTL
<1> QED
  BY <1>1, <1>2, <1>3, ApiInvariant, WaitingInvariant, PTL
  DEF ApiSpec, everything

(* RefusalIsTrue: then a refusal as already subscribed, or as not          *)
(* subscribed, is what the table says.                                     *)
THEOREM RefusalsAreTrue ==
  ASSUME MaxAtOnce = 1, ~StaleReads
  PROVE  ApiSpec => RefusalIsTrue
<1>1. ASSUME IInv, ApiInv, WaitingInv, [ApiNext]_everything,
             NEW r \in Requests
      PROVE  LET held == subscriptions[<<cmd[r].client, cmd[r].fund>>] # NoItem
             IN  /\ AnsweredNow(r, "AlreadySubscribed") => held
                 /\ AnsweredNow(r, "NotSubscribed") => ~held
  <2> USE DEF AnsweredNow, Goto, Return, Raise
  <2>1. TypeOK /\ ApiTypeOK /\ [Next]_vars
    BY <1>1, ServiceSteps DEF IInv, ApiInv
  <2>2. \A p, q \in InFlight : p = q
    BY <1>1, <2>1, OneInFlight DEF WaitingInv
  <2> SUFFICES ASSUME AnsweredNow(r, "AlreadySubscribed")
                        \/ AnsweredNow(r, "NotSubscribed")
               PROVE  AnsweredNow(r, "AlreadySubscribed") <=>
                        subscriptions[<<cmd[r].client, cmd[r].fund>>] # NoItem
    OBVIOUS
  <2>3. CASE GetClientProfile(r) \/ ReplayOrConflict(r) \/ RebuildReplay(r)
    BY <2>1, <2>3 DEF GetClientProfile, ReplayOrConflict, RebuildReplay, TypeOK,
                      LocalsTypeOK
  <2>4. CASE ValidateSubscribe(r) \/ ValidateCancel(r)
    BY <1>1, <2>1, <2>4 DEF ValidateSubscribe, ValidateCancel, GetSubscription,
       Answers, TypeOK, LocalsTypeOK
  <2>5. ~WriteConflicted(r)
    BY <2>1, <2>2 DEF WriteConflicted, InFlight, InFlightPhases
  <2>6. ~WriteRefused(r)
    <3>1. pc[r] = "transact_write" =>
            draft[r].amount # NoItem /\ cmd[r].op \in Operations
      BY <2>1, InFlightTyping, DomainAssumption DEF TypeOK
    <3> QED
      BY <1>1, <3>1 DEF WriteRefused, WriteConditionsHold, SubscribeConditions,
         CancelConditions, WaitingInv, DraftsAreCurrent, Operations
  <2>7. reply'[r].kind \in DomainErrors /\ pc[r] # "done" /\ pc'[r] = "done"
    BY DEF DomainErrors
  <2> QED BY <2>1, <2>3, <2>4, <2>5, <2>6, <2>7, RaisedFrom
<1>2. IInv /\ ApiInv /\ WaitingInv /\ [ApiNext]_everything
        => [\A r \in Requests :
              LET held == subscriptions[<<cmd[r].client, cmd[r].fund>>] # NoItem
              IN  /\ AnsweredNow(r, "AlreadySubscribed") => held
                  /\ AnsweredNow(r, "NotSubscribed") => ~held]_everything
  BY <1>1
<1> QED
  BY <1>2, ApiInvariant, WaitingInvariant, PTL
  DEF ApiSpec, RefusalIsTrue, everything

(* RetryIsNotRefused: then a retry under its own key is never answered     *)
(* 404 or 409 once its operation has been done.                            *)
THEOREM RetriesAreNotRefused ==
  ASSUME MaxAtOnce = 1, ~StaleReads
  PROVE  ApiSpec => RetryIsNotRefused
<1>1. ASSUME IInv, ApiInv, WaitingInv, [ApiNext]_everything,
             NEW r \in Requests, AnsweredWith(r, {404, 409})
      PROVE  ~RecordAnswers(CommandOf(asked[r]))
  <2>1. /\ TypeOK
        /\ [Next]_vars
        /\ HttpMove(r)
    BY <1>1, ServiceSteps DEF IInv
  <2>2. Ran(r) /\ pc'[r] = "done"
    BY <1>1, <2>1 DEF AnsweredWith, HttpMove, Unmoved, TurnedAway, Admitted,
                      Started, Ran
  <2>3. reply'[r].kind \in DomainErrors
    BY <1>1, <2>2 DEF AnsweredWith, Ran, StatusOf, DomainErrors
  <2>4. pc[r] # "done" /\ pc[r] # "idle"
    BY <2>2 DEF Ran, InFlightPhases
  <2>5. pc[r] \in {"get_client", "get_subscription", "transact_write"}
    <3>1. pc[r] \notin {"replay_or_conflict", "rebuild_replay"}
      BY <1>1 DEF WaitingInv, RecordsAreCurrent
    <3> QED
      BY <2>1, <2>2, <2>3, <2>4, <3>1, RaisedFrom
      DEF GetClientProfile, ValidateSubscribe, ValidateCancel, WriteRefused,
          WriteConflicted, ReplayOrConflict, RebuildReplay
  <2>6. cmd[r] = CommandOf(asked[r]) /\ KeyIsFree(cmd[r].key)
    BY <1>1, <2>4, <2>5
    DEF ApiInv, CommandsAreAuthorized, WaitingInv, RecordsAreCurrent
  <2> QED BY <2>6 DEF RecordAnswers, KeyIsFree
<1>2. IInv /\ ApiInv /\ WaitingInv /\ [ApiNext]_everything
        => [\A r \in Requests :
              AnsweredWith(r, {404, 409})
                => ~RecordAnswers(CommandOf(asked[r]))]_everything
  BY <1>1
<1> QED
  BY <1>2, ApiInvariant, WaitingInvariant, PTL
  DEF ApiSpec, RetryIsNotRefused, everything
===============================================================================
