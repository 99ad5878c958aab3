----------------------------- MODULE FundService ------------------------------
(***************************************************************************)
(* Concurrent subscribe and cancel requests over the fund table.           *)
(*                                                                         *)
(* FastAPI runs the synchronous endpoints in a thread pool, and the Lambda *)
(* deployment runs many processes: every request executes its use case     *)
(* with no lock, so any two requests interleave at every boto3 call.  A    *)
(* request is a process whose pc names the call it makes next; its local   *)
(* variables are the ones of SubscribeToFundUseCase.execute and            *)
(* CancelSubscriptionUseCase.execute.                                      *)
(***************************************************************************)
EXTENDS FundRepository, FiniteSets

CONSTANTS
  Requests,      \* HTTP requests that may arrive; also their transaction ids
  MaxPerClient   \* most requests about one client in flight at a time

ASSUME RequestsAssumption == MaxPerClient \in Nat \ {0}

VARIABLES
  pc,        \* pc[r]: the next call of request r
  cmd,       \* cmd[r]: its command, NoItem before it arrives
  draft,     \* draft[r]: balance and amount computed so far
  found,     \* found[r]: idempotency record read, or NoItem
  reply,     \* reply[r]: what the use case returned or raised
  notified   \* requests whose notification was sent

locals == <<pc, cmd, draft, found, reply, notified>>

vars == <<table, locals>>

(* The calls of the use cases and the repository, in program order. *)
InFlightPhases ==
  {"get_idempotency_result", "rebuild_client", "get_client",
   "get_subscription", "transact_write", "replay_or_conflict",
   "rebuild_replay", "notify", "respond"}

Phases == {"idle", "done"} \cup InFlightPhases

Drafts == [balance : Money, amount : Money]

(* "Client" and "Replayed" both answer 2xx with a client body; every other *)
(* kind is an error, "ServerError" the catch-all 500 or a lost answer.     *)
ReplyKinds == {"Pending", "Client", "Replayed", "ServerError"} \cup DomainErrors

Replies == [kind : ReplyKinds, client : Clients \cup {NoItem}, balance : Money]

InFlight == {r \in Requests : pc[r] \in InFlightPhases}

Goto(r, phase) == pc' = [pc EXCEPT ![r] = phase]

(* The use case returns a client snapshot ... *)
Return(r, kind, c, balance) ==
  /\ Goto(r, "done")
  /\ reply' = [reply EXCEPT
       ![r] = [kind |-> kind, client |-> c, balance |-> balance]]

(* ... or raises, which the exception handlers turn into an error answer. *)
Raise(r, kind) == Return(r, kind, NoItem, 0)

-------------------------------------------------------------------------------
Init ==
  /\ InitTable
  /\ pc = [r \in Requests |-> "idle"]
  /\ cmd = [r \in Requests |-> NoItem]
  /\ draft = [r \in Requests |-> [balance |-> 0, amount |-> 0]]
  /\ found = [r \in Requests |-> NoItem]
  /\ reply = [r \in Requests |->
                [kind |-> "Pending", client |-> NoItem, balance |-> 0]]
  /\ notified = {}

(* The endpoint builds the command and calls execute. *)
Arrive(r, command) ==
  /\ pc[r] = "idle"
  /\ Cardinality({q \in InFlight : cmd[q].client = command.client})
       < MaxPerClient
  /\ cmd' = [cmd EXCEPT ![r] = command]
  /\ Goto(r, IF command.key = NoKey THEN "get_client"
             ELSE "get_idempotency_result")
  /\ UNCHANGED <<table, draft, found, reply, notified>>

(* Mutant: execute reads the record but goes on without replaying it. *)
GetIdempotencyResult_Ignored(r) ==
  /\ pc[r] = "get_idempotency_result"
  /\ \E item \in GetIdempotencyItem(cmd[r].key) :
       found' = [found EXCEPT ![r] = item]
  /\ Goto(r, "get_client")
  /\ UNCHANGED <<table, cmd, draft, reply, notified>>

(* Fast replay path: get_idempotency_result reads the record ... *)
GetIdempotencyResult(r) ==
  /\ pc[r] = "get_idempotency_result"
  /\ \E item \in GetIdempotencyItem(cmd[r].key) :
       /\ found' = [found EXCEPT ![r] = item]
       /\ Goto(r, IF item = NoItem THEN "get_client" ELSE "rebuild_client")
  /\ UNCHANGED <<table, cmd, draft, reply, notified>>

(* ... then the client it names; with no client there is nothing to replay *)
(* and execute goes on.                                                    *)
RebuildClient(r) ==
  /\ pc[r] = "rebuild_client"
  /\ \E balance \in GetClient(found[r].client_id) :
       \/ /\ balance = NoItem
          /\ Goto(r, "get_client")
          /\ UNCHANGED reply
       \/ /\ balance # NoItem
          /\ Return(r, "Replayed", found[r].client_id, found[r].result_balance)
  /\ UNCHANGED <<table, cmd, draft, found, notified>>

GetClientProfile(r) ==
  /\ pc[r] = "get_client"
  /\ \E balance \in GetClient(cmd[r].client) :
       \/ /\ balance = NoItem
          /\ Raise(r, "ClientNotFound")
          /\ UNCHANGED draft
       \/ /\ balance # NoItem
          /\ draft' = [draft EXCEPT ![r] = [balance |-> balance, amount |-> 0]]
          /\ Goto(r, "get_subscription")
          /\ UNCHANGED reply
  /\ UNCHANGED <<table, cmd, found, notified>>

(* Mutant: the balance is debited without comparing it with the minimum. *)
ValidateSubscribe_NoBalanceCheck(r) ==
  /\ pc[r] = "get_subscription"
  /\ cmd[r].op = "SUBSCRIBE"
  /\ draft' = [draft EXCEPT
       ![r] = [balance |-> draft[r].balance - MinAmount[cmd[r].fund],
               amount  |-> MinAmount[cmd[r].fund]]]
  /\ Goto(r, "transact_write")
  /\ UNCHANGED <<table, cmd, found, reply, notified>>

(* Subscribe: the fund (get_fund, the catalog never changes), the          *)
(* subscription, the balance; then the debit is computed.                  *)
ValidateSubscribe(r) ==
  LET fund == cmd[r].fund
      covered == IsGreaterThanOrEqual(draft[r].balance, MinAmount[fund])
  IN  /\ pc[r] = "get_subscription"
      /\ cmd[r].op = "SUBSCRIBE"
      /\ \/ /\ fund \notin Catalog
            /\ Raise(r, "FundNotFound")
            /\ UNCHANGED draft
         \/ /\ fund \in Catalog
            /\ \E amount \in GetSubscription(cmd[r].client, fund) :
                 \/ /\ amount # NoItem
                    /\ Raise(r, "AlreadySubscribed")
                    /\ UNCHANGED draft
                 \/ /\ amount = NoItem
                    /\ ~covered
                    /\ Raise(r, "InsufficientBalance")
                    /\ UNCHANGED draft
                 \/ /\ amount = NoItem
                    /\ covered
                    /\ draft' = [draft EXCEPT
                         ![r] = [balance |-> Subtract(draft[r].balance,
                                             MinAmount[fund]),
                                 amount  |-> MinAmount[fund]]]
                    /\ Goto(r, "transact_write")
                    /\ UNCHANGED reply
      /\ UNCHANGED <<table, cmd, found, notified>>

(* Cancel: only the subscription is looked up; its amount is credited. *)
ValidateCancel(r) ==
  /\ pc[r] = "get_subscription"
  /\ cmd[r].op = "CANCEL"
  /\ \E amount \in GetSubscription(cmd[r].client, cmd[r].fund) :
       \/ /\ amount = NoItem
          /\ Raise(r, "NotSubscribed")
          /\ UNCHANGED draft
       \/ /\ amount # NoItem
          /\ draft' = [draft EXCEPT
               ![r] = [balance |-> Plus(draft[r].balance, amount),
                       amount  |-> amount]]
          /\ Goto(r, "transact_write")
          /\ UNCHANGED reply
  /\ UNCHANGED <<table, cmd, found, notified>>

-------------------------------------------------------------------------------
(* TransactWriteItems commits. *)
CommitSubscribe(r) ==
  /\ pc[r] = "transact_write"
  /\ cmd[r].op = "SUBSCRIBE"
  /\ SubscribeAtomically(r, cmd[r].client, draft[r].balance, cmd[r].fund,
                         draft[r].amount, cmd[r].key)
  /\ Goto(r, "notify")
  /\ UNCHANGED <<cmd, draft, found, reply, notified>>

CommitCancel(r) ==
  /\ pc[r] = "transact_write"
  /\ cmd[r].op = "CANCEL"
  /\ CancelAtomically(r, cmd[r].client, draft[r].balance, cmd[r].fund,
                      draft[r].amount, cmd[r].key)
  /\ Goto(r, "respond")
  /\ UNCHANGED <<cmd, draft, found, reply, notified>>

(* Mutant: a TransactionConflict on the record's item is taken for a       *)
(* duplicate key.                                                          *)
KeyTaken_OnConflict(r) ==
  /\ pc[r] = "transact_write"
  /\ cmd[r].key # NoKey
  /\ \/ ~KeyIsFree(cmd[r].key)
     \/ \E q \in Requests \ {r} :
          pc[q] = "transact_write" /\ cmd[q].key = cmd[r].key
  /\ Goto(r, "replay_or_conflict")
  /\ UNCHANGED <<table, cmd, draft, found, reply, notified>>

(* It is cancelled because the idempotency record exists. *)
KeyTaken(r) ==
  /\ pc[r] = "transact_write"
  /\ ~KeyIsFree(cmd[r].key)
  /\ Goto(r, "replay_or_conflict")
  /\ UNCHANGED <<table, cmd, draft, found, reply, notified>>

(* The error raised for a cancellation with any other reason. *)
RaiseWriteRefused(r) ==
  Raise(r, IF cmd[r].op = "SUBSCRIBE" THEN "AlreadySubscribed"
           ELSE "NotSubscribed")

WriteConditionsHold(r) ==
  IF cmd[r].op = "SUBSCRIBE"
  THEN SubscribeConditions(cmd[r].client, cmd[r].fund, draft[r].amount)
  ELSE CancelConditions(cmd[r].client, cmd[r].fund)

(* Mutant: the items are written one by one, and the transaction item has  *)
(* been put when a condition fails.                                        *)
WriteRefused_Partial(r) ==
  /\ pc[r] = "transact_write"
  /\ KeyIsFree(cmd[r].key)
  /\ ~WriteConditionsHold(r)
  /\ RaiseWriteRefused(r)
  /\ PutTransaction(r, cmd[r].client, "OPEN", cmd[r].fund, draft[r].amount)
  /\ UNCHANGED <<profiles, subscriptions, idempotency, replicas, expiries,
                 cmd, draft, found, notified>>

(* It is cancelled because the profile or the subscription condition fails. *)
WriteRefused(r) ==
  /\ pc[r] = "transact_write"
  /\ KeyIsFree(cmd[r].key)
  /\ ~WriteConditionsHold(r)
  /\ RaiseWriteRefused(r)
  /\ UNCHANGED <<table, cmd, draft, found, notified>>

(* It is cancelled with TransactionConflict because another transaction is *)
(* writing one of its items; _idempotency_item_failed does not take that   *)
(* for a duplicate key, even on item 0.                                    *)
WriteConflicted(r) ==
  /\ pc[r] = "transact_write"
  /\ \E q \in Requests \ {r} :
       /\ pc[q] = "transact_write"
       /\ \/ cmd[q].client = cmd[r].client
          \/ cmd[q].key = cmd[r].key /\ cmd[r].key # NoKey
  /\ RaiseWriteRefused(r)
  /\ UNCHANGED <<table, cmd, draft, found, notified>>

(* Mutant: the record's operation is compared with the transaction type. *)
SameRequest_ByType(record, command) ==
  /\ record.operation = IF command.op = "SUBSCRIBE" THEN "OPEN" ELSE "CANCEL"
  /\ record.fund_id = command.fund

SameRequest(record, command) ==
  record.operation = command.op /\ record.fund_id = command.fund

(* Mutant: on a mismatch the write is tried again. *)
ReplayOrConflict_Retry(r) ==
  /\ pc[r] = "replay_or_conflict"
  /\ \E item \in GetIdempotencyItem(cmd[r].key) :
       IF item # NoItem /\ SameRequest(item, cmd[r])
       THEN /\ found' = [found EXCEPT ![r] = item]
            /\ Goto(r, "rebuild_replay")
       ELSE /\ Goto(r, "transact_write")
            /\ UNCHANGED found
  /\ UNCHANGED <<table, cmd, draft, reply, notified>>

(* The record is read back and compared with this request ... *)
ReplayOrConflict(r) ==
  /\ pc[r] = "replay_or_conflict"
  /\ \E item \in GetIdempotencyItem(cmd[r].key) :
       \/ /\ item # NoItem => ~SameRequest(item, cmd[r])
          /\ Raise(r, "IdempotencyConflict")
          /\ UNCHANGED found
       \/ /\ item # NoItem
          /\ SameRequest(item, cmd[r])
          /\ found' = [found EXCEPT ![r] = item]
          /\ Goto(r, "rebuild_replay")
          /\ UNCHANGED reply
  /\ UNCHANGED <<table, cmd, draft, notified>>

(* Mutant: a replayed subscribe notifies the client again. *)
RebuildReplay_Notifies(r) ==
  /\ pc[r] = "rebuild_replay"
  /\ Return(r, "Replayed", found[r].client_id, found[r].result_balance)
  /\ notified' = notified \cup {r}
  /\ UNCHANGED <<table, cmd, draft, found>>

(* ... and the client it names is read for the replay. *)
RebuildReplay(r) ==
  /\ pc[r] = "rebuild_replay"
  /\ \E balance \in GetClient(found[r].client_id) :
       \/ /\ balance = NoItem
          /\ Raise(r, "IdempotencyConflict")
       \/ /\ balance # NoItem
          /\ Return(r, "Replayed", found[r].client_id, found[r].result_balance)
  /\ UNCHANGED <<table, cmd, draft, found, notified>>

-------------------------------------------------------------------------------
(* The dispatcher sends the message, or the sender fails and logs it. *)
NotifyClient(r) ==
  /\ pc[r] = "notify"
  /\ notified' \in {notified, notified \cup {r}}
  /\ Goto(r, "respond")
  /\ UNCHANGED <<table, cmd, draft, found, reply>>

(* execute returns the client it wrote. *)
Respond(r) ==
  /\ pc[r] = "respond"
  /\ Return(r, "Client", cmd[r].client, draft[r].balance)
  /\ UNCHANGED <<table, cmd, draft, found, notified>>

(* Any call may raise an unmapped exception, the Lambda may time out or the *)
(* process may stop: the caller sees a 500, or nothing, and what was       *)
(* committed stays.                                                        *)
Die(r) ==
  /\ pc[r] \in InFlightPhases
  /\ Raise(r, "ServerError")
  /\ UNCHANGED <<table, cmd, draft, found, notified>>

(* TTL deletes a record a day or more after its write, and a request lasts *)
(* seconds: one that still looks its key up, or has found the record, may  *)
(* lose it to the deletion; one that goes on without a record, or met it   *)
(* at its write, shows that the record was young.                          *)
Expire(k) ==
  /\ \A r \in InFlight : cmd[r].key = k =>
       pc[r] \in {"get_idempotency_result", "rebuild_client"}
  /\ ExpireIdempotencyRecord(k)
  /\ UNCHANGED locals

CatchUp == Replicate /\ UNCHANGED locals

AllAnswered == (\A r \in Requests : pc[r] = "done") /\ UNCHANGED vars

Read(r) ==
  \/ GetIdempotencyResult(r)
  \/ RebuildClient(r)
  \/ GetClientProfile(r)
  \/ ValidateSubscribe(r)
  \/ ValidateCancel(r)
  \/ ReplayOrConflict(r)
  \/ RebuildReplay(r)

Write(r) ==
  \/ CommitSubscribe(r)
  \/ CommitCancel(r)
  \/ KeyTaken(r)
  \/ WriteRefused(r)
  \/ WriteConflicted(r)

Step(r) == Read(r) \/ Write(r) \/ NotifyClient(r) \/ Respond(r)

Next ==
  \/ \E r \in Requests, command \in Commands : Arrive(r, command)
  \/ \E r \in Requests : Step(r)
  \/ \E r \in Requests : Die(r)
  \/ \E k \in Keys : Expire(k)
  \/ CatchUp
  \/ AllAnswered

Spec == Init /\ [][Next]_vars

(* A started request is a running thread: it keeps executing.  Arrivals,   *)
(* failures, TTL deletions and replication are not assumed to happen.      *)
FairSpec == Spec /\ \A r \in Requests : WF_vars(Step(r))

===============================================================================
