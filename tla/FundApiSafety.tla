----------------------------- MODULE FundApiSafety -----------------------------
(***************************************************************************)
(* What callers of subscribe and cancel may conclude from the status they  *)
(* get, and who can bring about what.                                      *)
(***************************************************************************)
EXTENDS FundApi

Stages == {"idle", "get_current_client", "execute", "answered"}

Statuses == {0, 200, 201, 400, 401, 403, 404, 409, 500}

(* Type invariant.  A request executes the command it was received with,   *)
(* and its status is 0 until it is answered.                               *)
ApiTypeOK ==
  /\ stage \in [Requests -> Stages]
  /\ asked \in [Requests -> HttpRequests \cup {NoItem}]
  /\ status \in [Requests -> Statuses]
  /\ delivered \subseteq Messages
  /\ \A r \in Requests :
       /\ stage[r] = "idle" => asked[r] = NoItem
       /\ stage[r] \in {"get_current_client", "execute"} =>
            asked[r] \in HttpRequests
       /\ stage[r] = "answered" <=> status[r] # 0
       /\ stage[r] = "execute" <=> pc[r] \in InFlightPhases
       /\ stage[r] \in {"idle", "get_current_client"} => pc[r] = "idle"

(* Every entry of the ledger was asked for, with that client, fund and     *)
(* operation, by its client or an admin, who is registered, and with a     *)
(* usable idempotency key or none.                                         *)
OnlyAuthorizedChange ==
  \A t \in transactions :
    LET request == asked[t.id]
    IN  /\ request.client = t.client
        /\ request.fund = t.fund
        /\ TransactionTypeOf(request.op) = t.type
        /\ request.caller \in Admins \/ request.caller = t.client
        /\ profiles[request.caller] # NoItem
        /\ IdempotencyKey(request.header) # NoItem

(* A 4xx status means that the request changed nothing and told nobody; a  *)
(* 2xx that it is in the ledger, or that one with the same key is.         *)
StatusTellsOutcome ==
  \A r \in Requests :
    /\ status[r] \in {400, 401, 403, 404, 409} =>
         /\ r \notin Committed
         /\ \A m \in delivered : m.about # r
    /\ status[r] \in {200, 201} =>
         \/ r \in Committed
         \/ \E q \in Committed :
              /\ IdempotencyKey(asked[r].header) \in Keys
              /\ IdempotencyKey(asked[q].header) = IdempotencyKey(asked[r].header)

(* Clients hear, on the channel they prefer, of openings of their own,     *)
(* whoever asked for them.  While the record of a key is kept, the         *)
(* messages of all requests with that key are about one opening: boto3 may *)
(* repeat a message, a caller's retry sends none.                          *)
MessagesMatchOpenings ==
  /\ \A m \in delivered : \E t \in transactions :
       /\ t.id = m.about
       /\ t.type = "OPEN"
       /\ t.client = m.to
       /\ m.by = NotifyPref[m.to]
  /\ \A m, n \in delivered :
       LET key == IdempotencyKey(asked[m.about].header)
       IN  /\ key = IdempotencyKey(asked[n.about].header)
           /\ key \in Keys
           /\ expiries[key] = 0
           => m.about = n.about

-------------------------------------------------------------------------------
(* What callers may rely on when each waits for its answer (MaxAtOnce = 1) *)
(* and reads are current.                                                  *)

AnsweredWith(r, codes) == status[r] = 0 /\ status'[r] \in codes

(* A retry under its own key is never answered 404 or 409 once the         *)
(* operation has been done, whatever has happened to the position since.   *)
RetryIsNotRefused ==
  [][\A r \in Requests :
       AnsweredWith(r, {404, 409})
         => ~RecordAnswers(CommandOf(asked[r]))]_<<vars, apiVars>>

(* Whoever is told it is already subscribed holds the fund, and whoever is *)
(* told it is not does not.                                                *)
RefusalIsTrue ==
  [][\A r \in Requests :
       LET held == subscriptions[<<cmd[r].client, cmd[r].fund>>] # NoItem
       IN  /\ AnsweredNow(r, "AlreadySubscribed") => held
           /\ AnsweredNow(r, "NotSubscribed") => ~held]_<<vars, apiVars>>

-------------------------------------------------------------------------------
(* The inductive invariant.                                                *)

(* Past the header and the token a request has a usable key and a caller,  *)
(* and the command in execution is the one asked for, by someone who may.  *)
CommandsAreAuthorized ==
  /\ \A r \in Requests : stage[r] = "get_current_client" \/ pc[r] # "idle" =>
       /\ asked[r] \in HttpRequests
       /\ asked[r].caller \in Clients
       /\ CommandOf(asked[r]) \in Commands
  /\ \A r \in Requests : pc[r] # "idle" =>
       /\ cmd[r] = CommandOf(asked[r])
       /\ OwnerOrAdmin(asked[r].caller, asked[r].client)
       /\ profiles[asked[r].caller] # NoItem

(* A client a lagging replica knows is registered. *)
ReplicaKnowsClients ==
  \A c \in Clients : staleProfiles[c] # NoItem => profiles[c] # NoItem

(* The status is the one of what the use case returned or raised. *)
StatusMatchesReply ==
  \A r \in Requests :
    /\ pc[r] = "done" => status[r] = StatusOf(cmd[r].op, reply[r].kind)
    /\ status[r] \in {200, 201, 404, 409} => pc[r] = "done"

(* Only a request with a key is answered from a record. *)
ReplaysHaveKey ==
  \A r \in Requests : reply[r].kind = "Replayed" => cmd[r].key \in Keys

(* What was delivered is what FundService has as notified. *)
DeliveredWereNotified ==
  \A m \in delivered :
    m.about \in notified /\ m = Message(m.about, m.attempt)

(* Inductive invariant of FundApi, beside IInv. *)
ApiInv ==
  /\ ApiTypeOK
  /\ CommandsAreAuthorized
  /\ ReplicaKnowsClients
  /\ StatusMatchesReply
  /\ ReplaysHaveKey
  /\ DeliveredWereNotified

-------------------------------------------------------------------------------
(* What holds besides when MaxAtOnce = 1 and reads are current.            *)

OneAtATime ==
  /\ IsFiniteSet(InProgress)
  /\ \A q, r \in InProgress : q = r

(* A request goes on to its write only if its key has no record, and a     *)
(* record it has found can be replayed, even if TTL deletes it meanwhile.  *)
RecordsAreCurrent ==
  /\ \A k \in Keys : idempotency[k] # NoItem =>
       profiles[idempotency[k].client_id] # NoItem
  /\ \A r \in Requests :
       /\ pc[r] \in {"get_client", "get_subscription", "transact_write"} =>
            KeyIsFree(cmd[r].key)
       /\ pc[r] = "rebuild_client" => profiles[found[r].client_id] # NoItem
       /\ pc[r] \notin {"replay_or_conflict", "rebuild_replay"}

(* Inductive invariant of callers who wait, beside IInv and ApiInv.        *)
WaitingInv == OneAtATime /\ DraftsAreCurrent /\ RecordsAreCurrent
===============================================================================
