-------------------------------- MODULE FundApi --------------------------------
(***************************************************************************)
(* The HTTP surface of subscribe and cancel, around FundService: the       *)
(* dependencies FastAPI resolves before the endpoint runs, in the order    *)
(* it resolves them, the endpoint, the exception handlers that turn its    *)
(* outcome into a status, and the dispatcher a committed subscribe         *)
(* notifies its client through.                                            *)
(***************************************************************************)
EXTENDS FundServiceSafety

CONSTANTS
  Admins,       \* the clients whose role is ADMIN
  NotifyPref,   \* notify_pref of each client
  HeaderValues, \* Idempotency-Key headers as sent
  KeyOf,        \* the key a header value strips to, NoItem if it is invalid
  MaxAtOnce,    \* most requests in progress at a time
  MaxAttempts   \* most calls boto3 makes to send one message

Channels == {"EMAIL", "SMS"}

ASSUME ApiAssumption ==
  /\ Admins \subseteq Clients
  /\ NotifyPref \in [Clients -> Channels]
  /\ NoKey \notin HeaderValues
  /\ KeyOf \in [HeaderValues -> Keys \cup {NoItem}]
  /\ NoItem \notin Keys \cup Clients \cup {NoKey}
  /\ MaxAtOnce \in Nat \ {0}
  /\ MaxAttempts \in Nat \ {0}

VARIABLES
  stage,      \* stage[r]: how far request r has come
  asked,      \* asked[r]: the request, once header and token are valid
  status,     \* status[r]: its HTTP status, 0 before it is answered
  delivered   \* messages the mail or SMS service accepted

apiVars == <<stage, asked, status, delivered>>

(* The caller is the sub claim of the bearer token, NoItem if there is no  *)
(* token or it does not decode (get_current_client, jwt_service).          *)
HttpRequests == [caller : Clients \cup {NoItem},
                 op     : Operations,
                 client : Clients,
                 fund   : Funds,
                 header : HeaderValues \cup {NoKey}]

(* A message boto3 sends again differs in the attempt only. *)
Messages == [to : Clients, by : Channels, about : Requests,
             attempt : 1 .. MaxAttempts]

InProgress == {r \in Requests : stage[r] \in {"get_current_client", "execute"}}

Answer(r, code) ==
  /\ status' = [status EXCEPT ![r] = code]
  /\ stage' = [stage EXCEPT ![r] = "answered"]

ApiInit ==
  /\ Init
  /\ stage = [r \in Requests |-> "idle"]
  /\ asked = [r \in Requests |-> NoItem]
  /\ status = [r \in Requests |-> 0]
  /\ delivered = {}

-------------------------------------------------------------------------------
(* Dependencies.                                                           *)

(* idempotency_key: no header is no key; a header is stripped, and refused *)
(* when nothing is left or too much.                                       *)
IdempotencyKey(header) == IF header = NoKey THEN NoKey ELSE KeyOf[header]

(* The header comes first, then the token: neither needs the table. *)
Receive(r, request) ==
  /\ stage[r] = "idle"
  /\ Cardinality(InProgress) < MaxAtOnce
  /\ \/ /\ IdempotencyKey(request.header) = NoItem
        /\ Answer(r, 400)
        /\ UNCHANGED asked
     \/ /\ IdempotencyKey(request.header) # NoItem
        /\ request.caller = NoItem
        /\ Answer(r, 401)
        /\ UNCHANGED asked
     \/ /\ IdempotencyKey(request.header) # NoItem
        /\ request.caller # NoItem
        /\ asked' = [asked EXCEPT ![r] = request]
        /\ stage' = [stage EXCEPT ![r] = "get_current_client"]
        /\ UNCHANGED status
  /\ UNCHANGED <<vars, delivered>>

(* Mutant: the caller's own id is compared with itself. *)
OwnerOrAdmin_Self(caller, client) == caller = caller

(* require_owner_or_admin. *)
OwnerOrAdmin(caller, client) == caller \in Admins \/ caller = client

CommandOf(request) ==
  [op |-> request.op, client |-> request.client, fund |-> request.fund,
   key |-> IdempotencyKey(request.header)]

(* Mutant: a caller without a profile is let through. *)
Authorize_AnySub(r) ==
  /\ stage[r] = "get_current_client"
  /\ \/ /\ ~OwnerOrAdmin(asked[r].caller, asked[r].client)
        /\ Answer(r, 403)
        /\ UNCHANGED vars
     \/ /\ OwnerOrAdmin(asked[r].caller, asked[r].client)
        /\ Arrive(r, CommandOf(asked[r]))
        /\ stage' = [stage EXCEPT ![r] = "execute"]
        /\ UNCHANGED status
  /\ UNCHANGED <<asked, delivered>>

(* get_current_client reads the caller's profile, require_owner_or_admin   *)
(* compares it with the path, and the endpoint calls execute.              *)
Authorize(r) ==
  /\ stage[r] = "get_current_client"
  /\ \E balance \in GetClient(asked[r].caller) :
       \/ balance = NoItem /\ Answer(r, 401) /\ UNCHANGED vars
       \/ /\ balance # NoItem
          /\ ~OwnerOrAdmin(asked[r].caller, asked[r].client)
          /\ Answer(r, 403)
          /\ UNCHANGED vars
       \/ /\ balance # NoItem
          /\ OwnerOrAdmin(asked[r].caller, asked[r].client)
          /\ Arrive(r, CommandOf(asked[r]))
          /\ stage' = [stage EXCEPT ![r] = "execute"]
          /\ UNCHANGED status
  /\ UNCHANGED <<asked, delivered>>

-------------------------------------------------------------------------------
(* The endpoint.                                                           *)

(* Mutant: every exception that is not mapped gets the default, 400. *)
StatusOf_Default(op, kind) ==
  CASE kind \in {"Client", "Replayed"} ->
         IF op = "SUBSCRIBE" THEN 201 ELSE 200
    [] kind \in {"ClientNotFound", "FundNotFound"} -> 404
    [] kind \in {"InsufficientBalance", "AlreadySubscribed",
                 "NotSubscribed", "IdempotencyConflict"} -> 409
    [] OTHER -> 400

(* The routes' status_code, _STATUS_MAP and the catch-all handler. *)
StatusOf(op, kind) ==
  CASE kind \in {"Client", "Replayed"} ->
         IF op = "SUBSCRIBE" THEN 201 ELSE 200
    [] kind \in {"ClientNotFound", "FundNotFound"} -> 404
    [] kind \in {"InsufficientBalance", "AlreadySubscribed",
                 "NotSubscribed", "IdempotencyConflict"} -> 409
    [] OTHER -> 500

(* A call of the use case; when it returns or raises, the answer is sent. *)
Execute(r) ==
  /\ Read(r) \/ Write(r) \/ Respond(r)
  /\ IF pc'[r] = "done" THEN Answer(r, StatusOf(asked[r].op, reply'[r].kind))
     ELSE UNCHANGED <<stage, status>>
  /\ UNCHANGED <<asked, delivered>>

(* The dispatcher picks the sender by the notify_pref of the client the    *)
(* use case read, and the sender takes its address.                        *)
Message(r, n) ==
  [to |-> cmd[r].client, by |-> NotifyPref[cmd[r].client], about |-> r,
   attempt |-> n]

(* boto3 repeats a call whose answer is lost, so the message may arrive    *)
(* several times; when it gives up, the sender logs the failure and goes   *)
(* on, whether or not an attempt arrived.                                  *)
Notify(r) ==
  /\ NotifyClient(r)
  /\ \E arrived \in SUBSET (1 .. MaxAttempts) :
       /\ r \in notified' <=> arrived # {}
       /\ delivered' = delivered \cup {Message(r, n) : n \in arrived}
  /\ UNCHANGED <<stage, asked, status>>

(* An unexpected error, before or in the endpoint: the catch-all handler   *)
(* answers 500, or nobody answers.                                         *)
Fail(r) ==
  /\ \/ stage[r] = "get_current_client" /\ UNCHANGED vars
     \/ Die(r)
  /\ Answer(r, StatusOf(asked[r].op, "ServerError"))
  /\ UNCHANGED <<asked, delivered>>

Background ==
  /\ CatchUp \/ \E k \in Keys : Expire(k)
  /\ UNCHANGED apiVars

Closed == (\A r \in Requests : stage[r] = "answered") /\ UNCHANGED <<vars, apiVars>>

ApiNext ==
  \/ \E r \in Requests, request \in HttpRequests : Receive(r, request)
  \/ \E r \in Requests : Authorize(r) \/ Execute(r) \/ Notify(r) \/ Fail(r)
  \/ Background
  \/ Closed

ApiSpec == ApiInit /\ [][ApiNext]_<<vars, apiVars>>
===============================================================================
