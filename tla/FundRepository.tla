---------------------------- MODULE FundRepository ----------------------------
(***************************************************************************)
(* The single DynamoDB table behind DynamoDbFundManagerRepository, as the  *)
(* subscribe and cancel flows use it: profile, subscription, transaction   *)
(* and idempotency items.  Each boto3 call is one operator here and one    *)
(* step of FundService.  get_item is called without ConsistentRead, so a   *)
(* read may be served by a replica that has not caught up: the stale...    *)
(* variables hold what such a replica still returns for each item.         *)
(***************************************************************************)
EXTENDS FundDomain

CONSTANT StaleReads  \* TRUE: reads may be served by a lagging replica

ASSUME StaleReadsAssumption == StaleReads \in BOOLEAN

VARIABLES
  profiles,          \* profiles[c]: stored balance, or NoItem
  subscriptions,     \* subscriptions[<<c, f>>]: amount, or NoItem
  idempotency,       \* idempotency[k]: idempotency record, or NoItem
  transactions,      \* the transaction items, a set of records
  staleProfiles,     \* the lagging replica's copies
  staleSubscriptions,
  staleIdempotency,
  expiries           \* history: how often TTL deleted key k's record

items == <<profiles, subscriptions, idempotency, transactions>>

replicas == <<staleProfiles, staleSubscriptions, staleIdempotency>>

table == <<items, replicas, expiries>>

Holdings == Clients \X Funds

-------------------------------------------------------------------------------
(* Reads.  Each operator is the set of answers the call may return.        *)

Answers(stored, lagging) == {stored} \cup (IF StaleReads THEN {lagging} ELSE {})

GetClient(c) == Answers(profiles[c], staleProfiles[c])

(* Mutant: the partition key, which names the client, is left out. *)
GetSubscription_AnyClient(c, f) == {subscriptions[<<d, f>>] : d \in Clients}

GetSubscription(c, f) ==
  Answers(subscriptions[<<c, f>>], staleSubscriptions[<<c, f>>])

GetIdempotencyItem(k) == Answers(idempotency[k], staleIdempotency[k])

-------------------------------------------------------------------------------
(* Condition expressions of the TransactWriteItems calls.                  *)

(* Mutant: the idempotency Put loses its attribute_not_exists condition.   *)
KeyIsFree_Unguarded(k) == TRUE

KeyIsFree(k) == k # NoKey => idempotency[k] = NoItem

(* Mutant: the subscription Put loses its attribute_not_exists condition.  *)
SubscribeConditions_NoExistsCheck(c, f, amount) ==
  profiles[c] # NoItem /\ profiles[c] >= amount

SubscribeConditions(c, f, amount) ==
  /\ profiles[c] # NoItem
  /\ profiles[c] >= amount
  /\ subscriptions[<<c, f>>] = NoItem

(* Mutant: the subscription Delete loses its attribute_exists condition.   *)
CancelConditions_NoExistsCheck(c, f) == profiles[c] # NoItem

CancelConditions(c, f) ==
  /\ profiles[c] # NoItem
  /\ subscriptions[<<c, f>>] # NoItem

-------------------------------------------------------------------------------
(* Writes, each one TransactWriteItems call: all of its items or none.     *)

(* Mutant: the record is written with the balance before the operation.    *)
PutIdempotencyRecord_Previous(k, op, c, f, balance) ==
  idempotency' =
    IF k = NoKey THEN idempotency
    ELSE [idempotency EXCEPT ![k] =
            [operation |-> op, client_id |-> c, fund_id |-> f,
             result_balance |-> profiles[c]]]

PutIdempotencyRecord(k, op, c, f, balance) ==
  idempotency' =
    IF k = NoKey THEN idempotency
    ELSE [idempotency EXCEPT ![k] =
            [operation |-> op, client_id |-> c, fund_id |-> f,
             result_balance |-> balance]]

(* SET balance = :new_balance, the value the use case computed. *)
UpdateBalance(c, balance) == profiles' = [profiles EXCEPT ![c] = balance]

PutTransaction(id, c, type, f, amount) ==
  transactions' = transactions \cup
    {[id |-> id, client |-> c, type |-> type, fund |-> f, amount |-> amount]}

(* Mutant: the idempotency Put is left out of the transaction. *)
SubscribeAtomically_NoRecord(id, c, balance, f, amount, k) ==
  /\ KeyIsFree(k)
  /\ SubscribeConditions(c, f, amount)
  /\ UpdateBalance(c, balance)
  /\ subscriptions' = [subscriptions EXCEPT ![<<c, f>>] = amount]
  /\ PutTransaction(id, c, "OPEN", f, amount)
  /\ UNCHANGED <<idempotency, replicas, expiries>>

SubscribeAtomically(id, c, balance, f, amount, k) ==
  /\ KeyIsFree(k)
  /\ SubscribeConditions(c, f, amount)
  /\ PutIdempotencyRecord(k, "SUBSCRIBE", c, f, balance)
  /\ UpdateBalance(c, balance)
  /\ subscriptions' = [subscriptions EXCEPT ![<<c, f>>] = amount]
  /\ PutTransaction(id, c, "OPEN", f, amount)
  /\ UNCHANGED <<replicas, expiries>>

(* Mutant: the credit is forgotten, the profile is left as it was.         *)
CancelAtomically_NoCredit(id, c, balance, f, amount, k) ==
  /\ KeyIsFree(k)
  /\ CancelConditions(c, f)
  /\ PutIdempotencyRecord(k, "CANCEL", c, f, balance)
  /\ UNCHANGED profiles
  /\ subscriptions' = [subscriptions EXCEPT ![<<c, f>>] = NoItem]
  /\ PutTransaction(id, c, "CANCEL", f, amount)
  /\ UNCHANGED <<replicas, expiries>>

CancelAtomically(id, c, balance, f, amount, k) ==
  /\ KeyIsFree(k)
  /\ CancelConditions(c, f)
  /\ PutIdempotencyRecord(k, "CANCEL", c, f, balance)
  /\ UpdateBalance(c, balance)
  /\ subscriptions' = [subscriptions EXCEPT ![<<c, f>>] = NoItem]
  /\ PutTransaction(id, c, "CANCEL", f, amount)
  /\ UNCHANGED <<replicas, expiries>>

-------------------------------------------------------------------------------
(* What DynamoDB does by itself.                                           *)

(* A lagging replica catches up with one item. *)
Replicate ==
  /\ StaleReads
  /\ \/ /\ \E c \in Clients :
             staleProfiles' = [staleProfiles EXCEPT ![c] = profiles[c]]
        /\ UNCHANGED <<staleSubscriptions, staleIdempotency>>
     \/ /\ \E h \in Holdings :
             staleSubscriptions' =
               [staleSubscriptions EXCEPT ![h] = subscriptions[h]]
        /\ UNCHANGED <<staleProfiles, staleIdempotency>>
     \/ /\ \E k \in Keys :
             staleIdempotency' =
               [staleIdempotency EXCEPT ![k] = idempotency[k]]
        /\ UNCHANGED <<staleProfiles, staleSubscriptions>>
  /\ UNCHANGED <<items, expiries>>

(* TTL deletes the record, a day after it was written (TTL_SECONDS): by    *)
(* then every replica has it.                                              *)
ExpireIdempotencyRecord(k) ==
  /\ idempotency[k] # NoItem
  /\ StaleReads => staleIdempotency[k] = idempotency[k]
  /\ idempotency' = [idempotency EXCEPT ![k] = NoItem]
  /\ expiries' = [expiries EXCEPT ![k] = @ + 1]
  /\ UNCHANGED <<profiles, subscriptions, transactions, replicas>>

-------------------------------------------------------------------------------
(* Clients register before they subscribe; a client id that was never      *)
(* registered has no profile.  A registration the replica has not seen yet *)
(* reads as absent there.                                                  *)
InitTable ==
  /\ profiles \in [Clients -> {InitialBalance, NoItem}]
  /\ staleProfiles \in [Clients -> {InitialBalance, NoItem}]
  /\ \A c \in Clients : staleProfiles[c] \in
       IF StaleReads THEN {profiles[c], NoItem} ELSE {profiles[c]}
  /\ subscriptions = [h \in Holdings |-> NoItem]
  /\ staleSubscriptions = subscriptions
  /\ idempotency = [k \in Keys |-> NoItem]
  /\ staleIdempotency = idempotency
  /\ transactions = {}
  /\ expiries = [k \in Keys |-> 0]
===============================================================================
