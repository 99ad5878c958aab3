--------------------------- MODULE FundServiceProofs --------------------------
(***************************************************************************)
(* Proofs, for all values of the constants, of the safety of FundService.  *)
(***************************************************************************)
EXTENDS FundServiceSafety, FiniteSetTheorems, TLAPS

USE DomainAssumption

-------------------------------------------------------------------------------
(* Lemmas about the table's operators.                                     *)

(* A get_item answer has the type of the item it reads. *)
LEMMA AnswersTyping ==
  ASSUME NEW S, NEW a \in S, NEW b \in S
  PROVE  Answers(a, b) \subseteq S
BY DEF Answers

(* The initial state has the types of TypeOK. *)
LEMMA InitTyping == Init => TypeOK
<1> SUFFICES ASSUME Init PROVE TypeOK
  OBVIOUS
<1> USE DEF Init, InitTable
<1>1. /\ profiles \in [Clients -> Money \cup {NoItem}]
      /\ staleProfiles \in [Clients -> Money \cup {NoItem}]
      /\ subscriptions \in [Holdings -> Money \cup {NoItem}]
      /\ staleSubscriptions \in [Holdings -> Money \cup {NoItem}]
  BY DEF Money
<1>2. /\ idempotency \in [Keys -> IdempotencyRecords \cup {NoItem}]
      /\ staleIdempotency \in [Keys -> IdempotencyRecords \cup {NoItem}]
      /\ transactions \subseteq TransactionItems
      /\ expiries \in [Keys -> Nat]
  OBVIOUS
<1>3. /\ pc \in [Requests -> Phases]
      /\ cmd \in [Requests -> Commands \cup {NoItem}]
      /\ draft \in [Requests -> Drafts]
      /\ found \in [Requests -> IdempotencyRecords \cup {NoItem}]
      /\ reply \in [Requests -> Replies]
      /\ notified \subseteq Requests
  BY DEF Phases, Drafts, Replies, ReplyKinds, Money
<1> QED BY <1>1, <1>2, <1>3 DEF TypeOK, TableTypeOK, LocalsTypeOK

(* A table nobody writes keeps its types. *)
LEMMA TableUnchangedTyping ==
  ASSUME TableTypeOK, UNCHANGED table
  PROVE  TableTypeOK'
BY DEF TableTypeOK, table, items, replicas

(* The locals keep their types when a request only moves to another phase, *)
(* with the data that phase needs.                                         *)
LEMMA GotoTyping ==
  ASSUME LocalsTypeOK, NEW r \in Requests, NEW phase \in Phases,
         pc[r] # "idle", phase # "idle", Goto(r, phase),
         phase \in {"get_idempotency_result", "rebuild_client",
                    "replay_or_conflict", "rebuild_replay"}
           => cmd[r].key \in Keys,
         phase \in {"rebuild_client", "rebuild_replay"} => found'[r] # NoItem,
         UNCHANGED <<cmd, reply>>,
         draft' \in [Requests -> Drafts],
         found' \in [Requests -> IdempotencyRecords \cup {NoItem}],
         \A q \in Requests \ {r} : found'[q] = found[q],
         notified' \subseteq Requests
  PROVE  LocalsTypeOK'
BY DEF LocalsTypeOK, Goto

(* ... or when it answers. *)
LEMMA ReturnTyping ==
  ASSUME LocalsTypeOK, NEW r \in Requests, NEW kind \in ReplyKinds,
         NEW c \in Clients \cup {NoItem}, NEW b \in Money,
         pc[r] # "idle", Return(r, kind, c, b),
         UNCHANGED <<cmd, draft, found, notified>>
  PROVE  LocalsTypeOK'
BY DEF LocalsTypeOK, Return, Goto, Phases, Replies

LEMMA RaiseTyping ==
  ASSUME LocalsTypeOK, NEW r \in Requests, NEW kind \in ReplyKinds,
         pc[r] # "idle", Raise(r, kind),
         UNCHANGED <<cmd, draft, found, notified>>
  PROVE  LocalsTypeOK'
BY ReturnTyping, 0 \in Money DEF Raise, Money

(* Types of what a request in flight uses. *)
LEMMA InFlightTyping ==
  ASSUME LocalsTypeOK, NEW r \in Requests, pc[r] # "idle"
  PROVE  /\ cmd[r] \in Commands
         /\ cmd[r].op \in Operations
         /\ cmd[r].client \in Clients
         /\ cmd[r].fund \in Funds
         /\ cmd[r].key \in Keys \cup {NoKey}
         /\ <<cmd[r].client, cmd[r].fund>> \in Holdings
         /\ draft[r].balance \in Money
         /\ draft[r].amount \in Money
         /\ found[r] # NoItem => /\ found[r] \in IdempotencyRecords
                                 /\ found[r].client_id \in Clients
                                 /\ found[r].result_balance \in Money
BY DEF LocalsTypeOK, Commands, Drafts, IdempotencyRecords, Holdings

(* Money stays non-negative: a sum always, a difference that is covered. *)
LEMMA MoneyArithmetic ==
  ASSUME NEW a \in Money, NEW b \in Money
  PROVE  /\ Plus(a, b) \in Money
         /\ IsGreaterThanOrEqual(a, b) => Subtract(a, b) \in Money
BY DEF Money, Plus, Subtract, IsGreaterThanOrEqual

(* Types of what a read returns. *)
LEMMA ReadTyping ==
  ASSUME TableTypeOK
  PROVE  /\ \A c \in Clients : GetClient(c) \subseteq Money \cup {NoItem}
         /\ \A c \in Clients, f \in Funds :
              GetSubscription(c, f) \subseteq Money \cup {NoItem}
         /\ \A k \in Keys :
              GetIdempotencyItem(k) \subseteq IdempotencyRecords \cup {NoItem}
BY DEF TableTypeOK, GetClient, GetSubscription, GetIdempotencyItem, Answers,
       Holdings

(* The writes of one TransactWriteItems keep the table's types. *)
LEMMA CommitTyping ==
  ASSUME TableTypeOK, NEW id \in Requests, NEW c \in Clients, NEW f \in Funds,
         NEW op \in Operations, NEW type \in TransactionTypes,
         NEW k \in Keys \cup {NoKey}, NEW b \in Money, NEW amount \in Money,
         NEW position \in Money \cup {NoItem},
         PutIdempotencyRecord(k, op, c, f, b),
         profiles' = [profiles EXCEPT ![c] = b],
         subscriptions' = [subscriptions EXCEPT ![<<c, f>>] = position],
         PutTransaction(id, c, type, f, amount),
         UNCHANGED <<replicas, expiries>>
  PROVE  TableTypeOK'
<1>1. idempotency' \in [Keys -> IdempotencyRecords \cup {NoItem}]
  BY DEF TableTypeOK, PutIdempotencyRecord, IdempotencyRecords
<1>2. transactions' \subseteq TransactionItems
  BY DEF TableTypeOK, PutTransaction, TransactionItems
<1>3. /\ profiles' \in [Clients -> Money \cup {NoItem}]
      /\ subscriptions' \in [Holdings -> Money \cup {NoItem}]
  BY DEF TableTypeOK, Holdings
<1> QED BY <1>1, <1>2, <1>3 DEF TableTypeOK, replicas

(* Every step keeps the types. *)
LEMMA NextTyping == TypeOK /\ [Next]_vars => TypeOK'
<1> SUFFICES ASSUME TypeOK, [Next]_vars PROVE TypeOK'
  OBVIOUS
<1> USE DEF TypeOK
<1>1. ASSUME NEW r \in Requests, NEW command \in Commands, Arrive(r, command)
      PROVE  TypeOK'
  <2>1. TableTypeOK'
    BY <1>1, TableUnchangedTyping DEF Arrive
  <2>2. LocalsTypeOK'
    BY <1>1 DEF LocalsTypeOK, Arrive, Goto, Phases, InFlightPhases, Commands
  <2> QED BY <2>1, <2>2
<1>2. ASSUME NEW r \in Requests, Read(r)
      PROVE  TypeOK'
  <2>1. TableTypeOK'
    BY <1>2, TableUnchangedTyping
    DEF Read, GetIdempotencyResult, RebuildClient, GetClientProfile,
        ValidateSubscribe, ValidateCancel, ReplayOrConflict, RebuildReplay
  <2> USE <1>2, InFlightTyping, ReadTyping
  <2>2. CASE GetIdempotencyResult(r)
    <3>1. cmd[r].key \in Keys /\ pc[r] # "idle"
      BY <2>2 DEF GetIdempotencyResult, LocalsTypeOK
    <3>2. PICK item \in GetIdempotencyItem(cmd[r].key) :
            /\ found' = [found EXCEPT ![r] = item]
            /\ Goto(r, IF item = NoItem THEN "get_client" ELSE "rebuild_client")
      BY <2>2 DEF GetIdempotencyResult
    <3>3. item \in IdempotencyRecords \cup {NoItem}
      BY <3>1, <3>2
    <3>4. found' \in [Requests -> IdempotencyRecords \cup {NoItem}]
          /\ found'[r] = item
      BY <3>2, <3>3 DEF LocalsTypeOK
    <3>5. CASE item = NoItem
      BY <2>1, <2>2, <3>1, <3>2, <3>4, <3>5, GotoTyping
      DEF GetIdempotencyResult, Phases, InFlightPhases, LocalsTypeOK
    <3>6. CASE item # NoItem
      BY <2>1, <2>2, <3>1, <3>2, <3>4, <3>6, GotoTyping
      DEF GetIdempotencyResult, Phases, InFlightPhases, LocalsTypeOK
    <3> QED BY <3>5, <3>6
  <2>3. CASE RebuildClient(r)
    <3>1. pc[r] # "idle" /\ found[r] # NoItem
      BY <2>3 DEF RebuildClient, LocalsTypeOK
    <3>2. CASE Goto(r, "get_client") /\ UNCHANGED reply
      BY <2>1, <2>3, <3>1, <3>2, GotoTyping
      DEF RebuildClient, Phases, InFlightPhases, LocalsTypeOK
    <3>3. CASE Return(r, "Replayed", found[r].client_id, found[r].result_balance)
      BY <2>1, <2>3, <3>1, <3>3, ReturnTyping DEF RebuildClient, ReplyKinds
    <3> QED BY <2>3, <3>2, <3>3 DEF RebuildClient
  <2>4. CASE GetClientProfile(r)
    <3>1. pc[r] # "idle"
      BY <2>4 DEF GetClientProfile
    <3>2. CASE Raise(r, "ClientNotFound") /\ UNCHANGED draft
      BY <2>1, <2>4, <3>1, <3>2, RaiseTyping
      DEF GetClientProfile, ReplyKinds, DomainErrors
    <3>3. ASSUME NEW balance \in GetClient(cmd[r].client), balance # NoItem,
                 draft' = [draft EXCEPT ![r] = [balance |-> balance, amount |-> 0]],
                 Goto(r, "get_subscription"), UNCHANGED reply
          PROVE  TypeOK'
      <4>1. balance \in Money
        BY <3>1, <3>3
      <4>2. draft' \in [Requests -> Drafts]
        BY <3>3, <4>1 DEF LocalsTypeOK, Drafts, Money
      <4> QED
        BY <2>1, <2>4, <3>1, <3>3, <4>2, GotoTyping
        DEF GetClientProfile, Phases, InFlightPhases, LocalsTypeOK
    <3> QED BY <2>4, <3>2, <3>3 DEF GetClientProfile
  <2>5. CASE ValidateSubscribe(r)
    <3>1. pc[r] # "idle"
      BY <2>5 DEF ValidateSubscribe
    <3>2. ASSUME NEW kind \in DomainErrors, Raise(r, kind), UNCHANGED draft
          PROVE  TypeOK'
      BY <2>1, <2>5, <3>1, <3>2, RaiseTyping DEF ValidateSubscribe, ReplyKinds
    <3>3. ASSUME draft' = [draft EXCEPT ![r] =
                   [balance |-> Subtract(draft[r].balance, MinAmount[cmd[r].fund]),
                    amount  |-> MinAmount[cmd[r].fund]]],
                 IsGreaterThanOrEqual(draft[r].balance, MinAmount[cmd[r].fund]),
                 Goto(r, "transact_write"), UNCHANGED reply
          PROVE  TypeOK'
      <4>1. /\ MinAmount[cmd[r].fund] \in Money
            /\ Subtract(draft[r].balance, MinAmount[cmd[r].fund]) \in Money
        BY <3>1, <3>3, MoneyArithmetic
      <4>2. draft' \in [Requests -> Drafts]
        BY <3>3, <4>1 DEF LocalsTypeOK, Drafts
      <4> QED
        BY <2>1, <2>5, <3>1, <3>3, <4>2, GotoTyping
        DEF ValidateSubscribe, Phases, InFlightPhases, LocalsTypeOK
    <3> QED BY <2>5, <3>2, <3>3 DEF ValidateSubscribe, DomainErrors
  <2>6. CASE ValidateCancel(r)
    <3>1. pc[r] # "idle"
      BY <2>6 DEF ValidateCancel
    <3>2. CASE Raise(r, "NotSubscribed") /\ UNCHANGED draft
      BY <2>1, <2>6, <3>1, <3>2, RaiseTyping
      DEF ValidateCancel, ReplyKinds, DomainErrors
    <3>3. ASSUME NEW amount \in GetSubscription(cmd[r].client, cmd[r].fund),
                 amount # NoItem,
                 draft' = [draft EXCEPT ![r] =
                   [balance |-> Plus(draft[r].balance, amount),
                    amount  |-> amount]],
                 Goto(r, "transact_write"), UNCHANGED reply
          PROVE  TypeOK'
      <4>1. cmd[r].client \in Clients /\ cmd[r].fund \in Funds
        BY <3>1
      <4>2. amount \in Money
        BY <3>3, <4>1
      <4>3. amount \in Money /\ Plus(draft[r].balance, amount) \in Money
        BY <3>1, <4>2, MoneyArithmetic
      <4>4. draft' \in [Requests -> Drafts]
        BY <3>3, <4>3 DEF LocalsTypeOK, Drafts
      <4> QED
        BY <2>1, <2>6, <3>1, <3>3, <4>4, GotoTyping
        DEF ValidateCancel, Phases, InFlightPhases, LocalsTypeOK
    <3> QED BY <2>6, <3>2, <3>3 DEF ValidateCancel
  <2>7. CASE ReplayOrConflict(r)
    <3>1. cmd[r].key \in Keys /\ pc[r] # "idle"
      BY <2>7 DEF ReplayOrConflict, LocalsTypeOK
    <3>2. CASE Raise(r, "IdempotencyConflict") /\ UNCHANGED found
      BY <2>1, <2>7, <3>1, <3>2, RaiseTyping
      DEF ReplayOrConflict, ReplyKinds, DomainErrors
    <3>3. ASSUME NEW item \in GetIdempotencyItem(cmd[r].key), item # NoItem,
                 found' = [found EXCEPT ![r] = item],
                 Goto(r, "rebuild_replay"), UNCHANGED reply
          PROVE  TypeOK'
      <4>1. found' \in [Requests -> IdempotencyRecords \cup {NoItem}]
            /\ found'[r] = item
        BY <3>1, <3>3 DEF LocalsTypeOK
      <4> QED
        BY <2>1, <2>7, <3>1, <3>3, <4>1, GotoTyping
        DEF ReplayOrConflict, Phases, InFlightPhases, LocalsTypeOK
    <3> QED BY <2>7, <3>2, <3>3 DEF ReplayOrConflict
  <2>8. CASE RebuildReplay(r)
    <3>1. pc[r] # "idle" /\ found[r] # NoItem
      BY <2>8 DEF RebuildReplay, LocalsTypeOK
    <3>2. CASE Raise(r, "IdempotencyConflict")
      BY <2>1, <2>8, <3>1, <3>2, RaiseTyping
      DEF RebuildReplay, ReplyKinds, DomainErrors
    <3>3. CASE Return(r, "Replayed", found[r].client_id, found[r].result_balance)
      BY <2>1, <2>8, <3>1, <3>3, ReturnTyping DEF RebuildReplay, ReplyKinds
    <3> QED BY <2>8, <3>2, <3>3 DEF RebuildReplay
  <2> QED
    BY <1>2, <2>2, <2>3, <2>4, <2>5, <2>6, <2>7, <2>8 DEF Read
<1>3. ASSUME NEW r \in Requests, Write(r)
      PROVE  TypeOK'
  <2>1. pc[r] = "transact_write"
    BY <1>3 DEF Write, CommitSubscribe, CommitCancel, KeyTaken, WriteRefused,
                WriteConflicted
  <2> USE <1>3, <2>1, InFlightTyping
  <2>2. CASE CommitSubscribe(r)
    <3>1. TableTypeOK'
      BY <2>2, CommitTyping DEF CommitSubscribe, SubscribeAtomically,
             UpdateBalance, TransactionTypes, Operations
    <3>2. LocalsTypeOK'
      BY <2>2, GotoTyping
      DEF CommitSubscribe, Phases, InFlightPhases, LocalsTypeOK
    <3> QED BY <3>1, <3>2
  <2>3. CASE CommitCancel(r)
    <3>1. TableTypeOK'
      BY <2>3, CommitTyping DEF CommitCancel, CancelAtomically,
             UpdateBalance, TransactionTypes, Operations
    <3>2. LocalsTypeOK'
      BY <2>3, GotoTyping
      DEF CommitCancel, Phases, InFlightPhases, LocalsTypeOK
    <3> QED BY <3>1, <3>2
  <2>4. CASE KeyTaken(r)
    <3>1. cmd[r].key \in Keys
      BY <2>4 DEF KeyTaken, KeyIsFree
    <3> QED
      BY <2>4, <3>1, TableUnchangedTyping, GotoTyping
      DEF KeyTaken, Phases, InFlightPhases, LocalsTypeOK
  <2>5. CASE WriteRefused(r) \/ WriteConflicted(r)
    <3>1. PICK kind \in DomainErrors : Raise(r, kind)
      BY <2>5 DEF WriteRefused, WriteConflicted, RaiseWriteRefused, DomainErrors
    <3> QED
      BY <2>5, <3>1, TableUnchangedTyping, RaiseTyping
      DEF WriteRefused, WriteConflicted, ReplyKinds
  <2> QED BY <2>2, <2>3, <2>4, <2>5 DEF Write
<1>4. ASSUME NEW r \in Requests, NotifyClient(r)
      PROVE  TypeOK'
  <2>1. pc[r] # "idle" /\ notified' \subseteq Requests
    BY <1>4 DEF NotifyClient, LocalsTypeOK
  <2> QED
    BY <1>4, <2>1, TableUnchangedTyping, GotoTyping
    DEF NotifyClient, Phases, InFlightPhases, LocalsTypeOK
<1>5. ASSUME NEW r \in Requests, Respond(r)
      PROVE  TypeOK'
  BY <1>5, TableUnchangedTyping, ReturnTyping, InFlightTyping
  DEF Respond, ReplyKinds
<1>6. ASSUME NEW r \in Requests, Die(r)
      PROVE  TypeOK'
  BY <1>6, TableUnchangedTyping, RaiseTyping
  DEF Die, ReplyKinds, InFlightPhases
<1>7. ASSUME NEW k \in Keys, Expire(k)
      PROVE  TypeOK'
  BY <1>7 DEF Expire, ExpireIdempotencyRecord, TableTypeOK, LocalsTypeOK,
              locals, replicas
<1>8. CASE CatchUp
  BY <1>8 DEF CatchUp, Replicate, TableTypeOK, LocalsTypeOK, locals, items
<1>9. CASE UNCHANGED vars
  BY <1>9, TableUnchangedTyping DEF vars, locals, LocalsTypeOK
<1> QED
  BY <1>1, <1>2, <1>3, <1>4, <1>5, <1>6, <1>7, <1>8, <1>9
  DEF Next, Step, AllAnswered

(* TypeOK: no step, whatever overlaps, leaves an item or a local variable  *)
(* without the shape the code gives it, or a balance below zero.           *)
THEOREM TypeCorrect == Spec => []TypeOK
BY InitTyping, NextTyping, PTL DEF Spec
===============================================================================
