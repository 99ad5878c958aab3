----------------------- MODULE FundServiceInvariantProofs ---------------------
(***************************************************************************)
(* The inductive invariant of FundService and the safety properties that   *)
(* follow from it, for all values of the constants.                        *)
(***************************************************************************)
EXTENDS FundServiceProofs

Commit(r) == CommitSubscribe(r) \/ CommitCancel(r)

-------------------------------------------------------------------------------
(* What kinds of step there are.                                           *)

(* Only a commit or a TTL deletion writes what a replica copies from. *)
LEMMA StepKinds ==
  ASSUME [Next]_vars
  PROVE  \/ \E r \in Requests : Commit(r)
         \/ \E k \in Keys : Expire(k)
         \/ UNCHANGED <<profiles, subscriptions, idempotency, transactions,
                        expiries>>
<1> USE DEF table, items, replicas, vars, locals
<1>1. ASSUME NEW r \in Requests, Read(r)
      PROVE  UNCHANGED table
  BY <1>1 DEF Read, GetIdempotencyResult, RebuildClient, GetClientProfile,
              ValidateSubscribe, ValidateCancel, ReplayOrConflict, RebuildReplay
<1>2. ASSUME NEW r \in Requests,
             KeyTaken(r) \/ WriteRefused(r) \/ WriteConflicted(r)
               \/ NotifyClient(r) \/ Respond(r) \/ Die(r)
      PROVE  UNCHANGED table
  BY <1>2 DEF KeyTaken, WriteRefused, WriteConflicted, NotifyClient, Respond, Die
<1>3. ASSUME NEW r \in Requests, NEW command \in Commands, Arrive(r, command)
      PROVE  UNCHANGED table
  BY <1>3 DEF Arrive
<1>4. CatchUp => UNCHANGED <<profiles, subscriptions, idempotency, transactions,
                             expiries>>
  BY DEF CatchUp, Replicate
<1> QED
  BY <1>1, <1>2, <1>3, <1>4 DEF Next, Step, Write, Commit, AllAnswered

(* Only replication changes what a lagging replica returns. *)
LEMMA ReplicaSteps ==
  ASSUME [Next]_vars
  PROVE  UNCHANGED replicas \/ CatchUp
<1>1. ASSUME NEW r \in Requests, Read(r)
      PROVE  UNCHANGED replicas
  BY <1>1 DEF Read, GetIdempotencyResult, RebuildClient, GetClientProfile,
              ValidateSubscribe, ValidateCancel, ReplayOrConflict,
              RebuildReplay, table
<1>2. ASSUME NEW r \in Requests, Write(r)
      PROVE  UNCHANGED replicas
  BY <1>2 DEF Write, CommitSubscribe, CommitCancel, SubscribeAtomically,
              CancelAtomically, KeyTaken, WriteRefused, WriteConflicted, table
<1>3. ASSUME NEW r \in Requests, NotifyClient(r) \/ Respond(r) \/ Die(r)
      PROVE  UNCHANGED replicas
  BY <1>3 DEF NotifyClient, Respond, Die, table
<1>4. ASSUME NEW r \in Requests, NEW command \in Commands, Arrive(r, command)
      PROVE  UNCHANGED replicas
  BY <1>4 DEF Arrive, table
<1>5. (\E k \in Keys : Expire(k)) \/ UNCHANGED vars => UNCHANGED replicas
  BY DEF Expire, ExpireIdempotencyRecord, vars, table
<1> QED
  BY <1>1, <1>2, <1>3, <1>4, <1>5 DEF Next, Step, AllAnswered

(* A step other than a commit concerns one request and none that is        *)
(* idle or done is touched except by its arrival.                          *)
LEMMA OneRequestMoves ==
  ASSUME TypeOK, [Next]_vars
  PROVE  \A q \in Requests :
           pc[q] \in {"notify", "respond", "done"} =>
             /\ cmd'[q] = cmd[q]
             /\ draft'[q] = draft[q]
             /\ found'[q] = found[q]
             /\ pc'[q] \in {"notify", "respond", "done"}
<1> USE DEF TypeOK, LocalsTypeOK, Goto, Return, Raise
<1>1. ASSUME NEW r \in Requests, Read(r)
      PROVE  /\ pc[r] \notin {"notify", "respond", "done"}
             /\ cmd' = cmd
             /\ \A q \in Requests \ {r} :
                  draft'[q] = draft[q] /\ found'[q] = found[q] /\ pc'[q] = pc[q]
  BY <1>1 DEF Read, GetIdempotencyResult, RebuildClient, GetClientProfile,
              ValidateSubscribe, ValidateCancel, ReplayOrConflict, RebuildReplay
<1>2. ASSUME NEW r \in Requests, Write(r)
      PROVE  /\ pc[r] \notin {"notify", "respond", "done"}
             /\ UNCHANGED <<cmd, draft, found>>
             /\ \A q \in Requests \ {r} : pc'[q] = pc[q]
  BY <1>2 DEF Write, CommitSubscribe, CommitCancel, KeyTaken, WriteRefused,
              WriteConflicted, RaiseWriteRefused
<1>3. ASSUME NEW r \in Requests, NotifyClient(r) \/ Respond(r) \/ Die(r)
      PROVE  /\ UNCHANGED <<cmd, draft, found>>
             /\ pc'[r] \in {"respond", "done"}
             /\ \A q \in Requests \ {r} : pc'[q] = pc[q]
  BY <1>3 DEF NotifyClient, Respond, Die
<1>4. ASSUME NEW r \in Requests, NEW command \in Commands, Arrive(r, command)
      PROVE  /\ pc[r] = "idle"
             /\ UNCHANGED <<draft, found>>
             /\ \A q \in Requests \ {r} : pc'[q] = pc[q] /\ cmd'[q] = cmd[q]
  BY <1>4 DEF Arrive
<1>5. (\E k \in Keys : Expire(k)) \/ CatchUp \/ UNCHANGED vars
        => UNCHANGED <<pc, cmd, draft, found>>
  BY DEF Expire, CatchUp, vars, locals
<1> QED
  BY <1>1, <1>2, <1>3, <1>4, <1>5 DEF Next, Step, AllAnswered

(* What a commit enters in the ledger. *)
LEMMA CommitEntry ==
  ASSUME TypeOK, LedgerFromRequests, NEW r \in Requests, Commit(r)
  PROVE  \E t \in TransactionItems :
           /\ transactions' = transactions \cup {t}
           /\ t.id = r
           /\ t.client = cmd[r].client
           /\ t.fund = cmd[r].fund
           /\ t.amount = draft[r].amount
           /\ t.type = TransactionTypeOf(cmd[r].op)
           /\ t \notin transactions
           /\ r \notin Committed
           /\ IsFiniteSet(transactions')
<1>1. pc[r] = "transact_write" /\ cmd[r].op \in Operations
  BY InFlightTyping DEF Commit, CommitSubscribe, CommitCancel, TypeOK
<1> DEFINE t == [id |-> r, client |-> cmd[r].client,
                 type |-> TransactionTypeOf(cmd[r].op),
                 fund |-> cmd[r].fund, amount |-> draft[r].amount]
<1>2. transactions' = transactions \cup {t}
  BY <1>1 DEF Commit, CommitSubscribe, CommitCancel, SubscribeAtomically,
              CancelAtomically, PutTransaction, TransactionTypeOf
<1>3. t \in TransactionItems
  BY <1>1, InFlightTyping
  DEF TransactionItems, TransactionTypes, TransactionTypeOf, TypeOK
<1>4. r \notin Committed
  BY <1>1 DEF LedgerFromRequests, Committed
<1>5. t \notin transactions
  BY <1>4 DEF Committed
<1>6. IsFiniteSet(transactions')
  BY <1>2, FS_AddElement DEF LedgerFromRequests
<1> QED BY <1>2, <1>3, <1>4, <1>5, <1>6

(* A commit changes no local variable but pc. *)
LEMMA CommitLocals ==
  ASSUME TypeOK, NEW r \in Requests, Commit(r)
  PROVE  /\ pc[r] = "transact_write"
         /\ UNCHANGED <<cmd, draft, found, reply, notified>>
         /\ pc' = [pc EXCEPT
              ![r] = IF cmd[r].op = "SUBSCRIBE" THEN "notify" ELSE "respond"]
         /\ KeyIsFree(cmd[r].key)
         /\ UNCHANGED <<replicas, expiries>>
BY DEF Commit, CommitSubscribe, CommitCancel, Goto, SubscribeAtomically,
       CancelAtomically

(* What a commit writes to the subscription and the idempotency record. *)
LEMMA CommitWrites ==
  ASSUME TypeOK, NEW r \in Requests, Commit(r)
  PROVE  LET h == <<cmd[r].client, cmd[r].fund>> IN
         /\ cmd[r].op = "SUBSCRIBE" => subscriptions[h] = NoItem
         /\ cmd[r].op = "CANCEL" => subscriptions[h] # NoItem
         /\ subscriptions' = [subscriptions EXCEPT ![h] =
              IF cmd[r].op = "SUBSCRIBE" THEN draft[r].amount ELSE NoItem]
         /\ PutIdempotencyRecord(cmd[r].key, cmd[r].op, cmd[r].client,
                                 cmd[r].fund, draft[r].balance)
         /\ cmd[r].op \in Operations
<1>1. pc[r] = "transact_write" /\ cmd[r].op \in Operations
  BY CommitLocals, InFlightTyping DEF TypeOK
<1>2. CASE CommitSubscribe(r)
  BY <1>1, <1>2 DEF CommitSubscribe, SubscribeAtomically, SubscribeConditions
<1>3. CASE CommitCancel(r)
  BY <1>1, <1>3 DEF CommitCancel, CancelAtomically, CancelConditions
<1> QED BY <1>2, <1>3 DEF Commit

-------------------------------------------------------------------------------
(* One lemma per part of the inductive invariant.                          *)

LEMMA LedgerFromRequestsStep ==
  ASSUME TypeOK, TypeOK', LedgerFromRequests, [Next]_vars
  PROVE  LedgerFromRequests'
<1>1. \A t \in transactions : t.id \in Requests
  BY DEF TypeOK, TableTypeOK, TransactionItems
<1>2. \A t \in transactions :
        /\ pc'[t.id] \in {"notify", "respond", "done"}
        /\ cmd'[t.id] = cmd[t.id]
  BY <1>1, OneRequestMoves DEF LedgerFromRequests
<1>3. CASE transactions' = transactions
  BY <1>2, <1>3 DEF LedgerFromRequests
<1>4. ASSUME NEW r \in Requests, Commit(r)
      PROVE  LedgerFromRequests'
  <2>1. PICK t \in TransactionItems :
           /\ transactions' = transactions \cup {t}
           /\ t.id = r
           /\ t.client = cmd[r].client
           /\ t.fund = cmd[r].fund
           /\ t.type = TransactionTypeOf(cmd[r].op)
           /\ r \notin Committed
           /\ IsFiniteSet(transactions')
    BY <1>4, CommitEntry
  <2>2. pc'[r] \in {"notify", "respond"} /\ cmd'[r] = cmd[r]
    BY <1>4, CommitLocals DEF TypeOK, LocalsTypeOK
  <2>3. \A u \in transactions : u.id # r
    BY <2>1 DEF Committed
  <2> QED BY <1>2, <2>1, <2>2, <2>3 DEF LedgerFromRequests
<1> QED BY <1>3, <1>4, StepKinds DEF Expire, ExpireIdempotencyRecord

LEMMA HoldingsMatchLedgerStep ==
  ASSUME TypeOK, TypeOK', LedgerFromRequests, HoldingsMatchLedger, [Next]_vars
  PROVE  HoldingsMatchLedger'
<1>1. CASE UNCHANGED <<transactions, subscriptions>>
  BY <1>1 DEF HoldingsMatchLedger, Entries
<1>2. ASSUME NEW r \in Requests, Commit(r)
      PROVE  HoldingsMatchLedger'
  <2> SUFFICES ASSUME NEW c \in Clients, NEW f \in Funds
               PROVE  Cardinality(Entries("OPEN", c, f)') =
                        Cardinality(Entries("CANCEL", c, f)')
                          + (IF subscriptions'[<<c, f>>] = NoItem THEN 0 ELSE 1)
    BY DEF HoldingsMatchLedger
  <2>1. PICK t \in TransactionItems :
           /\ transactions' = transactions \cup {t}
           /\ t.client = cmd[r].client
           /\ t.fund = cmd[r].fund
           /\ t.type = TransactionTypeOf(cmd[r].op)
           /\ t \notin transactions
    BY <1>2, CommitEntry
  <2>2. /\ IsFiniteSet(Entries("OPEN", c, f))
        /\ IsFiniteSet(Entries("CANCEL", c, f))
    BY FS_Subset DEF LedgerFromRequests, Entries
  <2>3. /\ Cardinality(Entries("OPEN", c, f)) \in Nat
        /\ Cardinality(Entries("CANCEL", c, f)) \in Nat
    BY <2>2, FS_CardinalityType
  <2>4. Cardinality(Entries("OPEN", c, f)) =
          Cardinality(Entries("CANCEL", c, f))
            + (IF subscriptions[<<c, f>>] = NoItem THEN 0 ELSE 1)
    BY DEF HoldingsMatchLedger
  <2>5. CASE <<c, f>> # <<cmd[r].client, cmd[r].fund>>
    <3>1. /\ Entries("OPEN", c, f)' = Entries("OPEN", c, f)
          /\ Entries("CANCEL", c, f)' = Entries("CANCEL", c, f)
      BY <2>1, <2>5 DEF Entries
    <3>2. subscriptions'[<<c, f>>] = subscriptions[<<c, f>>]
      BY <1>2, <2>5, CommitWrites DEF TypeOK, TableTypeOK, Holdings
    <3> QED BY <2>4, <3>1, <3>2
  <2>6. CASE <<c, f>> = <<cmd[r].client, cmd[r].fund>> /\ cmd[r].op = "SUBSCRIBE"
    <3>1. /\ Entries("OPEN", c, f)' = Entries("OPEN", c, f) \cup {t}
          /\ Entries("CANCEL", c, f)' = Entries("CANCEL", c, f)
          /\ t \notin Entries("OPEN", c, f)
      BY <2>1, <2>6 DEF Entries, TransactionTypeOf
    <3>2. Cardinality(Entries("OPEN", c, f)') = Cardinality(Entries("OPEN", c, f)) + 1
      BY <2>2, <3>1, FS_AddElement
    <3>3. subscriptions[<<c, f>>] = NoItem /\ subscriptions'[<<c, f>>] # NoItem
      <4>1. draft[r].amount # NoItem
        BY <1>2, CommitLocals, InFlightTyping, DomainAssumption DEF TypeOK
      <4>2. <<c, f>> \in Holdings
        BY DEF Holdings
      <4> QED BY <1>2, <2>6, <4>1, <4>2, CommitWrites DEF TypeOK, TableTypeOK
    <3> QED BY <2>3, <2>4, <3>1, <3>2, <3>3
  <2>7. CASE <<c, f>> = <<cmd[r].client, cmd[r].fund>> /\ cmd[r].op = "CANCEL"
    <3>1. /\ Entries("CANCEL", c, f)' = Entries("CANCEL", c, f) \cup {t}
          /\ Entries("OPEN", c, f)' = Entries("OPEN", c, f)
          /\ t \notin Entries("CANCEL", c, f)
      BY <2>1, <2>7 DEF Entries, TransactionTypeOf
    <3>2. Cardinality(Entries("CANCEL", c, f)')
            = Cardinality(Entries("CANCEL", c, f)) + 1
      BY <2>2, <3>1, FS_AddElement
    <3>3. subscriptions[<<c, f>>] # NoItem /\ subscriptions'[<<c, f>>] = NoItem
      <4>1. <<c, f>> \in Holdings
        BY DEF Holdings
      <4> QED BY <1>2, <2>7, <4>1, CommitWrites DEF TypeOK, TableTypeOK
    <3> QED BY <2>3, <2>4, <3>1, <3>2, <3>3
  <2> QED BY <1>2, <2>5, <2>6, <2>7, CommitWrites DEF Operations
<1> QED BY <1>1, <1>2, StepKinds DEF Expire, ExpireIdempotencyRecord

LEMMA OneCommitPerKeyStep ==
  ASSUME TypeOK, TypeOK', LedgerFromRequests, OneCommitPerKey, [Next]_vars
  PROVE  OneCommitPerKey'
<1> SUFFICES ASSUME NEW k \in Keys
             PROVE  Cardinality(EntriesUnder(k)') =
                      expiries'[k] + (IF idempotency'[k] = NoItem THEN 0 ELSE 1)
  BY DEF OneCommitPerKey
<1>1. Cardinality(EntriesUnder(k)) =
        expiries[k] + (IF idempotency[k] = NoItem THEN 0 ELSE 1)
  BY DEF OneCommitPerKey
<1>2. \A t \in transactions : cmd'[t.id] = cmd[t.id]
  BY OneRequestMoves DEF TypeOK, TableTypeOK, TransactionItems, LedgerFromRequests
<1>3. expiries[k] \in Nat
  BY DEF TypeOK, TableTypeOK
<1>4. CASE UNCHANGED <<transactions, idempotency, expiries>>
  <2>1. EntriesUnder(k)' = EntriesUnder(k)
    BY <1>2, <1>4 DEF EntriesUnder
  <2> QED BY <1>1, <1>4, <2>1
<1>5. ASSUME NEW x \in Keys, Expire(x)
      PROVE  Cardinality(EntriesUnder(k)') =
               expiries'[k] + (IF idempotency'[k] = NoItem THEN 0 ELSE 1)
  <2>1. EntriesUnder(k)' = EntriesUnder(k)
    BY <1>2, <1>5 DEF EntriesUnder, Expire, ExpireIdempotencyRecord
  <2>2. expiries'[k] + (IF idempotency'[k] = NoItem THEN 0 ELSE 1)
          = expiries[k] + (IF idempotency[k] = NoItem THEN 0 ELSE 1)
    BY <1>3, <1>5 DEF Expire, ExpireIdempotencyRecord, TypeOK, TableTypeOK
  <2> QED BY <1>1, <2>1, <2>2
<1>6. ASSUME NEW r \in Requests, Commit(r)
      PROVE  Cardinality(EntriesUnder(k)') =
               expiries'[k] + (IF idempotency'[k] = NoItem THEN 0 ELSE 1)
  <2>1. PICK t \in TransactionItems :
           /\ transactions' = transactions \cup {t}
           /\ t.id = r
           /\ t \notin transactions
    BY <1>6, CommitEntry
  <2>2. IsFiniteSet(EntriesUnder(k))
    BY FS_Subset DEF LedgerFromRequests, EntriesUnder
  <2>3. UNCHANGED <<cmd, expiries>> /\ KeyIsFree(cmd[r].key)
    BY <1>6, CommitLocals
  <2>4. CASE cmd[r].key # k
    <3>1. EntriesUnder(k)' = EntriesUnder(k)
      BY <2>1, <2>3, <2>4 DEF EntriesUnder
    <3>2. idempotency'[k] = idempotency[k]
      BY <1>6, <2>4, CommitWrites DEF PutIdempotencyRecord, TypeOK, TableTypeOK
    <3> QED BY <1>1, <2>3, <3>1, <3>2
  <2>5. CASE cmd[r].key = k
    <3>1. EntriesUnder(k)' = EntriesUnder(k) \cup {t} /\ t \notin EntriesUnder(k)
      BY <2>1, <2>3, <2>5 DEF EntriesUnder
    <3>2. Cardinality(EntriesUnder(k)') = Cardinality(EntriesUnder(k)) + 1
      BY <2>2, <3>1, FS_AddElement
    <3>3. k # NoKey
      BY DomainAssumption
    <3>4. idempotency[k] = NoItem
      BY <2>3, <2>5, <3>3 DEF KeyIsFree
    <3>5. idempotency'[k] # NoItem
      <4>1. [operation |-> cmd[r].op, client_id |-> cmd[r].client,
             fund_id |-> cmd[r].fund, result_balance |-> draft[r].balance]
              \in IdempotencyRecords
        BY <1>6, CommitLocals, InFlightTyping DEF IdempotencyRecords, TypeOK
      <4>2. idempotency'[k] =
              [operation |-> cmd[r].op, client_id |-> cmd[r].client,
               fund_id |-> cmd[r].fund, result_balance |-> draft[r].balance]
        BY <1>6, <2>5, <3>3, CommitWrites
        DEF PutIdempotencyRecord, TypeOK, TableTypeOK
      <4> QED BY <4>1, <4>2, DomainAssumption
    <3> QED BY <1>1, <1>3, <2>3, <3>2, <3>4, <3>5
  <2> QED BY <2>4, <2>5
<1> QED BY <1>4, <1>5, <1>6, StepKinds

-------------------------------------------------------------------------------
(* What a step does to the phase and the answer of one request.            *)

(* q is as far as it was, or moved to another phase before its write. *)
Progress(q) ==
  /\ reply'[q] = reply[q]
  /\ q \in notified' <=> q \in notified
  /\ \/ pc'[q] = pc[q]
     \/ {pc[q], pc'[q]} \cap {"notify", "respond", "done"} = {}

(* q is refused with a domain error before or at its write. *)
Refuse(q) ==
  /\ pc[q] \notin {"notify", "respond", "done"}
  /\ \E kind \in DomainErrors : Raise(q, kind)
  /\ notified' = notified

(* q is answered from the record it found. *)
Replay(q) ==
  /\ pc[q] \in {"rebuild_client", "rebuild_replay"}
  /\ Return(q, "Replayed", found[q].client_id, found[q].result_balance)
  /\ UNCHANGED <<found, cmd, draft, transactions, notified>>

LEMMA RequestMoves ==
  ASSUME TypeOK, [Next]_vars
  PROVE  \A q \in Requests :
           Progress(q) \/ Commit(q) \/ NotifyClient(q) \/ Respond(q) \/ Die(q)
             \/ Refuse(q) \/ Replay(q)
<1> USE DEF TypeOK, LocalsTypeOK
<1> SUFFICES ASSUME NEW q \in Requests
             PROVE  Progress(q) \/ Commit(q) \/ NotifyClient(q) \/ Respond(q)
                      \/ Die(q) \/ Refuse(q) \/ Replay(q)
  OBVIOUS
<1>1. ASSUME NEW r \in Requests, NEW command \in Commands, Arrive(r, command)
      PROVE  Progress(q)
  BY <1>1 DEF Arrive, Goto, Progress
<1>2. ASSUME NEW r \in Requests, Step(r) \/ Die(r), r # q
      PROVE  Progress(q)
  BY <1>2 DEF Step, Read, Write, GetIdempotencyResult, RebuildClient,
     GetClientProfile, ValidateSubscribe, ValidateCancel, ReplayOrConflict,
     RebuildReplay, CommitSubscribe, CommitCancel, KeyTaken, WriteRefused,
     WriteConflicted, RaiseWriteRefused, NotifyClient, Respond, Die,
     Return, Raise, Goto, Progress
<1>3. ASSUME Read(q)
      PROVE  Progress(q) \/ Refuse(q) \/ Replay(q)
  <2>1. CASE GetIdempotencyResult(q)
    BY <2>1 DEF GetIdempotencyResult, Goto, Progress
  <2>2. CASE RebuildClient(q)
    BY <2>2 DEF RebuildClient, Goto, Progress, Replay, table, items
  <2>3. CASE GetClientProfile(q)
    BY <2>3 DEF GetClientProfile, Goto, Progress, Refuse, DomainErrors
  <2>4. CASE ValidateSubscribe(q)
    BY <2>4 DEF ValidateSubscribe, Goto, Progress, Refuse, DomainErrors
  <2>5. CASE ValidateCancel(q)
    BY <2>5 DEF ValidateCancel, Goto, Progress, Refuse, DomainErrors
  <2>6. CASE ReplayOrConflict(q)
    BY <2>6 DEF ReplayOrConflict, Goto, Progress, Refuse, DomainErrors
  <2>7. CASE RebuildReplay(q)
    BY <2>7 DEF RebuildReplay, Refuse, Replay, DomainErrors, table, items
  <2> QED
    BY <1>3, <2>1, <2>2, <2>3, <2>4, <2>5, <2>6, <2>7 DEF Read
<1>4. ASSUME Write(q)
      PROVE  Progress(q) \/ Commit(q) \/ Refuse(q)
  <2>1. CASE KeyTaken(q)
    BY <2>1 DEF KeyTaken, Goto, Progress
  <2>2. CASE WriteRefused(q) \/ WriteConflicted(q)
    BY <2>2 DEF WriteRefused, WriteConflicted, RaiseWriteRefused, Refuse,
                DomainErrors
  <2> QED BY <1>4, <2>1, <2>2 DEF Write, Commit
<1>5. (\E k \in Keys : Expire(k)) \/ CatchUp \/ UNCHANGED vars => Progress(q)
  BY DEF Expire, CatchUp, vars, locals, Progress
<1> QED
  BY <1>1, <1>2, <1>3, <1>4, <1>5 DEF Next, Step, AllAnswered

(* The ledger only grows, and nothing that explains an entry changes. *)
LEMMA LedgerGrows ==
  ASSUME TypeOK, LedgerFromRequests, [Next]_vars
  PROVE  /\ transactions \subseteq transactions'
         /\ Committed \subseteq Committed'
         /\ \A t \in transactions :
              cmd'[t.id] = cmd[t.id] /\ draft'[t.id] = draft[t.id]
<1>1. transactions \subseteq transactions'
  BY StepKinds, CommitEntry DEF Expire, ExpireIdempotencyRecord
<1>2. \A t \in transactions :
        cmd'[t.id] = cmd[t.id] /\ draft'[t.id] = draft[t.id]
  BY OneRequestMoves DEF TypeOK, TableTypeOK, TransactionItems, LedgerFromRequests
<1> QED BY <1>1, <1>2 DEF Committed

(* Only a commit enters a request in the ledger. *)
LEMMA OnlyCommitEnters ==
  ASSUME TypeOK, LedgerFromRequests, [Next]_vars,
         NEW q \in Requests, q \in Committed', q \notin Committed
  PROVE  Commit(q)
<1>1. ASSUME NEW r \in Requests, Commit(r)
      PROVE  Committed' = Committed \cup {r}
  <2>1. PICK t \in TransactionItems :
           transactions' = transactions \cup {t} /\ t.id = r
    BY <1>1, CommitEntry
  <2> QED BY <2>1 DEF Committed
<1> QED
  BY <1>1, StepKinds DEF Committed, Expire, ExpireIdempotencyRecord

LEMMA PhasesMatchLedgerStep ==
  ASSUME TypeOK, TypeOK', LedgerFromRequests, PhasesMatchLedger,
         NotifiedWereCommitted, [Next]_vars
  PROVE  PhasesMatchLedger'
<1> SUFFICES ASSUME NEW q \in Requests
             PROVE  /\ pc'[q] \in {"notify", "respond"} => q \in Committed'
                    /\ pc'[q] = "notify" =>
                         cmd'[q].op = "SUBSCRIBE" /\ q \notin notified'
                    /\ pc'[q] # "done" => reply'[q].kind = "Pending"
  BY DEF PhasesMatchLedger
<1>1. Committed \subseteq Committed'
  BY LedgerGrows
<1>2. CASE Progress(q)
  BY <1>1, <1>2, OneRequestMoves DEF Progress, PhasesMatchLedger
<1>3. CASE Commit(q)
  <2>1. q \in Committed' /\ q \notin Committed
    BY <1>3, CommitEntry DEF Committed
  <2>2. q \notin notified
    BY <2>1 DEF NotifiedWereCommitted, Committed
  <2> QED
    BY <1>3, <2>1, <2>2, CommitLocals DEF PhasesMatchLedger, TypeOK, LocalsTypeOK
<1>4. CASE NotifyClient(q)
  BY <1>1, <1>4 DEF NotifyClient, Goto, PhasesMatchLedger, TypeOK, LocalsTypeOK
<1>5. CASE Respond(q) \/ Die(q) \/ Refuse(q) \/ Replay(q)
  BY <1>5 DEF Respond, Die, Refuse, Replay, Raise, Return, Goto, TypeOK,
              LocalsTypeOK
<1> QED BY <1>2, <1>3, <1>4, <1>5, RequestMoves

LEMMA NotifiedWereCommittedStep ==
  ASSUME TypeOK, TypeOK', LedgerFromRequests, PhasesMatchLedger,
         NotifiedWereCommitted, [Next]_vars
  PROVE  NotifiedWereCommitted'
<1> SUFFICES ASSUME NEW q \in notified'
             PROVE  \E t \in transactions' : t.id = q /\ t.type = "OPEN"
  BY DEF NotifiedWereCommitted
<1>1. q \in Requests
  BY DEF TypeOK, LocalsTypeOK
<1>2. transactions \subseteq transactions'
  BY LedgerGrows
<1>3. CASE q \in notified
  BY <1>2, <1>3 DEF NotifiedWereCommitted
<1>4. CASE NotifyClient(q)
  BY <1>1, <1>2, <1>4
  DEF NotifyClient, PhasesMatchLedger, LedgerFromRequests, Committed,
      TransactionTypeOf
<1>5. ASSUME ~NotifyClient(q)
      PROVE  q \in notified
  <2>1. Commit(q) \/ Respond(q) \/ Die(q) \/ Refuse(q) \/ Replay(q)
          => notified' = notified
    BY <1>1, CommitLocals DEF Respond, Die, Refuse, Replay
  <2> QED BY <1>1, <1>5, <2>1, RequestMoves DEF Progress
<1> QED BY <1>3, <1>4, <1>5

LEMMA AnswersMatchLedgerStep ==
  ASSUME TypeOK, TypeOK', LedgerFromRequests, PhasesMatchLedger,
         NotifiedWereCommitted, AnswersMatchLedger, [Next]_vars
  PROVE  AnswersMatchLedger'
<1> SUFFICES ASSUME NEW q \in Requests
             PROVE  /\ reply'[q].kind \in DomainErrors \cup {"Replayed"} =>
                         q \notin Committed' /\ q \notin notified'
                    /\ reply'[q].kind = "Client" => q \in Committed'
  BY DEF AnswersMatchLedger
<1>1. Committed \subseteq Committed'
  BY LedgerGrows
<1>2. CASE Commit(q)
  <2>1. reply'[q].kind = "Pending"
    BY <1>2, CommitLocals DEF PhasesMatchLedger
  <2> QED BY <2>1 DEF DomainErrors
<1>3. ASSUME ~Commit(q)
      PROVE  q \in Committed' <=> q \in Committed
  BY <1>1, <1>3, OnlyCommitEnters
<1>4. CASE Progress(q) /\ ~Commit(q)
  BY <1>3, <1>4 DEF Progress, AnswersMatchLedger
<1>5. CASE NotifyClient(q)
  <2>1. reply'[q].kind = "Pending"
    BY <1>5 DEF NotifyClient, PhasesMatchLedger
  <2> QED BY <2>1 DEF DomainErrors
<1>6. CASE Respond(q)
  <2>1. reply'[q].kind = "Client" /\ q \in Committed
    BY <1>6 DEF Respond, Return, PhasesMatchLedger, TypeOK, LocalsTypeOK
  <2> QED BY <1>1, <2>1 DEF DomainErrors
<1>7. CASE Die(q)
  <2>1. reply'[q].kind = "ServerError"
    BY <1>7 DEF Die, Raise, Return, TypeOK, LocalsTypeOK
  <2> QED BY <2>1 DEF DomainErrors
<1>8. CASE Refuse(q) \/ Replay(q)
  <2>1. /\ pc[q] \notin {"notify", "respond", "done"}
        /\ pc'[q] = "done"
        /\ reply'[q].kind # "Client"
        /\ notified' = notified
    BY <1>8 DEF Refuse, Replay, Raise, Return, Goto, TypeOK, LocalsTypeOK,
                DomainErrors
  <2>2. ~Commit(q)
    BY <2>1, CommitLocals DEF TypeOK, LocalsTypeOK
  <2>3. q \notin Committed
    BY <2>1 DEF LedgerFromRequests, Committed
  <2>4. q \notin notified
    BY <2>3 DEF NotifiedWereCommitted, Committed
  <2> QED BY <1>3, <2>1, <2>2, <2>3, <2>4
<1> QED BY <1>2, <1>4, <1>5, <1>6, <1>7, <1>8, RequestMoves

(* An entry that explains a record goes on explaining it. *)
LEMMA OriginPersists ==
  ASSUME TypeOK, LedgerFromRequests, [Next]_vars,
         NEW k, NEW record, Origin(k, record)
  PROVE  Origin(k, record)'
BY LedgerGrows DEF Origin

(* What a request reads under its key has an origin. *)
LEMMA ReadOrigin ==
  ASSUME RecordsHaveOrigin, NEW k \in Keys,
         NEW item \in GetIdempotencyItem(k), item # NoItem
  PROVE  Origin(k, item)
BY DEF RecordsHaveOrigin, GetIdempotencyItem, Answers

(* Only its own reads change the record a request has found. *)
LEMMA FoundSteps ==
  ASSUME TypeOK, [Next]_vars, NEW q \in Requests
  PROVE  \/ found'[q] = NoItem
         \/ /\ found'[q] = found[q]
            /\ cmd'[q] = cmd[q]
         \/ /\ found'[q] \in GetIdempotencyItem(cmd[q].key)
            /\ cmd[q].key \in Keys
            /\ cmd'[q] = cmd[q]
<1> USE DEF TypeOK, LocalsTypeOK
<1>1. ASSUME NEW r \in Requests, NEW command \in Commands, Arrive(r, command)
      PROVE  \/ found'[q] = NoItem
             \/ found'[q] = found[q] /\ cmd'[q] = cmd[q]
  BY <1>1 DEF Arrive
<1>2. ASSUME NEW r \in Requests, GetIdempotencyResult(r) \/ ReplayOrConflict(r)
      PROVE  \/ found'[q] = found[q] /\ cmd'[q] = cmd[q]
             \/ /\ found'[q] \in GetIdempotencyItem(cmd[q].key)
                /\ cmd[q].key \in Keys
                /\ cmd'[q] = cmd[q]
  BY <1>2 DEF GetIdempotencyResult, ReplayOrConflict
<1>3. ASSUME NEW r \in Requests, Step(r) \/ Die(r),
             ~GetIdempotencyResult(r), ~ReplayOrConflict(r)
      PROVE  UNCHANGED <<found, cmd>>
  BY <1>3 DEF Step, Read, Write, RebuildClient,
     GetClientProfile, ValidateSubscribe, ValidateCancel,
     RebuildReplay, CommitSubscribe, CommitCancel, KeyTaken, WriteRefused,
     WriteConflicted, NotifyClient, Respond, Die
<1>4. (\E k \in Keys : Expire(k)) \/ CatchUp \/ UNCHANGED vars
        => UNCHANGED <<found, cmd>>
  BY DEF Expire, CatchUp, vars, locals
<1> QED
  BY <1>1, <1>2, <1>3, <1>4 DEF Next, AllAnswered

LEMMA RecordsHaveOriginStep ==
  ASSUME TypeOK, TypeOK', LedgerFromRequests, RecordsHaveOrigin, [Next]_vars
  PROVE  RecordsHaveOrigin'
<1>1. ASSUME NEW k \in Keys, idempotency'[k] # NoItem
      PROVE  Origin(k, idempotency[k])'
  <2>1. CASE idempotency'[k] = idempotency[k]
    BY <1>1, <2>1, OriginPersists DEF RecordsHaveOrigin
  <2>2. ASSUME NEW r \in Requests, Commit(r), idempotency'[k] # idempotency[k]
        PROVE  Origin(k, idempotency[k])'
    <3>1. /\ cmd[r].key = k
          /\ idempotency'[k].client_id = cmd[r].client
          /\ idempotency'[k].result_balance = draft[r].balance
      <4>1. PutIdempotencyRecord(cmd[r].key, cmd[r].op, cmd[r].client,
                                 cmd[r].fund, draft[r].balance)
        BY <2>2, CommitWrites
      <4>2. cmd[r].key = k /\ cmd[r].key # NoKey
        BY <2>2, <4>1 DEF PutIdempotencyRecord, TypeOK, TableTypeOK
      <4>3. idempotency'[k] =
              [operation |-> cmd[r].op, client_id |-> cmd[r].client,
               fund_id |-> cmd[r].fund, result_balance |-> draft[r].balance]
        BY <4>1, <4>2 DEF PutIdempotencyRecord, TypeOK, TableTypeOK
      <4> QED BY <4>2, <4>3
    <3>2. PICK t \in TransactionItems :
             /\ transactions' = transactions \cup {t}
             /\ t.id = r
             /\ t.client = cmd[r].client
      BY <2>2, CommitEntry
    <3>3. UNCHANGED <<cmd, draft>>
      BY <2>2, CommitLocals
    <3> QED BY <3>1, <3>2, <3>3 DEF Origin
  <2>3. ASSUME NEW x \in Keys, Expire(x)
        PROVE  idempotency'[k] = idempotency[k]
    BY <1>1, <2>3 DEF Expire, ExpireIdempotencyRecord, TypeOK, TableTypeOK
  <2> QED BY <2>1, <2>2, <2>3, StepKinds
<1>2. ASSUME NEW k \in Keys, staleIdempotency'[k] # NoItem
      PROVE  Origin(k, staleIdempotency[k])'
  <2>1. staleIdempotency'[k] \in {staleIdempotency[k], idempotency[k]}
    <3>1. UNCHANGED replicas \/ CatchUp
      BY ReplicaSteps
    <3> QED
      BY <3>1 DEF CatchUp, Replicate, replicas, TypeOK, TableTypeOK
  <2>2. Origin(k, staleIdempotency'[k])
    BY <1>2, <2>1 DEF RecordsHaveOrigin
  <2>3. Origin(k, staleIdempotency[k])'
    BY <2>2, LedgerGrows DEF Origin
  <2> QED BY <2>3
<1>3. ASSUME NEW q \in Requests, found'[q] # NoItem
      PROVE  Origin(cmd[q].key, found[q])'
  <2>1. Origin(cmd[q].key, found'[q]) /\ cmd'[q] = cmd[q]
    BY <1>3, FoundSteps, ReadOrigin DEF RecordsHaveOrigin
  <2> QED BY <2>1, LedgerGrows DEF Origin
<1> QED BY <1>1, <1>2, <1>3 DEF RecordsHaveOrigin

LEMMA ReplayHasOriginStep ==
  ASSUME TypeOK, TypeOK', LedgerFromRequests, PhasesMatchLedger,
         RecordsHaveOrigin, ReplayHasOrigin, [Next]_vars
  PROVE  ReplayHasOrigin'
<1> SUFFICES ASSUME NEW q \in Requests, reply'[q].kind = "Replayed"
             PROVE  \E t \in transactions' :
                      /\ cmd'[t.id].key = cmd'[q].key
                      /\ t.client = reply'[q].client
                      /\ draft'[t.id].balance = reply'[q].balance
  BY DEF ReplayHasOrigin
<1>1. CASE Replay(q)
  <2>1. PICK t \in transactions :
          /\ cmd[t.id].key = cmd[q].key
          /\ t.client = found[q].client_id
          /\ draft[t.id].balance = found[q].result_balance
    BY <1>1 DEF Replay, RecordsHaveOrigin, Origin, TypeOK, LocalsTypeOK
  <2> QED BY <1>1, <2>1 DEF Replay, Return, TypeOK, LocalsTypeOK
<1>2. CASE reply'[q] = reply[q]
  <2>1. pc[q] = "done"
    BY <1>2 DEF PhasesMatchLedger
  <2>2. cmd'[q] = cmd[q]
    BY <2>1, OneRequestMoves
  <2> QED BY <1>2, <2>2, LedgerGrows DEF ReplayHasOrigin
<1>3. ~(Respond(q) \/ Die(q) \/ Refuse(q))
  BY DEF Respond, Die, Refuse, Raise, Return, TypeOK, LocalsTypeOK, DomainErrors
<1> QED
  BY <1>1, <1>2, <1>3, RequestMoves, CommitLocals DEF Progress, NotifyClient

(* A request reaches its write through its validation only. *)
LEMMA TransactWriteFrom ==
  ASSUME TypeOK, [Next]_vars, NEW q \in Requests, pc'[q] = "transact_write"
  PROVE  \/ ValidateSubscribe(q)
         \/ ValidateCancel(q)
         \/ /\ pc[q] = "transact_write"
            /\ cmd'[q] = cmd[q]
            /\ draft'[q] = draft[q]
<1> USE DEF TypeOK, LocalsTypeOK, Goto, Return, Raise
<1>1. ASSUME NEW r \in Requests, Read(r), r # q
      PROVE  pc'[q] = pc[q] /\ cmd'[q] = cmd[q] /\ draft'[q] = draft[q]
  BY <1>1 DEF Read, GetIdempotencyResult, RebuildClient, GetClientProfile,
              ValidateSubscribe, ValidateCancel, ReplayOrConflict, RebuildReplay
<1>2. CASE Read(q)
  BY <1>2 DEF Read, GetIdempotencyResult, RebuildClient, GetClientProfile,
              ReplayOrConflict, RebuildReplay
<1>3. ASSUME NEW r \in Requests,
             Write(r) \/ NotifyClient(r) \/ Respond(r) \/ Die(r)
      PROVE  pc'[q] = pc[q] /\ cmd'[q] = cmd[q] /\ draft'[q] = draft[q]
  BY <1>3 DEF Write, CommitSubscribe, CommitCancel, KeyTaken, WriteRefused,
              WriteConflicted, RaiseWriteRefused, NotifyClient, Respond, Die
<1>4. ASSUME NEW r \in Requests, NEW command \in Commands, Arrive(r, command)
      PROVE  pc'[q] = pc[q] /\ cmd'[q] = cmd[q] /\ draft'[q] = draft[q]
  BY <1>4 DEF Arrive
<1>5. (\E k \in Keys : Expire(k)) \/ CatchUp \/ UNCHANGED vars
        => UNCHANGED <<pc, cmd, draft>>
  BY DEF Expire, CatchUp, vars, locals
<1> QED
  BY <1>1, <1>2, <1>3, <1>4, <1>5 DEF Next, Step, AllAnswered

(* Every stored, lagging or drafted amount is a catalog minimum. *)
LEMMA AmountsAreMinimumsStep ==
  ASSUME TypeOK, TypeOK', AmountsAreMinimums, [Next]_vars
  PROVE  AmountsAreMinimums'
<1> DEFINE Minimum(value, f) ==
      value # NoItem => f \in Catalog /\ value = MinAmount[f]
<1>1. ASSUME NEW c \in Clients, NEW f \in Funds
      PROVE  Minimum(subscriptions'[<<c, f>>], f)
  <2>1. CASE subscriptions' = subscriptions
    BY <2>1 DEF AmountsAreMinimums
  <2>2. ASSUME NEW r \in Requests, Commit(r)
        PROVE  Minimum(subscriptions'[<<c, f>>], f)
    <3>1. pc[r] = "transact_write"
      BY <2>2, CommitLocals
    <3>2. cmd[r].fund \in Catalog /\ draft[r].amount = MinAmount[cmd[r].fund]
      BY <3>1 DEF AmountsAreMinimums
    <3>3. CASE <<c, f>> = <<cmd[r].client, cmd[r].fund>>
      BY <2>2, <3>2, <3>3, CommitWrites DEF TypeOK, TableTypeOK, Holdings
    <3>4. CASE <<c, f>> # <<cmd[r].client, cmd[r].fund>>
      <4>1. subscriptions'[<<c, f>>] = subscriptions[<<c, f>>]
        BY <2>2, <3>4, CommitWrites DEF TypeOK, TableTypeOK, Holdings
      <4> QED BY <4>1 DEF AmountsAreMinimums
    <3> QED BY <3>3, <3>4
  <2> QED BY <2>1, <2>2, StepKinds DEF Expire, ExpireIdempotencyRecord
<1>2. ASSUME NEW c \in Clients, NEW f \in Funds
      PROVE  Minimum(staleSubscriptions'[<<c, f>>], f)
  <2>1. staleSubscriptions'[<<c, f>>]
          \in {staleSubscriptions[<<c, f>>], subscriptions[<<c, f>>]}
    BY ReplicaSteps
    DEF replicas, CatchUp, Replicate, TypeOK, TableTypeOK, Holdings
  <2> QED BY <2>1 DEF AmountsAreMinimums
<1>3. ASSUME NEW q \in Requests, pc'[q] = "transact_write"
      PROVE  cmd'[q].fund \in Catalog /\ draft'[q].amount = MinAmount[cmd'[q].fund]
  <2>1. CASE /\ pc[q] = "transact_write"
             /\ cmd'[q] = cmd[q]
             /\ draft'[q] = draft[q]
    BY <2>1 DEF AmountsAreMinimums
  <2>2. CASE ValidateSubscribe(q)
    BY <1>3, <2>2 DEF ValidateSubscribe, Raise, Return, Goto, TypeOK, LocalsTypeOK
  <2>3. CASE ValidateCancel(q)
    <3>1. PICK amount \in GetSubscription(cmd[q].client, cmd[q].fund) :
            /\ amount # NoItem
            /\ draft' = [draft EXCEPT
                 ![q] = [balance |-> Plus(draft[q].balance, amount),
                         amount  |-> amount]]
      BY <1>3, <2>3 DEF ValidateCancel, Raise, Return, Goto, TypeOK, LocalsTypeOK
    <3>2. cmd[q].client \in Clients /\ cmd[q].fund \in Funds
      BY <2>3, InFlightTyping DEF ValidateCancel, TypeOK
    <3>3. cmd[q].fund \in Catalog /\ amount = MinAmount[cmd[q].fund]
      BY <3>1, <3>2 DEF AmountsAreMinimums, GetSubscription, Answers
    <3> QED
      BY <2>3, <3>1, <3>3 DEF ValidateCancel, TypeOK, LocalsTypeOK
  <2> QED
    BY <1>3, <2>1, <2>2, <2>3, TransactWriteFrom
<1> QED BY <1>1, <1>2, <1>3 DEF AmountsAreMinimums

-------------------------------------------------------------------------------
(* The inductive invariant and what follows from it.                       *)

LEMMA InitInvariant == Init => IInv
<1> SUFFICES ASSUME Init PROVE IInv
  OBVIOUS
<1> USE DEF Init, InitTable
<1>1. TypeOK
  BY InitTyping
<1>2. LedgerFromRequests
  BY FS_EmptySet DEF LedgerFromRequests
<1>3. PhasesMatchLedger
  BY DEF PhasesMatchLedger
<1>4. HoldingsMatchLedger
  <2> SUFFICES ASSUME NEW c \in Clients, NEW f \in Funds
               PROVE  Cardinality(Entries("OPEN", c, f)) =
                        Cardinality(Entries("CANCEL", c, f))
                          + (IF subscriptions[<<c, f>>] = NoItem THEN 0 ELSE 1)
    BY DEF HoldingsMatchLedger
  <2>1. Entries("OPEN", c, f) = {} /\ Entries("CANCEL", c, f) = {}
    BY DEF Entries
  <2>2. Cardinality({}) = 0
    BY FS_EmptySet
  <2>3. subscriptions[<<c, f>>] = NoItem
    BY DEF Holdings
  <2>4. /\ Cardinality(Entries("OPEN", c, f)) = 0
        /\ Cardinality(Entries("CANCEL", c, f)) = 0
    BY <2>1, <2>2
  <2> QED BY <2>3, <2>4
<1>5. OneCommitPerKey
  <2> SUFFICES ASSUME NEW k \in Keys
               PROVE  Cardinality(EntriesUnder(k)) =
                        expiries[k] + (IF idempotency[k] = NoItem THEN 0 ELSE 1)
    BY DEF OneCommitPerKey
  <2>1. EntriesUnder(k) = {}
    BY DEF EntriesUnder
  <2> QED BY <2>1, FS_EmptySet
<1>6. AnswersMatchLedger /\ ReplayHasOrigin /\ NotifiedWereCommitted
  BY DEF AnswersMatchLedger, ReplayHasOrigin, NotifiedWereCommitted, DomainErrors
<1>7. RecordsHaveOrigin
  BY DEF RecordsHaveOrigin
<1>8. AmountsAreMinimums
  BY DEF AmountsAreMinimums, Holdings
<1> QED BY <1>1, <1>2, <1>3, <1>4, <1>5, <1>6, <1>7, <1>8 DEF IInv

LEMMA NextInvariant == IInv /\ [Next]_vars => IInv'
<1> SUFFICES ASSUME IInv, [Next]_vars PROVE IInv'
  OBVIOUS
<1> USE DEF IInv
<1>1. TypeOK'
  BY NextTyping
<1>2. LedgerFromRequests'
  BY <1>1, LedgerFromRequestsStep
<1>3. PhasesMatchLedger'
  BY <1>1, PhasesMatchLedgerStep
<1>4. HoldingsMatchLedger'
  BY <1>1, HoldingsMatchLedgerStep
<1>5. OneCommitPerKey'
  BY <1>1, OneCommitPerKeyStep
<1>6. AnswersMatchLedger'
  BY <1>1, AnswersMatchLedgerStep
<1>7. RecordsHaveOrigin'
  BY <1>1, RecordsHaveOriginStep
<1>8. ReplayHasOrigin'
  BY <1>1, ReplayHasOriginStep
<1>9. NotifiedWereCommitted'
  BY <1>1, NotifiedWereCommittedStep
<1>10. AmountsAreMinimums'
  BY <1>1, AmountsAreMinimumsStep
<1> QED
  BY <1>1, <1>2, <1>3, <1>4, <1>5, <1>6, <1>7, <1>8, <1>9, <1>10

(* IInv holds in every reachable state, for any clients, funds, keys and   *)
(* requests, with current or stale reads.                                  *)
THEOREM Invariant == Spec => []IInv
BY InitInvariant, NextInvariant, PTL DEF Spec

(* HoldingsMatchLedger: the transaction history accounts for every         *)
(* position, whatever requests overlap, die, or read stale items.          *)
THEOREM HoldingsCorrect == Spec => []HoldingsMatchLedger
<1>1. IInv => HoldingsMatchLedger
  BY DEF IInv
<1> QED BY <1>1, Invariant, PTL

(* OneCommitPerKey: no retry or concurrent duplicate under a key commits   *)
(* while the key's record lives.                                           *)
THEOREM KeysCommitOnce == Spec => []OneCommitPerKey
<1>1. IInv => OneCommitPerKey
  BY DEF IInv
<1> QED BY <1>1, Invariant, PTL

(* AnswersMatchLedger: an error other than a 500, and a replay, mean that  *)
(* this request wrote and sent nothing; a fresh success means it wrote.    *)
THEOREM AnswersCorrect == Spec => []AnswersMatchLedger
<1>1. IInv => AnswersMatchLedger
  BY DEF IInv
<1> QED BY <1>1, Invariant, PTL

(* ReplayHasOrigin: what a replay returns is what the request that used    *)
(* the key wrote, even when the record or the profile is read stale.       *)
THEOREM ReplaysCorrect == Spec => []ReplayHasOrigin
<1>1. IInv => ReplayHasOrigin
  BY DEF IInv
<1> QED BY <1>1, Invariant, PTL

(* NotifiedWereCommitted: nobody is told of a subscription that is not in  *)
(* the ledger.                                                             *)
THEOREM NotificationsCorrect == Spec => []NotifiedWereCommitted
<1>1. IInv => NotifiedWereCommitted
  BY DEF IInv
<1> QED BY <1>1, Invariant, PTL
-------------------------------------------------------------------------------
(* The course of one request.                                              *)

(* A call of the use case moves its own request on, in the same command. *)
LEMMA OneExecutes ==
  ASSUME TypeOK, NEW r \in Requests, Step(r) \/ Die(r)
  PROVE  /\ pc[r] \in InFlightPhases
         /\ pc'[r] \in InFlightPhases \cup {"done"}
         /\ cmd' = cmd
         /\ \A q \in Requests \ {r} : pc'[q] = pc[q] /\ reply'[q] = reply[q]
<1> USE DEF TypeOK, LocalsTypeOK, Goto, Return, Raise, InFlightPhases
<1>1. CASE Read(r)
  BY <1>1 DEF Read, GetIdempotencyResult, RebuildClient, GetClientProfile,
              ValidateSubscribe, ValidateCancel, ReplayOrConflict, RebuildReplay
<1>2. CASE Write(r)
  BY <1>2 DEF Write, CommitSubscribe, CommitCancel, KeyTaken, WriteRefused,
              WriteConflicted, RaiseWriteRefused
<1>3. CASE NotifyClient(r) \/ Respond(r) \/ Die(r)
  BY <1>3 DEF NotifyClient, Respond, Die
<1> QED BY <1>1, <1>2, <1>3 DEF Step

(* A call that is made, and a failure, bring the request nearer its answer. *)
LEMMA CallsAdvance ==
  ASSUME TypeOK, NEW r \in Requests, Step(r) \/ Die(r)
  PROVE  Progression(pc[r]) < Progression(pc'[r])
<1> USE DEF TypeOK, LocalsTypeOK, Goto, Return, Raise, Progression
<1>1. CASE GetIdempotencyResult(r) \/ RebuildClient(r)
  BY <1>1 DEF GetIdempotencyResult, RebuildClient
<1>2. CASE GetClientProfile(r) \/ ValidateSubscribe(r) \/ ValidateCancel(r)
  BY <1>2 DEF GetClientProfile, ValidateSubscribe, ValidateCancel
<1>3. CASE ReplayOrConflict(r) \/ RebuildReplay(r)
  BY <1>3 DEF ReplayOrConflict, RebuildReplay
<1>4. CASE Write(r)
  BY <1>4 DEF Write, CommitSubscribe, CommitCancel, KeyTaken, WriteRefused,
              WriteConflicted, RaiseWriteRefused
<1>5. CASE NotifyClient(r) \/ Respond(r)
  BY <1>5 DEF NotifyClient, Respond
<1>6. CASE Die(r)
  BY <1>6 DEF Die, InFlightPhases
<1> QED BY <1>1, <1>2, <1>3, <1>4, <1>5, <1>6 DEF Step, Read

(* A request's phase changes by its arrival or by a call of its own. *)
LEMMA PhaseChanges ==
  ASSUME TypeOK, [Next]_vars, NEW q \in Requests, pc'[q] # pc[q]
  PROVE  \/ Step(q) \/ Die(q)
         \/ pc[q] = "idle" /\ pc'[q] \in {"get_client", "get_idempotency_result"}
<1>1. ASSUME NEW r \in Requests, Step(r) \/ Die(r)
      PROVE  r = q
  BY <1>1, OneExecutes
<1>2. ASSUME NEW r \in Requests, NEW command \in Commands, Arrive(r, command)
      PROVE  pc[q] = "idle" /\ pc'[q] \in {"get_client", "get_idempotency_result"}
  BY <1>2 DEF Arrive, Goto, TypeOK, LocalsTypeOK
<1>3. (\E k \in Keys : Expire(k)) \/ CatchUp \/ UNCHANGED vars => pc' = pc
  BY DEF Expire, CatchUp, vars, locals
<1> QED BY <1>1, <1>2, <1>3 DEF Next, AllAnswered

(* RequestsAdvance: no request goes back to a call it has made, so the     *)
(* retries the code does make are new requests; an answer is final.        *)
THEOREM RequestsOnlyAdvance == Spec => RequestsAdvance
<1>1. ASSUME TypeOK, [Next]_vars, NEW r \in Requests
      PROVE  /\ Step(r) \/ pc'[r] # pc[r] =>
                  Progression(pc[r]) < Progression(pc'[r])
             /\ pc[r] = "done" => reply'[r] = reply[r]
  <2>1. CASE Step(r) \/ Die(r)
    <3>1. pc[r] # "done"
      BY <1>1, <2>1, OneExecutes DEF InFlightPhases
    <3> QED BY <1>1, <2>1, <3>1, CallsAdvance
  <2>2. ASSUME ~Step(r), ~Die(r), pc'[r] # pc[r]
        PROVE  Progression(pc[r]) < Progression(pc'[r])
    BY <1>1, <2>2, PhaseChanges DEF Progression
  <2>3. pc[r] = "done" => reply'[r] = reply[r]
    BY <1>1, RequestMoves DEF Progress, Commit, CommitSubscribe, CommitCancel,
       NotifyClient, Respond, Die, Refuse, Replay, InFlightPhases
  <2> QED BY <2>1, <2>2, <2>3
<1>2. TypeOK /\ [Next]_vars
        => [\A r \in Requests :
              /\ Step(r) \/ pc'[r] # pc[r] =>
                   Progression(pc[r]) < Progression(pc'[r])
              /\ pc[r] = "done" => reply'[r] = reply[r]]_vars
  BY <1>1
<1> QED BY <1>2, TypeCorrect, PTL DEF Spec, RequestsAdvance

-------------------------------------------------------------------------------
(* The answers.                                                            *)

(* No step unregisters a client. *)
LEMMA ClientsStay ==
  ASSUME TypeOK, [Next]_vars, NEW c \in Clients, profiles[c] # NoItem
  PROVE  profiles'[c] # NoItem
<1>1. ASSUME NEW r \in Requests, Commit(r)
      PROVE  profiles'[c] # NoItem
  <2>1. draft[r].balance \in Money
    BY <1>1, CommitLocals, InFlightTyping DEF TypeOK
  <2>2. profiles' = [profiles EXCEPT ![cmd[r].client] = draft[r].balance]
    BY <1>1 DEF Commit, CommitSubscribe, CommitCancel, SubscribeAtomically,
                CancelAtomically, UpdateBalance
  <2> QED BY <2>1, <2>2, DomainAssumption DEF TypeOK, TableTypeOK
<1>2. (\E r \in Requests : Commit(r)) \/ profiles' = profiles
  BY StepKinds DEF Expire, ExpireIdempotencyRecord
<1> QED BY <1>1, <1>2

(* Where a domain error is raised, and why. *)
LEMMA RaisedFrom ==
  ASSUME TypeOK, [Next]_vars, NEW q \in Requests, pc[q] # "done",
         pc'[q] = "done", reply'[q].kind \in DomainErrors
  PROVE  \/ GetClientProfile(q) \/ ValidateSubscribe(q) \/ ValidateCancel(q)
         \/ WriteRefused(q) \/ WriteConflicted(q)
         \/ ReplayOrConflict(q) \/ RebuildReplay(q)
<1> USE DEF TypeOK, LocalsTypeOK, Goto, Return, Raise
<1>1. ASSUME NEW r \in Requests, Step(r) \/ Die(r), r # q
      PROVE  FALSE
  BY <1>1, OneExecutes
<1>2. CASE Step(q) \/ Die(q)
  BY <1>2 DEF Step, Read, Write, GetIdempotencyResult, RebuildClient,
     CommitSubscribe, CommitCancel, KeyTaken, NotifyClient, Respond, Die,
     DomainErrors
<1>3. ASSUME NEW r \in Requests, NEW command \in Commands, Arrive(r, command)
      PROVE  FALSE
  BY <1>3 DEF Arrive
<1>4. (\E k \in Keys : Expire(k)) \/ CatchUp \/ UNCHANGED vars => FALSE
  BY DEF Expire, CatchUp, vars, locals
<1> QED BY <1>1, <1>2, <1>3, <1>4 DEF Next, AllAnswered

(* An arrived request keeps its command. *)
LEMMA CommandsStay ==
  ASSUME TypeOK, [Next]_vars, NEW q \in Requests, pc[q] # "idle"
  PROVE  cmd'[q] = cmd[q]
<1>1. ASSUME NEW r \in Requests, Step(r) \/ Die(r)
      PROVE  cmd' = cmd
  BY <1>1, OneExecutes
<1>2. ASSUME NEW r \in Requests, NEW command \in Commands, Arrive(r, command)
      PROVE  cmd'[q] = cmd[q]
  BY <1>2 DEF Arrive, TypeOK, LocalsTypeOK
<1>3. (\E k \in Keys : Expire(k)) \/ CatchUp \/ UNCHANGED vars => cmd' = cmd
  BY DEF Expire, CatchUp, vars, locals
<1> QED BY <1>1, <1>2, <1>3 DEF Next, AllAnswered

(* The record that cancelled a write is still there when the request reads *)
(* it back: TTL does not delete it meanwhile.                              *)
LEMMA TakenKeysStayStep ==
  ASSUME TypeOK, TypeOK', TakenKeysStay, [Next]_vars
  PROVE  TakenKeysStay'
<1> SUFFICES ASSUME NEW q \in Requests, pc'[q] = "replay_or_conflict"
             PROVE  idempotency'[cmd'[q].key] # NoItem
  BY DEF TakenKeysStay
<1> USE DEF TypeOK, LocalsTypeOK
<1>1. CASE pc'[q] # pc[q]
  <2>1. KeyTaken(q)
    <3>1. Step(q) \/ Die(q)
      BY <1>1, PhaseChanges
    <3> QED
      BY <3>1 DEF Step, Read, Write, GetIdempotencyResult, RebuildClient,
         GetClientProfile, ValidateSubscribe, ValidateCancel, ReplayOrConflict,
         RebuildReplay, CommitSubscribe, CommitCancel, WriteRefused,
         WriteConflicted, RaiseWriteRefused, NotifyClient, Respond, Die,
         Return, Raise, Goto
  <2> QED BY <2>1 DEF KeyTaken, KeyIsFree, table, items
<1>2. CASE pc'[q] = pc[q]
  <2>1. cmd'[q] = cmd[q] /\ cmd[q].key \in Keys
    BY <1>2, CommandsStay
  <2>2. idempotency[cmd[q].key] # NoItem
    BY <1>2 DEF TakenKeysStay
  <2>3. ASSUME NEW r \in Requests, Commit(r)
        PROVE  idempotency'[cmd[q].key] = idempotency[cmd[q].key]
    <3>1. /\ KeyIsFree(cmd[r].key)
          /\ PutIdempotencyRecord(cmd[r].key, cmd[r].op, cmd[r].client,
                                  cmd[r].fund, draft[r].balance)
      BY <2>3, CommitLocals, CommitWrites
    <3> QED
      BY <2>1, <2>2, <3>1 DEF KeyIsFree, PutIdempotencyRecord, TableTypeOK
  <2>4. ASSUME NEW k \in Keys, Expire(k)
        PROVE  idempotency'[cmd[q].key] = idempotency[cmd[q].key]
    BY <1>2, <2>1, <2>4
    DEF Expire, ExpireIdempotencyRecord, InFlight, InFlightPhases, TableTypeOK
  <2> QED BY <2>1, <2>2, <2>3, <2>4, StepKinds
<1> QED BY <1>1, <1>2

LEMMA LedgerClientsExistStep ==
  ASSUME TypeOK, TypeOK', LedgerFromRequests, LedgerClientsExist, [Next]_vars
  PROVE  LedgerClientsExist'
<1>1. ASSUME NEW t \in transactions
      PROVE  profiles'[t.client] # NoItem
  BY ClientsStay DEF LedgerClientsExist, TypeOK, TableTypeOK, TransactionItems
<1>2. ASSUME NEW r \in Requests, Commit(r)
      PROVE  LedgerClientsExist'
  <2>1. PICK t \in TransactionItems :
           transactions' = transactions \cup {t} /\ t.client = cmd[r].client
    BY <1>2, CommitEntry
  <2>2. profiles[cmd[r].client] # NoItem
    BY <1>2 DEF Commit, CommitSubscribe, CommitCancel, SubscribeAtomically,
                CancelAtomically, SubscribeConditions, CancelConditions
  <2>3. profiles'[t.client] # NoItem
    BY <2>1, <2>2, ClientsStay DEF TransactionItems
  <2> QED BY <1>1, <2>1, <2>3 DEF LedgerClientsExist
<1> QED
  BY <1>1, <1>2, StepKinds
  DEF LedgerClientsExist, Expire, ExpireIdempotencyRecord

LEMMA AnswersAreDraftsStep ==
  ASSUME TypeOK, TypeOK', PhasesMatchLedger, AnswersAreDrafts, [Next]_vars
  PROVE  AnswersAreDrafts'
<1> SUFFICES ASSUME NEW q \in Requests, reply'[q].kind = "Client"
             PROVE  /\ reply'[q].client = cmd'[q].client
                    /\ reply'[q].balance = draft'[q].balance
  BY DEF AnswersAreDrafts
<1>1. CASE Respond(q)
  BY <1>1 DEF Respond, Return, TypeOK, LocalsTypeOK
<1>2. CASE reply'[q] = reply[q]
  <2>1. pc[q] = "done"
    BY <1>2 DEF PhasesMatchLedger
  <2> QED BY <1>2, <2>1, OneRequestMoves DEF AnswersAreDrafts
<1>3. ~(Die(q) \/ Refuse(q) \/ Replay(q))
  BY DEF Die, Refuse, Replay, Raise, Return, TypeOK, LocalsTypeOK, DomainErrors
<1> QED
  BY <1>1, <1>2, <1>3, RequestMoves, CommitLocals DEF Progress, NotifyClient

(* RepliesInv holds in every reachable state. *)
THEOREM RepliesInvariant == Spec => []RepliesInv
<1>1. Init => RepliesInv
  BY DEF Init, InitTable, RepliesInv, TakenKeysStay, LedgerClientsExist,
         AnswersAreDrafts
<1>2. IInv /\ IInv' /\ RepliesInv /\ [Next]_vars => RepliesInv'
  BY TakenKeysStayStep, LedgerClientsExistStep, AnswersAreDraftsStep
  DEF IInv, RepliesInv
<1> QED BY <1>1, <1>2, Invariant, PTL DEF Spec

(* While a key's record was never deleted, one entry is under it. *)
LEMMA OneEntryPerKey ==
  ASSUME IInv, NEW k \in Keys, expiries[k] = 0,
         NEW t \in EntriesUnder(k), NEW u \in EntriesUnder(k)
  PROVE  t = u
<1>1. IsFiniteSet(EntriesUnder(k))
  BY FS_Subset DEF IInv, LedgerFromRequests, EntriesUnder
<1>2. Cardinality(EntriesUnder(k)) <= 1
  BY DEF IInv, OneCommitPerKey
<1>3. SUFFICES ASSUME t # u PROVE FALSE
  OBVIOUS
<1>4. Cardinality({t, u}) = 2
  <2>1. IsFiniteSet({t}) /\ Cardinality({t}) = 1
    BY FS_Singleton
  <2>2. {t, u} = {t} \cup {u} /\ u \notin {t}
    BY <1>3
  <2>3. Cardinality({t} \cup {u}) = Cardinality({t}) + 1
    BY <2>1, <2>2, FS_AddElement
  <2> QED BY <2>1, <2>2, <2>3
<1>5. Cardinality({t, u}) <= Cardinality(EntriesUnder(k))
  BY <1>1, FS_Subset
<1> QED BY <1>1, <1>2, <1>4, <1>5, FS_CardinalityType

(* SameKeySameAnswer: the entry behind every successful answer under a key *)
(* is the one the key committed, so all of them show what it wrote.        *)
THEOREM SameAnswers == Spec => []SameKeySameAnswer
<1>1. ASSUME IInv, RepliesInv, NEW r \in Requests,
             reply[r].kind \in {"Client", "Replayed"}, cmd[r].key \in Keys
      PROVE  \E t \in EntriesUnder(cmd[r].key) :
               /\ t.client = reply[r].client
               /\ draft[t.id].balance = reply[r].balance
  <2>1. CASE reply[r].kind = "Replayed"
    BY <1>1, <2>1 DEF IInv, ReplayHasOrigin, EntriesUnder
  <2>2. CASE reply[r].kind = "Client"
    <3>1. PICK t \in transactions : t.id = r
      BY <1>1, <2>2 DEF IInv, AnswersMatchLedger, Committed
    <3> QED
      BY <1>1, <2>2, <3>1
      DEF IInv, LedgerFromRequests, RepliesInv, AnswersAreDrafts, EntriesUnder
  <2> QED BY <1>1, <2>1, <2>2
<1>2. IInv /\ RepliesInv => SameKeySameAnswer
  <2> SUFFICES ASSUME IInv, RepliesInv
               PROVE  SameKeySameAnswer
    OBVIOUS
  <2> SUFFICES ASSUME NEW q \in Requests, NEW r \in Requests,
                      /\ {reply[q].kind, reply[r].kind}
                           \subseteq {"Client", "Replayed"}
                      /\ cmd[q].key = cmd[r].key
                      /\ cmd[r].key \in Keys
                      /\ expiries[cmd[r].key] = 0
               PROVE  /\ reply[q].client = reply[r].client
                      /\ reply[q].balance = reply[r].balance
    BY DEF SameKeySameAnswer
  <2>1. PICK t \in EntriesUnder(cmd[r].key) :
           t.client = reply[q].client /\ draft[t.id].balance = reply[q].balance
    BY <1>1
  <2>2. PICK u \in EntriesUnder(cmd[r].key) :
           u.client = reply[r].client /\ draft[u.id].balance = reply[r].balance
    BY <1>1
  <2>3. t = u
    BY OneEntryPerKey
  <2> QED BY <2>1, <2>2, <2>3
<1> QED BY <1>2, Invariant, RepliesInvariant, PTL

(* ConflictMeansMismatch, for current reads: the record that stopped the   *)
(* write is found, and the client it names has a profile, so the request   *)
(* is replayed whenever the record is its own.                             *)
THEOREM ConflictsCorrect ==
  ASSUME ~StaleReads
  PROVE  Spec => ConflictMeansMismatch
<1>1. ASSUME IInv, RepliesInv, [Next]_vars, NEW r \in Requests,
             AnsweredNow(r, "IdempotencyConflict")
      PROVE  /\ idempotency[cmd[r].key] # NoItem
             /\ ~RecordIsFor(idempotency[cmd[r].key], cmd[r])
  <2> USE <1>1 DEF IInv, TypeOK, LocalsTypeOK, AnsweredNow, Return, Raise, Goto
  <2>1. ReplayOrConflict(r) \/ RebuildReplay(r)
    <3>1. ~(GetClientProfile(r) \/ ValidateSubscribe(r) \/ ValidateCancel(r)
             \/ WriteRefused(r) \/ WriteConflicted(r))
      BY DEF GetClientProfile, ValidateSubscribe, ValidateCancel, WriteRefused,
             WriteConflicted, RaiseWriteRefused
    <3> QED BY <3>1, RaisedFrom DEF DomainErrors
  <2>2. CASE ReplayOrConflict(r)
    BY <2>2 DEF ReplayOrConflict, GetIdempotencyItem, Answers, SameRequest,
                RecordIsFor, RepliesInv, TakenKeysStay
  <2>3. ~RebuildReplay(r)
    <3> SUFFICES ASSUME RebuildReplay(r) PROVE FALSE
      OBVIOUS
    <3>1. PICK t \in transactions : t.client = found[r].client_id
      BY DEF RebuildReplay, RecordsHaveOrigin, Origin
    <3>2. profiles[found[r].client_id] # NoItem
      BY <3>1 DEF RepliesInv, LedgerClientsExist
    <3> QED BY <3>2 DEF RebuildReplay, GetClient, Answers
  <2> QED BY <2>1, <2>2, <2>3
<1>2. IInv /\ RepliesInv /\ [Next]_vars
        => [\A r \in Requests : AnsweredNow(r, "IdempotencyConflict") =>
              /\ idempotency[cmd[r].key] # NoItem
              /\ ~RecordIsFor(idempotency[cmd[r].key], cmd[r])]_vars
  BY <1>1
<1> QED
  BY <1>2, Invariant, RepliesInvariant, PTL DEF Spec, ConflictMeansMismatch
===============================================================================
