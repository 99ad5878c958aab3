-------------------------- MODULE FundRefinementProofs -------------------------
(***************************************************************************)
(* FundService implements its two abstract specifications, for all values  *)
(* of the constants.  FundLedger always: a commit opens or closes a        *)
(* position, a TTL deletion forgets a key, a sent notification is          *)
(* recorded, and every other step is a stutter.  FundAccount when requests *)
(* about one client do not overlap and reads are current: a commit then    *)
(* writes the balance it would compute from the table as it is.            *)
(***************************************************************************)
EXTENDS FundServiceInvariantProofs, FiniteSums

(* The refinement mapping, as in FundServiceSafety. *)
Held == {h \in Holdings : subscriptions[h] # NoItem}

Remembered == {k \in Keys : idempotency[k] # NoItem}

LEMMA LedgerInit == Init => Ledger!Init
BY DEF Init, InitTable, Ledger!Init

(* A commit is Open or Close for its client, fund and key. *)
LEMMA CommitIsLedgerStep ==
  ASSUME IInv, NEW r \in Requests, Commit(r)
  PROVE  Ledger!Next
<1> USE DEF IInv
<1>1. /\ cmd[r].client \in Clients
      /\ cmd[r].fund \in Catalog
      /\ cmd[r].key \in Keys \cup {NoKey}
      /\ <<cmd[r].client, cmd[r].fund>> \in Holdings
      /\ draft[r].amount = MinAmount[cmd[r].fund]
      /\ draft[r].amount # NoItem
  BY CommitLocals, InFlightTyping, DomainAssumption
  DEF TypeOK, AmountsAreMinimums
<1>2. PICK c \in Clients, f \in Catalog, k \in Keys \cup {NoKey} :
         c = cmd[r].client /\ f = cmd[r].fund /\ k = cmd[r].key
  BY <1>1
<1>3. /\ <<c, f>> \in Holdings
      /\ draft[r].amount = MinAmount[f]
      /\ draft[r].amount # NoItem
  BY <1>1, <1>2
<1>4. PICK t \in TransactionItems :
         /\ transactions' = transactions \cup {t}
         /\ t.id = r
         /\ t.client = c
         /\ t.fund = f
         /\ t.amount = MinAmount[f]
         /\ t.type = TransactionTypeOf(cmd[r].op)
         /\ r \notin Committed
  BY <1>3, <1>2, CommitEntry
<1>5. t = [id |-> r, client |-> c, type |-> TransactionTypeOf(cmd[r].op),
           fund |-> f, amount |-> MinAmount[f]]
  BY <1>4 DEF TransactionItems
<1>6. \A e \in transactions : e.id # r
  BY <1>4 DEF Committed
<1>7. k \notin Remembered /\ Remembered' = Remembered \cup ({k} \cap Keys)
  <2>1. /\ KeyIsFree(k)
        /\ PutIdempotencyRecord(k, cmd[r].op, c, f, draft[r].balance)
    BY <1>2, CommitLocals, CommitWrites
  <2>2. CASE k = NoKey
    BY <2>1, <2>2, DomainAssumption DEF PutIdempotencyRecord, Remembered
  <2>3. CASE k # NoKey
    <3>1. [operation |-> cmd[r].op, client_id |-> c, fund_id |-> f,
           result_balance |-> draft[r].balance] # NoItem
      <4>1. [operation |-> cmd[r].op, client_id |-> c, fund_id |-> f,
             result_balance |-> draft[r].balance] \in IdempotencyRecords
        BY <1>2, CommitLocals, InFlightTyping DEF IdempotencyRecords, TypeOK
      <4> QED BY <4>1, DomainAssumption
    <3>2. /\ k \in Keys
          /\ idempotency[k] = NoItem
          /\ idempotency' = [idempotency EXCEPT ![k] =
               [operation |-> cmd[r].op, client_id |-> c, fund_id |-> f,
                result_balance |-> draft[r].balance]]
      BY <1>3, <2>1, <2>3 DEF KeyIsFree, PutIdempotencyRecord
    <3>3. idempotency \in [Keys -> IdempotencyRecords \cup {NoItem}]
      BY DEF TypeOK, TableTypeOK
    <3> QED BY <3>1, <3>2, <3>3 DEF Remembered
  <2> QED BY <2>2, <2>3
<1>8. notified' = notified
  BY CommitLocals
<1>9. subscriptions \in [Holdings -> Money \cup {NoItem}]
  BY DEF TypeOK, TableTypeOK
<1>10. CASE cmd[r].op = "SUBSCRIBE"
  <2>1. <<c, f>> \notin Held /\ Held' = Held \cup {<<c, f>>}
    <3>1. /\ subscriptions[<<c, f>>] = NoItem
          /\ subscriptions' = [subscriptions EXCEPT ![<<c, f>>] = draft[r].amount]
      BY <1>10, <1>2, CommitWrites
    <3> QED BY <1>3, <1>9, <3>1 DEF Held
  <2>2. Ledger!Enter(r, c, "OPEN", f, k)
    BY <1>4, <1>5, <1>6, <1>7, <1>8, <1>10
    DEF Ledger!Enter, Remembered, TransactionTypeOf
  <2>3. Ledger!Open(r, c, f, k)
    BY <2>1, <2>2 DEF Ledger!Open, Held
  <2> QED BY <2>3 DEF Ledger!Next
<1>11. CASE cmd[r].op = "CANCEL"
  <2>1. <<c, f>> \in Held /\ Held' = Held \ {<<c, f>>}
    <3>1. /\ subscriptions[<<c, f>>] # NoItem
          /\ subscriptions' = [subscriptions EXCEPT ![<<c, f>>] = NoItem]
      BY <1>11, <1>2, CommitWrites
    <3> QED BY <1>3, <1>9, <3>1 DEF Held
  <2>2. Ledger!Enter(r, c, "CANCEL", f, k)
    BY <1>4, <1>5, <1>6, <1>7, <1>8, <1>11
    DEF Ledger!Enter, Remembered, TransactionTypeOf
  <2>3. Ledger!Close(r, c, f, k)
    BY <2>1, <2>2 DEF Ledger!Close, Held
  <2> QED BY <2>3 DEF Ledger!Next
<1> QED BY <1>10, <1>11, CommitWrites DEF Operations

(* A TTL deletion is Forget. *)
LEMMA ExpireIsLedgerStep ==
  ASSUME IInv, NEW k \in Keys, Expire(k)
  PROVE  Ledger!Next
<1>1. k \in Remembered /\ Remembered' = Remembered \ {k}
  BY DEF Expire, ExpireIdempotencyRecord, Remembered, IInv, TypeOK, TableTypeOK
<1>2. UNCHANGED <<subscriptions, transactions, notified>>
  BY DEF Expire, ExpireIdempotencyRecord, locals
<1>3. Ledger!Forget(k)
  BY <1>1, <1>2 DEF Ledger!Forget, Remembered
<1> QED BY <1>3 DEF Ledger!Next

(* A step that writes no position, entry or record notifies or stutters. *)
LEMMA OtherIsLedgerStep ==
  ASSUME IInv, [Next]_vars,
         UNCHANGED <<subscriptions, idempotency, transactions>>
  PROVE  [Ledger!Next]_(Ledger!vars)
<1>1. ASSUME NEW q \in Requests, NotifyClient(q), notified' # notified
      PROVE  Ledger!Next
  <2>1. notified' = notified \cup {q} /\ q \notin notified
    BY <1>1 DEF NotifyClient
  <2>2. \E e \in transactions : e.id = q /\ e.type = "OPEN"
    BY <1>1 DEF NotifyClient, IInv, PhasesMatchLedger, Committed,
                LedgerFromRequests, TransactionTypeOf
  <2>3. Ledger!Notify(q)
    BY <2>1, <2>2 DEF Ledger!Notify
  <2> QED BY <2>3 DEF Ledger!Next
<1>2. ASSUME \A q \in Requests : ~NotifyClient(q)
      PROVE  notified' = notified
  <2>1. ASSUME NEW r \in Requests, Step(r) \/ Die(r)
        PROVE  notified' = notified
    BY <1>2, <2>1
    DEF Step, Read, Write, GetIdempotencyResult, RebuildClient,
        GetClientProfile, ValidateSubscribe, ValidateCancel, ReplayOrConflict,
        RebuildReplay, CommitSubscribe, CommitCancel, KeyTaken, WriteRefused,
        WriteConflicted, Respond, Die
  <2>2. ASSUME NEW r \in Requests, NEW command \in Commands, Arrive(r, command)
        PROVE  notified' = notified
    BY <2>2 DEF Arrive
  <2>3. (\E k \in Keys : Expire(k)) \/ CatchUp \/ UNCHANGED vars
          => notified' = notified
    BY DEF Expire, CatchUp, vars, locals
  <2> QED BY <2>1, <2>2, <2>3 DEF Next, AllAnswered
<1>3. CASE notified' = notified
  BY <1>3 DEF Ledger!vars
<1> QED BY <1>1, <1>2, <1>3

LEMMA LedgerNext == IInv /\ [Next]_vars => [Ledger!Next]_(Ledger!vars)
BY StepKinds, CommitIsLedgerStep, ExpireIsLedgerStep, OtherIsLedgerStep

(* ImplementsLedger: seen as positions, ledger entries, remembered keys    *)
(* and sent notifications, the service does what FundLedger promises       *)
(* however requests overlap.                                               *)
THEOREM LedgerRefinement == Spec => ImplementsLedger
BY LedgerInit, LedgerNext, Invariant, PTL DEF Spec, Ledger!Spec, ImplementsLedger

-------------------------------------------------------------------------------
(* One request per client at a time, and current reads.                    *)

(* Requests come into flight by arriving, and keep their command. *)
LEMMA InFlightSteps ==
  ASSUME TypeOK, [Next]_vars
  PROVE  \/ \E r \in Requests, command \in Commands : Arrive(r, command)
         \/ /\ InFlight' \subseteq InFlight
            /\ \A q \in InFlight' : cmd'[q] = cmd[q]
<1> USE DEF TypeOK, LocalsTypeOK, Goto, Return, Raise, InFlight, InFlightPhases
<1>1. ASSUME NEW r \in Requests, Read(r)
      PROVE  InFlight' \subseteq InFlight /\ cmd' = cmd
  BY <1>1 DEF Read, GetIdempotencyResult, RebuildClient, GetClientProfile,
              ValidateSubscribe, ValidateCancel, ReplayOrConflict, RebuildReplay
<1>2. ASSUME NEW r \in Requests, Write(r)
      PROVE  InFlight' \subseteq InFlight /\ cmd' = cmd
  BY <1>2 DEF Write, CommitSubscribe, CommitCancel, KeyTaken, WriteRefused,
              WriteConflicted, RaiseWriteRefused
<1>3. ASSUME NEW r \in Requests, NotifyClient(r) \/ Respond(r) \/ Die(r)
      PROVE  InFlight' \subseteq InFlight /\ cmd' = cmd
  BY <1>3 DEF NotifyClient, Respond, Die
<1>4. (\E k \in Keys : Expire(k)) \/ CatchUp \/ UNCHANGED vars
        => InFlight' \subseteq InFlight /\ cmd' = cmd
  BY DEF Expire, CatchUp, vars, locals
<1> QED BY <1>1, <1>2, <1>3, <1>4 DEF Next, Step, AllAnswered

LEMMA OneRequestPerClientStep ==
  ASSUME MaxPerClient = 1, TypeOK, OneRequestPerClient, [Next]_vars
  PROVE  OneRequestPerClient'
<1>1. CASE /\ InFlight' \subseteq InFlight
           /\ \A q \in InFlight' : cmd'[q] = cmd[q]
  BY <1>1, FS_Subset DEF OneRequestPerClient
<1>2. ASSUME NEW r \in Requests, NEW command \in Commands, Arrive(r, command)
      PROVE  OneRequestPerClient'
  <2> DEFINE others == {q \in InFlight : cmd[q].client = command.client}
  <2>1. IsFiniteSet(others) /\ Cardinality(others) < 1
    BY <1>2, FS_Subset DEF Arrive, OneRequestPerClient
  <2>2. others = {}
    BY <2>1, FewerThanOne
  <2>3. InFlight' = InFlight \cup {r} /\ r \notin InFlight
    BY <1>2 DEF Arrive, Goto, InFlight, InFlightPhases, TypeOK, LocalsTypeOK
  <2>4. cmd'[r] = command /\ \A q \in InFlight : cmd'[q] = cmd[q]
    BY <1>2, <2>3 DEF Arrive, InFlight, TypeOK, LocalsTypeOK
  <2>5. IsFiniteSet(InFlight')
    BY <2>3, FS_AddElement DEF OneRequestPerClient
  <2> QED BY <2>2, <2>3, <2>4, <2>5 DEF OneRequestPerClient
<1> QED BY <1>1, <1>2, InFlightSteps

(* A request gets past the client's profile by reading it. *)
LEMMA GetSubscriptionFrom ==
  ASSUME TypeOK, [Next]_vars, NEW q \in Requests, pc'[q] = "get_subscription"
  PROVE  \/ GetClientProfile(q)
         \/ /\ pc[q] = "get_subscription"
            /\ cmd'[q] = cmd[q]
            /\ draft'[q] = draft[q]
<1> USE DEF TypeOK, LocalsTypeOK, Goto, Return, Raise
<1>1. ASSUME NEW r \in Requests, Read(r), r # q
      PROVE  pc'[q] = pc[q] /\ cmd'[q] = cmd[q] /\ draft'[q] = draft[q]
  BY <1>1 DEF Read, GetIdempotencyResult, RebuildClient, GetClientProfile,
              ValidateSubscribe, ValidateCancel, ReplayOrConflict, RebuildReplay
<1>2. CASE Read(q)
  BY <1>2 DEF Read, GetIdempotencyResult, RebuildClient, ValidateSubscribe,
              ValidateCancel, ReplayOrConflict, RebuildReplay
<1>3. ASSUME NEW r \in Requests,
             Write(r) \/ NotifyClient(r) \/ Respond(r) \/ Die(r)
      PROVE  pc'[q] = pc[q] /\ cmd'[q] = cmd[q] /\ draft'[q] = draft[q]
  BY <1>3 DEF Write, CommitSubscribe, CommitCancel, KeyTaken, WriteRefused,
              WriteConflicted, RaiseWriteRefused, NotifyClient, Respond, Die
<1>4. ASSUME NEW r \in Requests, NEW command \in Commands, Arrive(r, command)
      PROVE  pc'[q] = pc[q] /\ cmd'[q] = cmd[q] /\ draft'[q] = draft[q]
  BY <1>4 DEF Arrive
<1>5. (\E k \in Keys : Expire(k)) \/ CatchUp \/ UNCHANGED vars
        => UNCHANGED <<pc, cmd, draft>>
  BY DEF Expire, CatchUp, vars, locals
<1> QED
  BY <1>1, <1>2, <1>3, <1>4, <1>5 DEF Next, Step, AllAnswered

(* While q is in flight, nobody else writes about its client. *)
LEMMA OthersWriteElsewhere ==
  ASSUME TypeOK, OneRequestPerClient, [Next]_vars, NEW q \in Requests,
         pc[q] \in InFlightPhases, ~Commit(q)
  PROVE  /\ profiles'[cmd[q].client] = profiles[cmd[q].client]
         /\ subscriptions'[<<cmd[q].client, cmd[q].fund>>]
              = subscriptions[<<cmd[q].client, cmd[q].fund>>]
<1>1. ASSUME NEW r \in Requests, Commit(r)
      PROVE  /\ profiles'[cmd[q].client] = profiles[cmd[q].client]
             /\ subscriptions'[<<cmd[q].client, cmd[q].fund>>]
                  = subscriptions[<<cmd[q].client, cmd[q].fund>>]
  <2>1. r # q /\ pc[r] \in InFlightPhases
    BY <1>1, CommitLocals DEF InFlightPhases
  <2>2. cmd[r].client # cmd[q].client
    BY <2>1 DEF OneRequestPerClient, InFlight
  <2>3. profiles' = [profiles EXCEPT ![cmd[r].client] = draft[r].balance]
    BY <1>1 DEF Commit, CommitSubscribe, CommitCancel, SubscribeAtomically,
                CancelAtomically, UpdateBalance
  <2>4. /\ <<cmd[q].client, cmd[q].fund>> \in Holdings
        /\ cmd[q].client \in Clients
    BY InFlightTyping DEF TypeOK, InFlightPhases
  <2> QED
    BY <1>1, <2>2, <2>3, <2>4, CommitWrites DEF TypeOK, TableTypeOK
<1> QED BY <1>1, StepKinds DEF Expire, ExpireIdempotencyRecord

LEMMA DraftsAreCurrentStep ==
  ASSUME ~StaleReads, TypeOK, OneRequestPerClient, DraftsAreCurrent,
         [Next]_vars
  PROVE  DraftsAreCurrent'
<1> DEFINE Current(balance, stake, r) ==
      /\ pc'[r] = "get_subscription" =>
           balance # NoItem /\ draft'[r].balance = balance
      /\ pc'[r] = "transact_write" /\ cmd'[r].op = "SUBSCRIBE" =>
           /\ balance # NoItem
           /\ stake = NoItem
           /\ balance >= draft'[r].amount
           /\ draft'[r].balance = balance - draft'[r].amount
      /\ pc'[r] = "transact_write" /\ cmd'[r].op = "CANCEL" =>
           /\ balance # NoItem
           /\ stake = draft'[r].amount
           /\ draft'[r].balance = balance + draft'[r].amount
<1>1. ASSUME NEW r \in Requests
      PROVE  Current(profiles'[cmd'[r].client],
                     subscriptions'[<<cmd'[r].client, cmd'[r].fund>>], r)
  <2> USE DEF TypeOK, LocalsTypeOK
  <2>1. CASE pc'[r] \notin {"get_subscription", "transact_write"}
    BY <2>1
  <2>2. CASE /\ pc'[r] \in {"get_subscription", "transact_write"}
             /\ pc[r] = pc'[r]
             /\ cmd'[r] = cmd[r]
             /\ draft'[r] = draft[r]
    <3>1. ~Commit(r) /\ pc[r] \in InFlightPhases
      BY <2>2, CommitLocals DEF InFlightPhases
    <3> QED BY <2>2, <3>1, OthersWriteElsewhere DEF DraftsAreCurrent
  <2>3. CASE GetClientProfile(r)
    BY <2>3 DEF GetClientProfile, GetClient, Answers, Goto, Raise, Return,
                table, items
  <2>4. CASE ValidateSubscribe(r)
    <3>1. draft[r].balance \in Nat
      BY <2>4, InFlightTyping DEF ValidateSubscribe, Money
    <3>2. MinAmount[cmd[r].fund] \in Nat
      BY <2>4, InFlightTyping, DomainAssumption DEF ValidateSubscribe, Money
    <3> QED
      BY <2>4, <3>1, <3>2 DEF ValidateSubscribe, DraftsAreCurrent,
         GetSubscription, Answers, IsGreaterThanOrEqual, Subtract, Goto, Raise,
         Return, table, items
  <2>5. CASE ValidateCancel(r)
    BY <2>5 DEF ValidateCancel, DraftsAreCurrent, GetSubscription, Answers,
                Plus, Goto, Raise, Return, table, items
  <2> QED
    BY <2>1, <2>2, <2>3, <2>4, <2>5, TransactWriteFrom, GetSubscriptionFrom
<1> QED BY <1>1 DEF DraftsAreCurrent

-------------------------------------------------------------------------------
(* FundAccount.                                                            *)

LEMMA AccountInit == Init => Account!Init /\ PatientInv
<1> SUFFICES ASSUME Init PROVE Account!Init /\ PatientInv
  OBVIOUS
<1>1. Account!Init
  BY DEF Init, InitTable, Holdings, Account!Init
<1>2. InFlight = {}
  BY DEF Init, InFlight, InFlightPhases
<1>3. OneRequestPerClient
  BY <1>2, FS_EmptySet DEF OneRequestPerClient
<1>4. DraftsAreCurrent
  BY DEF Init, DraftsAreCurrent
<1> QED BY <1>1, <1>3, <1>4 DEF PatientInv

(* A commit is Invest or Redeem, the rest a stutter. *)
LEMMA AccountNext ==
  ASSUME IInv, PatientInv, [Next]_vars
  PROVE  [Account!Next]_(Account!vars)
<1>1. ASSUME NEW r \in Requests, Commit(r)
      PROVE  Account!Next
  <2> DEFINE c == cmd[r].client
             f == cmd[r].fund
  <2>1. /\ pc[r] = "transact_write"
        /\ c \in Clients
        /\ f \in Catalog
        /\ <<c, f>> \in Holdings
        /\ draft[r].amount = MinAmount[f]
        /\ draft[r].amount # NoItem
        /\ cmd[r].op \in Operations
    BY <1>1, CommitLocals, InFlightTyping, DomainAssumption
    DEF IInv, TypeOK, AmountsAreMinimums
  <2>2. profiles' = [profiles EXCEPT ![c] = draft[r].balance]
    BY <1>1 DEF Commit, CommitSubscribe, CommitCancel, SubscribeAtomically,
                CancelAtomically, UpdateBalance
  <2>3. subscriptions' = [subscriptions EXCEPT ![<<c, f>>] =
          IF cmd[r].op = "SUBSCRIBE" THEN draft[r].amount ELSE NoItem]
    BY <1>1, CommitWrites DEF IInv
  <2>4. CASE cmd[r].op = "SUBSCRIBE"
    <3>1. Account!Invest(c, f)
      BY <2>1, <2>2, <2>3, <2>4 DEF PatientInv, DraftsAreCurrent, Account!Invest
    <3> QED BY <2>1, <3>1 DEF Account!Next
  <2>5. CASE cmd[r].op = "CANCEL"
    <3>1. Account!Redeem(c, f)
      BY <2>1, <2>2, <2>3, <2>5 DEF PatientInv, DraftsAreCurrent, Account!Redeem
    <3> QED BY <2>1, <3>1 DEF Account!Next
  <2> QED BY <2>1, <2>4, <2>5 DEF Operations
<1>2. UNCHANGED <<profiles, subscriptions>> => [Account!Next]_(Account!vars)
  BY DEF Account!vars
<1> QED BY <1>1, <1>2, StepKinds DEF Expire, ExpireIdempotencyRecord

(* PatientInv holds when the requests about a client do not overlap and    *)
(* reads are current: no write is then based on a value that has changed.  *)
THEOREM PatientInvariant ==
  ASSUME MaxPerClient = 1, ~StaleReads
  PROVE  Spec => []PatientInv
<1>1. TypeOK /\ PatientInv /\ [Next]_vars => PatientInv'
  BY OneRequestPerClientStep, DraftsAreCurrentStep DEF PatientInv
<1>2. Init => PatientInv
  BY AccountInit
<1> QED BY <1>1, <1>2, TypeCorrect, PTL DEF Spec

(* ImplementsAccount: no money is lost or made, for any clients, funds and *)
(* keys, as long as the requests about a client do not overlap and reads   *)
(* are current.                                                            *)
THEOREM AccountRefinement ==
  ASSUME MaxPerClient = 1, ~StaleReads
  PROVE  Spec => ImplementsAccount
<1>1. Init => Account!Init
  BY AccountInit
<1>2. IInv /\ PatientInv /\ [Next]_vars => [Account!Next]_(Account!vars)
  BY AccountNext
<1> QED
  BY <1>1, <1>2, Invariant, PatientInvariant, PTL
  DEF Spec, Account!Spec, ImplementsAccount

-------------------------------------------------------------------------------
(* Money.                                                                  *)

CanBeSummed(c) ==
  /\ IsFiniteSet(DOMAIN Invested(c))
  /\ \A f \in DOMAIN Invested(c) : Invested(c)[f] \in Nat

SumsAreDefined == \A c \in Clients : CanBeSummed(c)

(* A client holds as many funds as have an OPEN in the ledger at most, so  *)
(* its investments can be summed.                                          *)
LEMMA InvestmentsCanBeSummed == IInv => SumsAreDefined
<1> SUFFICES ASSUME IInv, NEW c \in Clients
             PROVE  CanBeSummed(c)
  BY DEF SumsAreDefined
<1> DEFINE FundOf == [t \in transactions |-> t.fund]
           Opened == {FundOf[t] : t \in transactions}
<1>1. IsFiniteSet(transactions)
  BY DEF IInv, LedgerFromRequests
<1>2. IsFiniteSet(Opened)
  <2>1. FundOf \in Surjection(transactions, Opened)
    BY DEF Surjection
  <2> QED BY <1>1, <2>1, FS_Surjection
<1>3. ASSUME NEW f \in Funds, subscriptions[<<c, f>>] # NoItem
      PROVE  f \in Opened
  <2>1. Cardinality(Entries("OPEN", c, f)) =
          Cardinality(Entries("CANCEL", c, f)) + 1
    BY <1>3 DEF IInv, HoldingsMatchLedger
  <2>2. IsFiniteSet(Entries("CANCEL", c, f))
    BY <1>1, FS_Subset DEF Entries
  <2>3. Cardinality(Entries("CANCEL", c, f)) \in Nat
    BY <2>2, FS_CardinalityType
  <2>4. Entries("OPEN", c, f) # {}
    BY <2>1, <2>3, FS_EmptySet
  <2> QED BY <2>4 DEF Entries
<1>4. IsFiniteSet(DOMAIN Invested(c))
  BY <1>2, <1>3, FS_Subset DEF Invested
<1>5. ASSUME NEW f \in DOMAIN Invested(c)
      PROVE  Invested(c)[f] \in Nat
  BY <1>5 DEF IInv, TypeOK, TableTypeOK, Invested, Holdings, Money
<1> QED BY <1>4, <1>5 DEF CanBeSummed

(* The sum grows by the amount of a position that is opened, and shrinks   *)
(* by it when the position is closed.                                      *)
LEMMA SumWithOneMore ==
  ASSUME NEW f, NEW g, NEW x, IsFiniteSet(DOMAIN f), IsFiniteSet(DOMAIN g),
         x \notin DOMAIN f, DOMAIN g = DOMAIN f \cup {x},
         \A y \in DOMAIN f : g[y] = f[y],
         \A y \in DOMAIN g : g[y] \in Nat
  PROVE  /\ SumFunction(g) = SumFunction(f) + g[x]
         /\ SumFunction(f) \in Nat
<1>1. SumFunctionOnSet(g, DOMAIN g) =
        g[x] + SumFunctionOnSet(g, (DOMAIN g) \ {x})
  BY SumTakesAny
<1>2. (DOMAIN g) \ {x} = DOMAIN f
  OBVIOUS
<1>3. SumFunctionOnSet(g, DOMAIN f) = SumFunctionOnSet(f, DOMAIN f)
  BY SumOfSame
<1>4. SumFunctionOnSet(f, DOMAIN f) \in Nat /\ g[x] \in Nat
  BY SumType
<1> QED BY <1>1, <1>2, <1>3, <1>4 DEF SumFunction

(* A step of FundAccount moves money between a balance and a position. *)
LEMMA MoneyConservedStep ==
  ASSUME TypeOK, SumsAreDefined, SumsAreDefined', MoneyConserved,
         [Account!Next]_(Account!vars)
  PROVE  MoneyConserved'
<1> SUFFICES ASSUME NEW c \in Clients, profiles'[c] # NoItem
             PROVE  profiles'[c] + SumFunction(Invested(c)') = InitialBalance
  BY DEF MoneyConserved
<1> DEFINE old == Invested(c)
           new == Invested(c)'
<1>1. /\ IsFiniteSet(DOMAIN old)
      /\ IsFiniteSet(DOMAIN new)
      /\ \A f \in DOMAIN old : old[f] \in Nat
      /\ \A f \in DOMAIN new : new[f] \in Nat
  BY DEF SumsAreDefined, CanBeSummed
<1>2. ASSUME profiles'[c] = profiles[c],
             \A f \in Funds : subscriptions'[<<c, f>>] = subscriptions[<<c, f>>]
      PROVE  profiles'[c] + SumFunction(new) = InitialBalance
  <2>1. new = old
    BY <1>2 DEF Invested
  <2> QED BY <1>2, <2>1 DEF MoneyConserved
<1>3. ASSUME NEW f \in Catalog, Account!Invest(c, f)
      PROVE  profiles'[c] + SumFunction(new) = InitialBalance
  <2>1. /\ f \in Funds
        /\ <<c, f>> \in Holdings
        /\ MinAmount[f] \in Nat
        /\ MinAmount[f] # NoItem
        /\ profiles[c] \in Nat
        /\ profiles[c] # NoItem
        /\ MinAmount[f] <= profiles[c]
    BY <1>3, DomainAssumption
    DEF Account!Invest, Holdings, TypeOK, TableTypeOK, Money
  <2>2. /\ profiles'[c] = profiles[c] - MinAmount[f]
        /\ subscriptions[<<c, f>>] = NoItem
        /\ subscriptions' = [subscriptions EXCEPT ![<<c, f>>] = MinAmount[f]]
    BY <1>3 DEF Account!Invest, TypeOK, TableTypeOK
  <2>3. /\ f \notin DOMAIN old
        /\ DOMAIN new = DOMAIN old \cup {f}
        /\ new[f] = MinAmount[f]
        /\ \A g \in DOMAIN old : new[g] = old[g]
    BY <2>1, <2>2 DEF Invested, TypeOK, TableTypeOK, Holdings
  <2> HIDE DEF old, new
  <2>4. SumFunction(new) = SumFunction(old) + MinAmount[f]
        /\ SumFunction(old) \in Nat
    BY <1>1, <2>3, SumWithOneMore
  <2>5. profiles[c] + SumFunction(old) = InitialBalance
    BY <2>1 DEF MoneyConserved, old
  <2> QED BY <2>1, <2>2, <2>4, <2>5
<1>4. ASSUME NEW f \in Catalog, Account!Redeem(c, f)
      PROVE  profiles'[c] + SumFunction(new) = InitialBalance
  <2>1. /\ f \in Funds
        /\ <<c, f>> \in Holdings
        /\ subscriptions[<<c, f>>] \in Nat
        /\ profiles[c] \in Nat
        /\ profiles[c] # NoItem
    BY <1>4, DomainAssumption
    DEF Account!Redeem, Holdings, TypeOK, TableTypeOK, Money
  <2>2. /\ profiles'[c] = profiles[c] + subscriptions[<<c, f>>]
        /\ subscriptions[<<c, f>>] # NoItem
        /\ subscriptions' = [subscriptions EXCEPT ![<<c, f>>] = NoItem]
    BY <1>4 DEF Account!Redeem, TypeOK, TableTypeOK
  <2>3. /\ f \notin DOMAIN new
        /\ DOMAIN old = DOMAIN new \cup {f}
        /\ old[f] = subscriptions[<<c, f>>]
        /\ \A g \in DOMAIN new : old[g] = new[g]
    BY <2>1, <2>2 DEF Invested, TypeOK, TableTypeOK, Holdings
  <2> HIDE DEF old, new
  <2>4. SumFunction(old) = SumFunction(new) + subscriptions[<<c, f>>]
        /\ SumFunction(new) \in Nat
    BY <1>1, <2>3, SumWithOneMore
  <2>5. profiles[c] + SumFunction(old) = InitialBalance
    BY <2>1 DEF MoneyConserved, old
  <2> QED BY <2>1, <2>2, <2>4, <2>5
<1>5. ASSUME NEW d \in Clients, d # c, NEW f \in Catalog,
             Account!Invest(d, f) \/ Account!Redeem(d, f)
      PROVE  profiles'[c] + SumFunction(new) = InitialBalance
  <2>1. /\ profiles'[c] = profiles[c]
        /\ \A g \in Funds : subscriptions'[<<c, g>>] = subscriptions[<<c, g>>]
    BY <1>5 DEF Account!Invest, Account!Redeem, TypeOK, TableTypeOK, Holdings
  <2> QED BY <1>2, <2>1
<1>6. UNCHANGED Account!vars
        => profiles'[c] + SumFunction(new) = InitialBalance
  BY <1>2 DEF Account!vars
<1> QED BY <1>3, <1>4, <1>5, <1>6 DEF Account!Next

LEMMA MoneyConservedInit == Init => MoneyConserved
<1> SUFFICES ASSUME Init, NEW c \in Clients, profiles[c] # NoItem
             PROVE  profiles[c] + SumFunction(Invested(c)) = InitialBalance
  BY DEF MoneyConserved
<1>1. DOMAIN Invested(c) = {}
  BY DEF Init, InitTable, Holdings, Invested
<1>2. SumFunction(Invested(c)) = 0
  BY <1>1, SumOverNothing DEF SumFunction
<1>3. profiles[c] = InitialBalance /\ InitialBalance \in Nat
  BY DomainAssumption DEF Init, InitTable, Money
<1> QED BY <1>2, <1>3

(* MoneyConserved, for any clients, funds, amounts and keys, as long as the *)
(* requests about a client do not overlap and reads are current.           *)
THEOREM MoneyIsConserved ==
  ASSUME MaxPerClient = 1, ~StaleReads
  PROVE  Spec => []MoneyConserved
<1>1. ASSUME IInv, PatientInv, [Next]_vars, SumsAreDefined, SumsAreDefined',
             MoneyConserved
      PROVE  MoneyConserved'
  BY <1>1, AccountNext, MoneyConservedStep DEF IInv
<1>2. Spec => []SumsAreDefined
  BY Invariant, InvestmentsCanBeSummed, PTL
<1> QED
  BY <1>1, <1>2, MoneyConservedInit, Invariant, PatientInvariant, PTL DEF Spec
===============================================================================
