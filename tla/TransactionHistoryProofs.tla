----------------------- MODULE TransactionHistoryProofs ------------------------
(***************************************************************************)
(* The transaction history, for all values of the constants: its steps are *)
(* steps of FundService, its order follows the order in which requests     *)
(* were answered, and no cancellation precedes every opening.              *)
(***************************************************************************)
EXTENDS TransactionHistorySafety, FundServiceInvariantProofs

USE HistoryAssumption

allVars == <<vars, historyVars>>

-------------------------------------------------------------------------------
(* Instants and sort keys.                                                 *)

(* Earlier is a strict total order of the instants. *)
LEMMA EarlierOrder ==
  /\ \A s \in Instants : ~Earlier(s, s)
  /\ \A s, t, u \in Instants : ~Earlier(t, s) /\ Earlier(t, u) => Earlier(s, u)
  /\ \A s, t, u \in Instants : Earlier(s, t) /\ ~Earlier(u, t) => Earlier(s, u)
  /\ \A s, t \in Instants : Earlier(s, t) => ~Earlier(t, s)
BY DEF Instants, Earlier

(* isoformat keeps that order, although it leaves out a zero fraction. *)
LEMMA KeyOrder ==
  \A s, t \in Instants : KeyLess(IsoFormat(s), IsoFormat(t)) <=> Earlier(s, t)
BY DEF Instants, Earlier, KeyLess, IsoFormat

-------------------------------------------------------------------------------
(* Steps.                                                                  *)

(* Every step is one of FundService, or leaves its variables alone. *)
LEMMA HistoryStepIsServiceStep == [HistoryNext]_allVars => [Next]_vars
<1>1. ASSUME NEW r \in Requests, NEW command \in Commands, ArriveLater(r, command)
      PROVE  Next
  BY <1>1 DEF ArriveLater, Next
<1>2. ASSUME NEW r \in Requests, Create(r) \/ CommitLater(r)
      PROVE  Next
  BY <1>2 DEF Create, CommitLater, Next, Step, Read, Write
<1>3. Other => Next
  BY DEF Other, Next, Step, Read, Write
<1>4. ASSUME NEW q \in Readers,
             (\E c \in Clients : StartReading(q, c)) \/ ReadClient(q)
               \/ ListTransactions(q)
      PROVE  UNCHANGED vars
  BY <1>4 DEF StartReading, ReadClient, ListTransactions
<1>5. Tick => UNCHANGED vars
  BY DEF Tick
<1> QED BY <1>1, <1>2, <1>3, <1>4, <1>5 DEF HistoryNext, allVars

(* The clock is never set back, and only a request that reaches its write  *)
(* takes an instant, the current one.                                      *)
LEMMA ClockSteps ==
  ASSUME HistoryTypeOK, TypeOK, [HistoryNext]_allVars
  PROVE  /\ clock' \in Instants
         /\ clock' = clock \/ Earlier(clock, clock')
         /\ stamp' \in [Requests -> Instants]
         /\ \A r \in Requests :
              \/ stamp'[r] = stamp[r]
              \/ /\ stamp'[r] = clock
                 /\ pc[r] = "get_subscription"
                 /\ pc'[r] = "transact_write"
<1>1. CASE Tick
  BY <1>1 DEF Tick, HistoryTypeOK
<1>2. ASSUME NEW r \in Requests, Create(r)
      PROVE  /\ clock' = clock
             /\ \/ stamp' = stamp
                \/ /\ stamp' = [stamp EXCEPT ![r] = clock]
                   /\ pc[r] = "get_subscription"
                   /\ pc'[r] = "transact_write"
  BY <1>2 DEF Create, ValidateSubscribe, ValidateCancel, NowUtc
<1>3. \/ Tick
      \/ \E r \in Requests : Create(r)
      \/ UNCHANGED <<clock, stamp>>
  BY DEF HistoryNext, ArriveLater, CommitLater, Other,
         StartReading, ReadClient, ListTransactions, allVars, historyVars
<1> QED BY <1>1, <1>2, <1>3 DEF HistoryTypeOK

(* Committed requests keep their instant. *)
LEMMA StampsStay ==
  ASSUME HistoryTypeOK, TypeOK, LedgerFromRequests, [HistoryNext]_allVars
  PROVE  \A t \in transactions : t.id \in Requests /\ stamp'[t.id] = stamp[t.id]
BY ClockSteps DEF LedgerFromRequests, TypeOK, TableTypeOK, TransactionItems

(* A new entry is one of a commit, whose instant is past. *)
LEMMA NewEntry ==
  ASSUME HistoryTypeOK, TypeOK, LedgerFromRequests, [HistoryNext]_allVars,
         transactions' # transactions
  PROVE  \E r \in Requests, t \in TransactionItems :
           /\ Commit(r)
           /\ transactions' = transactions \cup {t}
           /\ t.id = r
           /\ t.client = cmd[r].client
           /\ t.fund = cmd[r].fund
           /\ t.type = TransactionTypeOf(cmd[r].op)
           /\ Earlier(stamp[r], clock)
           /\ UNCHANGED historyVars
<1>1. \A r \in Requests : ~Commit(r) => ~CommitLater(r)
  BY DEF Commit, CommitLater
<1>2. \E r \in Requests : CommitLater(r)
  <2> SUFFICES ASSUME \A r \in Requests : ~CommitLater(r)
               PROVE  transactions' = transactions
    BY DEF Commit
  <2>1. ASSUME NEW r \in Requests, Create(r)
        PROVE  UNCHANGED table
    BY <2>1 DEF Create, GetClientProfile, ValidateSubscribe, ValidateCancel
  <2>2. Other => transactions' = transactions
    BY DEF Other, GetIdempotencyResult, RebuildClient, ReplayOrConflict,
           RebuildReplay, KeyTaken, WriteRefused, WriteConflicted, NotifyClient,
           Respond, Die, Expire, ExpireIdempotencyRecord, CatchUp, Replicate,
           AllAnswered, vars, table, items
  <2>3. ASSUME NEW r \in Requests, NEW command \in Commands,
               ArriveLater(r, command)
        PROVE  UNCHANGED table
    BY <2>3 DEF ArriveLater, Arrive
  <2>4. ASSUME NEW q \in Readers,
               (\E c \in Clients : StartReading(q, c)) \/ ReadClient(q)
                 \/ ListTransactions(q)
        PROVE  UNCHANGED vars
    BY <2>4 DEF StartReading, ReadClient, ListTransactions
  <2>5. Tick \/ UNCHANGED allVars => UNCHANGED vars
    BY DEF Tick, allVars
  <2> QED
    BY <2>1, <2>2, <2>3, <2>4, <2>5 DEF HistoryNext, vars, table, items
<1>3. PICK r \in Requests : CommitLater(r)
  BY <1>2
<1>4. Commit(r) /\ Earlier(stamp[r], clock) /\ UNCHANGED historyVars
  BY <1>3 DEF CommitLater, Commit
<1> QED BY <1>4, CommitEntry

(* What has been answered stays answered, and nothing becomes idle again. *)
LEMMA PhasesAdvance ==
  ASSUME TypeOK, [Next]_vars, NEW q \in Requests
  PROVE  /\ pc[q] = "done" => pc'[q] = "done"
         /\ pc'[q] = "idle" => pc[q] = "idle"
<1> USE DEF TypeOK, LocalsTypeOK, Goto, Return, Raise
<1>1. ASSUME NEW r \in Requests, Read(r)
      PROVE  /\ pc[r] # "done" /\ pc'[r] # "idle"
             /\ \A s \in Requests \ {r} : pc'[s] = pc[s]
  BY <1>1 DEF Read, GetIdempotencyResult, RebuildClient, GetClientProfile,
              ValidateSubscribe, ValidateCancel, ReplayOrConflict, RebuildReplay
<1>2. ASSUME NEW r \in Requests,
             Write(r) \/ NotifyClient(r) \/ Respond(r) \/ Die(r)
      PROVE  /\ pc[r] # "done" /\ pc'[r] # "idle"
             /\ \A s \in Requests \ {r} : pc'[s] = pc[s]
  BY <1>2 DEF Write, CommitSubscribe, CommitCancel, KeyTaken, WriteRefused,
              WriteConflicted, RaiseWriteRefused, NotifyClient, Respond, Die,
              InFlightPhases
<1>3. ASSUME NEW r \in Requests, NEW command \in Commands, Arrive(r, command)
      PROVE  /\ pc[r] # "done" /\ pc'[r] # "idle"
             /\ \A s \in Requests \ {r} : pc'[s] = pc[s]
  BY <1>3 DEF Arrive
<1>4. (\E k \in Keys : Expire(k)) \/ CatchUp \/ UNCHANGED vars => UNCHANGED pc
  BY DEF Expire, CatchUp, vars, locals
<1> QED
  BY <1>1, <1>2, <1>3, <1>4 DEF Next, Step, AllAnswered

(* A request takes its instant when it reaches its write. *)
LEMMA StampedAtWrite ==
  ASSUME HistoryTypeOK, TypeOK, [HistoryNext]_allVars, NEW b \in Requests,
         pc[b] # "transact_write", pc'[b] = "transact_write"
  PROVE  stamp'[b] = clock
<1> USE DEF TypeOK, LocalsTypeOK, Goto, Return, Raise
<1>1. ASSUME NEW r \in Requests, Create(r)
      PROVE  stamp'[b] = clock
  <2>1. r = b
    BY <1>1 DEF Create, GetClientProfile, ValidateSubscribe, ValidateCancel
  <2>2. ~GetClientProfile(r)
    BY <2>1 DEF GetClientProfile
  <2> QED BY <1>1, <2>1, <2>2 DEF Create, NowUtc, HistoryTypeOK
<1>2. ASSUME NEW r \in Requests,
             GetIdempotencyResult(r) \/ RebuildClient(r) \/ ReplayOrConflict(r)
               \/ RebuildReplay(r) \/ KeyTaken(r) \/ WriteRefused(r)
               \/ WriteConflicted(r) \/ NotifyClient(r) \/ Respond(r) \/ Die(r)
      PROVE  FALSE
  BY <1>2 DEF GetIdempotencyResult, RebuildClient, ReplayOrConflict,
     RebuildReplay, KeyTaken, WriteRefused, WriteConflicted,
     RaiseWriteRefused, NotifyClient, Respond, Die
<1>3. ASSUME NEW r \in Requests, CommitLater(r)
      PROVE  FALSE
  BY <1>3 DEF CommitLater, CommitSubscribe, CommitCancel
<1>4. ASSUME NEW r \in Requests, NEW command \in Commands, ArriveLater(r, command)
      PROVE  FALSE
  BY <1>4 DEF ArriveLater, Arrive
<1>5. ASSUME NEW q \in Readers,
             (\E c \in Clients : StartReading(q, c)) \/ ReadClient(q)
               \/ ListTransactions(q)
      PROVE  pc' = pc
  BY <1>5 DEF StartReading, ReadClient, ListTransactions, vars, locals
<1>6. (\E k \in Keys : Expire(k)) \/ CatchUp \/ AllAnswered \/ Tick
        \/ UNCHANGED allVars => pc' = pc
  BY DEF Expire, CatchUp, AllAnswered, Tick, allVars, vars, locals
<1> QED
  BY <1>1, <1>2, <1>3, <1>4, <1>5, <1>6 DEF HistoryNext, Other

(* Who came before is noted on arrival, and never again. *)
LEMMA ArrivalSteps ==
  ASSUME HistoryTypeOK, TypeOK, [HistoryNext]_allVars
  PROVE  /\ answeredBefore' \in [Requests \cup Readers -> SUBSET Requests]
         /\ \A b \in Requests \cup Readers :
              \/ answeredBefore'[b] = answeredBefore[b]
              \/ /\ answeredBefore'[b] = Answered
                 /\ b \in Requests
                 /\ pc[b] = "idle"
                 /\ pc'[b] \in {"get_client", "get_idempotency_result"}
                 /\ transactions' = transactions
              \/ /\ answeredBefore'[b] = Answered
                 /\ b \in Readers
                 /\ phase[b] = "idle"
<1>1. ASSUME NEW r \in Requests, NEW command \in Commands, ArriveLater(r, command)
      PROVE  /\ answeredBefore' = [answeredBefore EXCEPT ![r] = Answered]
             /\ pc[r] = "idle"
             /\ pc'[r] \in {"get_client", "get_idempotency_result"}
             /\ transactions' = transactions
  BY <1>1 DEF ArriveLater, Arrive, Goto, table, items, TypeOK, LocalsTypeOK
<1>2. ASSUME NEW q \in Readers, NEW c \in Clients, StartReading(q, c)
      PROVE  /\ answeredBefore' = [answeredBefore EXCEPT ![q] = Answered]
             /\ phase[q] = "idle"
  BY <1>2 DEF StartReading
<1>3. \/ \E r \in Requests, command \in Commands : ArriveLater(r, command)
      \/ \E q \in Readers, c \in Clients : StartReading(q, c)
      \/ UNCHANGED answeredBefore
  BY DEF HistoryNext, Create, CommitLater, Other, Tick,
         ReadClient, ListTransactions, allVars, historyVars
<1>4. Answered \subseteq Requests
  BY DEF Answered
<1>5. answeredBefore \in [Requests \cup Readers -> SUBSET Requests]
  BY DEF HistoryTypeOK
<1>6. CASE \E r \in Requests, command \in Commands : ArriveLater(r, command)
  BY <1>1, <1>4, <1>5, <1>6
<1>7. CASE \E q \in Readers, c \in Clients : StartReading(q, c)
  BY <1>2, <1>4, <1>5, <1>7
<1>8. CASE UNCHANGED answeredBefore
  BY <1>5, <1>8
<1> QED BY <1>3, <1>6, <1>7, <1>8

(* What one step may do to reader q. *)
ReaderMoves(q) ==
  \/ /\ ListTransactions(q)
     /\ phase'[q] = "listed"
     /\ asked'[q] = asked[q]
  \/ /\ page'[q] = page[q]
     /\ \/ phase'[q] = phase[q] /\ asked'[q] = asked[q]
        \/ phase[q] = "idle" /\ phase'[q] = "get_client" /\ asked'[q] \in Clients
        \/ /\ phase[q] = "get_client"
           /\ phase'[q] \in {"ClientNotFound", "list_transactions"}
           /\ asked'[q] = asked[q]

LEMMA ReaderSteps ==
  ASSUME HistoryTypeOK, [HistoryNext]_allVars
  PROVE  /\ phase' \in [Readers -> ReadPhases]
         /\ asked' \in [Readers -> Clients \cup {NoItem}]
         /\ \A q \in Readers : ReaderMoves(q)
<1> USE DEF HistoryTypeOK, ReadPhases, ReaderMoves
<1>1. ASSUME NEW s \in Readers, NEW c \in Clients, StartReading(s, c)
      PROVE  /\ phase' \in [Readers -> ReadPhases]
             /\ asked' \in [Readers -> Clients \cup {NoItem}]
             /\ \A q \in Readers : ReaderMoves(q)
  BY <1>1 DEF StartReading
<1>2. ASSUME NEW s \in Readers, ReadClient(s)
      PROVE  /\ phase' \in [Readers -> ReadPhases]
             /\ asked' \in [Readers -> Clients \cup {NoItem}]
             /\ \A q \in Readers : ReaderMoves(q)
  <2>1. PICK p \in {"ClientNotFound", "list_transactions"} :
          phase' = [phase EXCEPT ![s] = p]
    BY <1>2 DEF ReadClient
  <2> QED BY <1>2, <2>1 DEF ReadClient
<1>3. ASSUME NEW s \in Readers, ListTransactions(s)
      PROVE  /\ phase' \in [Readers -> ReadPhases]
             /\ asked' \in [Readers -> Clients \cup {NoItem}]
             /\ \A q \in Readers : ReaderMoves(q)
  <2>1. PICK p : page' = [page EXCEPT ![s] = p]
    BY <1>3 DEF ListTransactions
  <2>2. /\ asked' = asked
        /\ phase' = [phase EXCEPT ![s] = "listed"]
    BY <1>3 DEF ListTransactions
  <2>3. \A q \in Readers \ {s} :
          phase'[q] = phase[q] /\ asked'[q] = asked[q] /\ page'[q] = page[q]
    BY <2>1, <2>2
  <2> QED BY <1>3, <2>2, <2>3
<1>4. CASE UNCHANGED readers
  BY <1>4 DEF readers
<1>5. \/ \E q \in Readers, c \in Clients : StartReading(q, c)
      \/ \E q \in Readers : ReadClient(q)
      \/ \E q \in Readers : ListTransactions(q)
      \/ UNCHANGED readers
  BY DEF HistoryNext, Create, CommitLater, Other, Tick,
         ArriveLater, allVars, historyVars
<1> QED BY <1>1, <1>2, <1>3, <1>4, <1>5

-------------------------------------------------------------------------------
(* One lemma per part of the invariant.                                    *)

(* A page of a query holds entries of the client asked for, in descending  *)
(* order, and leaves out none that sorts after one of them.                *)
LEMMA PageListed ==
  ASSUME HistoryTypeOK, TypeOK, NEW q \in Readers, ListTransactions(q)
  PROVE  /\ page' \in [Readers -> Seq(TransactionItems)]
         /\ Range(page'[q]) \subseteq transactions
         /\ \A i, j \in DOMAIN page'[q] :
              i < j => ~SortsBefore(page'[q][i], page'[q][j])
         /\ ~StaleReads =>
              \A t \in transactions \ Range(page'[q]), u \in Range(page'[q]) :
                t.client = asked[q] => ~SortsBefore(u, t)
<1>1. PICK stored \in Queried :
        \E n \in 0..PageSize :
          \E p \in [1..n -> {t \in stored : t.client = asked[q]}] :
            /\ IsPageOf({t \in stored : t.client = asked[q]}, p)
            /\ page' = [page EXCEPT ![q] = p]
  BY DEF ListTransactions
<1> DEFINE entries == {t \in stored : t.client = asked[q]}
<1>n. PICK n \in 0..PageSize : \E p \in [1..n -> entries] :
        IsPageOf(entries, p) /\ page' = [page EXCEPT ![q] = p]
  BY <1>1
<1>2. PICK p \in [1..n -> entries] :
        IsPageOf(entries, p) /\ page' = [page EXCEPT ![q] = p]
  BY <1>n
<1>3. stored \subseteq transactions /\ (~StaleReads => stored = transactions)
  BY DEF Queried
<1>4. entries \subseteq TransactionItems
  BY <1>3 DEF TypeOK, TableTypeOK
<1>5. p \in Seq(TransactionItems)
  BY <1>2, <1>4
<1>6. page'[q] = p
  BY <1>2 DEF HistoryTypeOK
<1>7. Range(p) \subseteq entries
  BY <1>2 DEF Range
<1>8. /\ \A i, j \in DOMAIN p : i < j => ~SortsBefore(p[i], p[j])
      /\ \A t \in entries \ Range(p), u \in Range(p) : ~SortsBefore(u, t)
  BY <1>2 DEF IsPageOf
<1>9. page' \in [Readers -> Seq(TransactionItems)]
  BY <1>2, <1>5 DEF HistoryTypeOK
<1> QED BY <1>3, <1>6, <1>7, <1>8, <1>9

LEMMA HistoryTypeOKStep ==
  ASSUME HistoryTypeOK, TypeOK, LedgerFromRequests, [HistoryNext]_allVars
  PROVE  HistoryTypeOK'
<1>1. page' \in [Readers -> Seq(TransactionItems)]
  <2>1. page' = page \/ \E q \in Readers : ListTransactions(q)
    BY DEF HistoryNext, ArriveLater, Create, CommitLater, Other, Tick,
           StartReading, ReadClient, allVars, historyVars, readers
  <2> QED BY <2>1, PageListed DEF HistoryTypeOK
<1> QED BY <1>1, ClockSteps, ArrivalSteps, ReaderSteps DEF HistoryTypeOK

LEMMA StampsArePastStep ==
  ASSUME HistoryTypeOK, TypeOK, LedgerFromRequests, StampsArePast,
         [HistoryNext]_allVars
  PROVE  StampsArePast'
<1>1. /\ clock \in Instants /\ clock' \in Instants
      /\ clock' = clock \/ Earlier(clock, clock')
      /\ \A r \in Requests : stamp[r] \in Instants /\ stamp'[r] \in Instants
  BY ClockSteps DEF HistoryTypeOK
<1>2. ASSUME NEW r \in Requests
      PROVE  ~Earlier(clock', stamp'[r])
  <2>1. ~Earlier(clock, stamp'[r])
    BY <1>1, ClockSteps, EarlierOrder DEF StampsArePast
  <2> QED BY <1>1, <2>1, EarlierOrder
<1>3. ASSUME NEW t \in transactions'
      PROVE  Earlier(stamp'[t.id], clock')
  <2>1. CASE t \in transactions
    <3>1. t.id \in Requests /\ stamp'[t.id] = stamp[t.id]
      BY <2>1, StampsStay
    <3>2. Earlier(stamp'[t.id], clock)
      BY <2>1, <3>1 DEF StampsArePast
    <3> QED BY <1>1, <3>1, <3>2, EarlierOrder
  <2>2. CASE t \notin transactions
    <3>1. Earlier(stamp[t.id], clock) /\ UNCHANGED historyVars
      BY <1>3, <2>2, NewEntry
    <3> QED BY <3>1 DEF historyVars
  <2> QED BY <2>1, <2>2
<1> QED BY <1>2, <1>3 DEF StampsArePast

LEMMA StampsFollowRealTimeStep ==
  ASSUME HistoryTypeOK, TypeOK, LedgerFromRequests, StampsArePast,
         StampsFollowRealTime, [HistoryNext]_allVars
  PROVE  StampsFollowRealTime'
<1>1. [Next]_vars
  BY HistoryStepIsServiceStep
<1>2. ASSUME NEW b \in Requests \cup Readers, NEW a \in answeredBefore'[b]
      PROVE  a \in Requests /\ pc[a] = "done" /\ pc'[a] = "done"
  <2>1. a \in Answered
    BY <1>2, ArrivalSteps DEF StampsFollowRealTime
  <2> QED BY <1>1, <2>1, PhasesAdvance DEF Answered
<1>3. ASSUME NEW b \in Requests, pc'[b] = "idle"
      PROVE  answeredBefore'[b] = {}
  <2>1. pc[b] = "idle" /\ b \notin Readers
    BY <1>1, <1>3, PhasesAdvance
  <2> QED BY <1>3, <2>1, ArrivalSteps DEF StampsFollowRealTime
<1>4. ASSUME NEW b \in Requests, NEW t \in transactions', t.id \in answeredBefore'[b],
             pc'[b] = "transact_write" \/ b \in Committed'
      PROVE  Earlier(stamp'[t.id], stamp'[b])
  <2>1. pc[t.id] = "done"
    BY <1>2, <1>4
  <2>2. t \in transactions
    BY <1>4, <2>1, NewEntry DEF Commit, CommitSubscribe, CommitCancel
  <2>3. stamp'[t.id] = stamp[t.id] /\ Earlier(stamp[t.id], clock)
    BY <2>2, StampsStay DEF StampsArePast
  <2>4. CASE stamp'[b] = clock
    BY <2>3, <2>4
  <2>5. CASE stamp'[b] # clock
    <3>1. stamp'[b] = stamp[b]
      BY <2>5, ClockSteps
    <3>2. pc[b] = "transact_write" \/ b \in Committed
      <4>1. CASE pc'[b] = "transact_write"
        BY <2>5, <4>1, StampedAtWrite
      <4>2. CASE b \in Committed' /\ b \notin Committed
        BY <1>1, <4>2, OnlyCommitEnters DEF Commit, CommitSubscribe, CommitCancel
      <4> QED BY <1>4, <4>1, <4>2
    <3>3. pc[b] # "idle"
      BY <3>2 DEF LedgerFromRequests, Committed
    <3>4. answeredBefore'[b] = answeredBefore[b]
      BY <3>3, ArrivalSteps
    <3>5. Precedes(t.id, b)
      BY <1>4, <3>4 DEF Precedes
    <3> QED BY <2>2, <2>3, <3>1, <3>2, <3>5 DEF StampsFollowRealTime
  <2> QED BY <2>4, <2>5
<1> QED
  BY <1>2, <1>3, <1>4 DEF StampsFollowRealTime, Precedes, Answered

(* The OPEN that came before stays there. *)
LEMMA OpenedStays ==
  ASSUME HistoryTypeOK, TypeOK, LedgerFromRequests, [HistoryNext]_allVars,
         NEW c, NEW f, NEW now, OpenedBefore(c, f, now)
  PROVE  \E u \in transactions' :
           u.type = "OPEN" /\ Position(u) = <<c, f>> /\ Earlier(stamp'[u.id], now)
<1>1. transactions \subseteq transactions'
  BY HistoryStepIsServiceStep, LedgerGrows
<1> QED BY <1>1, StampsStay DEF OpenedBefore

(* ... also as the clock advances. *)
LEMMA OpenedBeforeNow ==
  ASSUME HistoryTypeOK, TypeOK, LedgerFromRequests, [HistoryNext]_allVars,
         NEW c, NEW f, OpenedBefore(c, f, clock)
  PROVE  OpenedBefore(c, f, clock)'
<1>1. PICK u \in transactions :
        u.type = "OPEN" /\ Position(u) = <<c, f>> /\ Earlier(stamp[u.id], clock)
  BY DEF OpenedBefore
<1>2. u \in transactions' /\ u.id \in Requests /\ stamp'[u.id] = stamp[u.id]
  BY HistoryStepIsServiceStep, LedgerGrows, StampsStay
<1>3. Earlier(stamp'[u.id], clock')
  BY <1>1, <1>2, ClockSteps, EarlierOrder DEF HistoryTypeOK
<1> QED BY <1>1, <1>2, <1>3 DEF OpenedBefore, Position

LEMMA CancelsWereOpenedStep ==
  ASSUME HistoryTypeOK, TypeOK, TypeOK', LedgerFromRequests, StampsArePast,
         CancelsWereOpened, [HistoryNext]_allVars
  PROVE  CancelsWereOpened'
<1>1. [Next]_vars
  BY HistoryStepIsServiceStep
<1>2. ASSUME NEW c \in Clients, NEW f \in Funds,
             subscriptions'[<<c, f>>] # NoItem
               \/ staleSubscriptions'[<<c, f>>] # NoItem
      PROVE  OpenedBefore(c, f, clock)'
  <2>1. CASE subscriptions[<<c, f>>] # NoItem
               \/ staleSubscriptions[<<c, f>>] # NoItem
    BY <2>1, OpenedBeforeNow DEF CancelsWereOpened
  <2>2. CASE /\ subscriptions[<<c, f>>] = NoItem
             /\ staleSubscriptions[<<c, f>>] = NoItem
    <3>1. staleSubscriptions'[<<c, f>>] = NoItem
      BY <1>1, <2>2, ReplicaSteps
      DEF replicas, CatchUp, Replicate, TypeOK, TableTypeOK, Holdings
    <3>2. subscriptions' # subscriptions
      BY <1>2, <2>2, <3>1
    <3>3. PICK r \in Requests : Commit(r)
      BY <1>1, <3>2, StepKinds DEF Expire, ExpireIdempotencyRecord
    <3>4. <<c, f>> = <<cmd[r].client, cmd[r].fund>> /\ cmd[r].op = "SUBSCRIBE"
      <4> DEFINE h == <<cmd[r].client, cmd[r].fund>>
      <4>1. /\ subscriptions' = [subscriptions EXCEPT ![h] =
                 IF cmd[r].op = "SUBSCRIBE" THEN draft[r].amount ELSE NoItem]
            /\ cmd[r].op \in {"SUBSCRIBE", "CANCEL"}
        BY <3>3, CommitWrites DEF Operations
      <4>2. subscriptions'[<<c, f>>] # NoItem /\ subscriptions[<<c, f>>] = NoItem
        BY <1>2, <2>2, <3>1
      <4>3. <<c, f>> \in Holdings /\ DOMAIN subscriptions = Holdings
        BY DEF Holdings, TypeOK, TableTypeOK
      <4> HIDE DEF h
      <4>4. <<c, f>> = h /\ cmd[r].op = "SUBSCRIBE"
        BY <4>1, <4>2, <4>3
      <4> QED BY <4>4 DEF h
    <3>5. transactions' # transactions
      BY <3>3, CommitEntry
    <3>6. PICK s \in Requests, t \in TransactionItems :
            /\ Commit(s)
            /\ transactions' = transactions \cup {t}
            /\ t.id = s
            /\ t.client = cmd[s].client
            /\ t.fund = cmd[s].fund
            /\ t.type = TransactionTypeOf(cmd[s].op)
            /\ Earlier(stamp[s], clock)
            /\ UNCHANGED historyVars
      BY <3>5, NewEntry
    <3>7. s = r
      BY <3>3, <3>6, CommitLocals DEF TypeOK, LocalsTypeOK
    <3> QED
      BY <3>4, <3>6, <3>7 DEF OpenedBefore, Position, TransactionTypeOf, historyVars
  <2> QED BY <2>1, <2>2
<1>3. ASSUME NEW r \in Requests, pc'[r] = "transact_write", cmd'[r].op = "CANCEL"
      PROVE  OpenedBefore(cmd[r].client, cmd[r].fund, stamp[r])'
  <2>1. CASE pc[r] = "transact_write" /\ cmd'[r] = cmd[r]
    <3>1. stamp'[r] = stamp[r]
      BY <2>1, ClockSteps
    <3>2. OpenedBefore(cmd[r].client, cmd[r].fund, stamp[r])
      BY <1>3, <2>1 DEF CancelsWereOpened
    <3> QED BY <2>1, <3>1, <3>2, OpenedStays DEF OpenedBefore, Position
  <2>2. CASE ValidateSubscribe(r)
    BY <1>3, <2>2 DEF ValidateSubscribe
  <2>3. CASE ValidateCancel(r)
    <3>1. /\ cmd' = cmd
          /\ \E amount \in GetSubscription(cmd[r].client, cmd[r].fund) :
               amount # NoItem
      BY <1>3, <2>3 DEF ValidateCancel, Raise, Return, Goto, TypeOK, LocalsTypeOK
    <3>2. cmd[r].client \in Clients /\ cmd[r].fund \in Funds
      BY <2>3, InFlightTyping DEF ValidateCancel, TypeOK
    <3>3. OpenedBefore(cmd[r].client, cmd[r].fund, clock)
      BY <3>1, <3>2 DEF GetSubscription, Answers, CancelsWereOpened
    <3>4. stamp'[r] = clock
      BY <1>3, <2>3, StampedAtWrite DEF ValidateCancel
    <3> QED BY <3>1, <3>3, <3>4, OpenedStays DEF OpenedBefore, Position
  <2> QED BY <1>1, <1>3, <2>1, <2>2, <2>3, TransactWriteFrom
<1>4. ASSUME NEW t \in transactions', t.type = "CANCEL"
      PROVE  OpenedBefore(t.client, t.fund, stamp[t.id])'
  <2>1. CASE t \in transactions
    <3>1. stamp'[t.id] = stamp[t.id]
      BY <2>1, StampsStay
    <3>2. OpenedBefore(t.client, t.fund, stamp[t.id])
      BY <1>4, <2>1 DEF CancelsWereOpened
    <3> QED BY <3>1, <3>2, OpenedStays DEF OpenedBefore, Position
  <2>2. CASE t \notin transactions
    <3>1. PICK r \in Requests :
            /\ Commit(r)
            /\ t.id = r
            /\ t.client = cmd[r].client
            /\ t.fund = cmd[r].fund
            /\ t.type = TransactionTypeOf(cmd[r].op)
            /\ stamp'[r] = stamp[r]
      BY <1>4, <2>2, NewEntry DEF historyVars
    <3>2. pc[r] = "transact_write" /\ cmd[r].op = "CANCEL"
      BY <1>4, <3>1, CommitLocals, CommitWrites DEF TransactionTypeOf, Operations
    <3>3. OpenedBefore(cmd[r].client, cmd[r].fund, stamp[r])
      BY <3>2 DEF CancelsWereOpened
    <3> QED BY <3>1, <3>3, OpenedStays DEF OpenedBefore, Position
  <2> QED BY <2>1, <2>2
<1> QED BY <1>2, <1>3, <1>4 DEF CancelsWereOpened

LEMMA PagesInOrderStep ==
  ASSUME HistoryTypeOK, HistoryTypeOK', TypeOK, LedgerFromRequests,
         StampsFollowRealTime, PagesInOrder, [HistoryNext]_allVars,
         NEW q \in Readers
  PROVE  PageInOrder(q)'
<1> DEFINE SortsBeforeNext(t, u) ==
      KeyLess(IsoFormat(stamp'[t.id]), IsoFormat(stamp'[u.id]))
<1>1. transactions \subseteq transactions'
  BY HistoryStepIsServiceStep, LedgerGrows
<1>2. \A t, u \in transactions : SortsBeforeNext(t, u) <=> SortsBefore(t, u)
  BY StampsStay DEF SortsBefore
<1>3. PageInOrder(q)
  BY DEF PagesInOrder
<1>4. SUFFICES /\ Range(page'[q]) \subseteq transactions'
               /\ phase'[q] # "listed" => page'[q] = <<>>
               /\ phase'[q] # "idle" => asked'[q] \in Clients
               /\ \A i, j \in DOMAIN page'[q] :
                    i < j => ~SortsBeforeNext(page'[q][i], page'[q][j])
               /\ ~StaleReads =>
                    \A t \in transactions' \ Range(page'[q]),
                       u \in Range(page'[q]) :
                      t.client = asked'[q] /\ t.id \in answeredBefore'[q]
                        => ~SortsBeforeNext(u, t)
  BY DEF PageInOrder, Precedes, SortsBefore, Range
<1> HIDE DEF SortsBeforeNext
<1>5. \A i \in DOMAIN page'[q] : page'[q][i] \in Range(page'[q])
  BY DEF Range
<1>6. CASE ListTransactions(q) /\ phase'[q] = "listed" /\ asked'[q] = asked[q]
  <2>1. phase[q] # "idle" /\ transactions' = transactions
    BY <1>6 DEF ListTransactions, vars, table, items
  <2>2. asked[q] \in Clients
    BY <1>3, <2>1 DEF PageInOrder
  <2>3. Range(page'[q]) \subseteq transactions
    BY <1>6, PageListed
  <2>4. \A i, j \in DOMAIN page'[q] :
          i < j => ~SortsBeforeNext(page'[q][i], page'[q][j])
    <3> SUFFICES ASSUME NEW i \in DOMAIN page'[q], NEW j \in DOMAIN page'[q], i < j
                 PROVE  ~SortsBeforeNext(page'[q][i], page'[q][j])
      OBVIOUS
    <3>1. ~SortsBefore(page'[q][i], page'[q][j])
      BY <1>6, PageListed
    <3> QED BY <1>2, <1>5, <2>3, <3>1
  <2>5. ASSUME ~StaleReads, NEW t \in transactions' \ Range(page'[q]),
               NEW u \in Range(page'[q]), t.client = asked[q]
        PROVE  ~SortsBeforeNext(u, t)
    <3>1. ~SortsBefore(u, t)
      BY <1>6, <2>1, <2>5, PageListed
    <3> QED BY <1>2, <2>1, <2>3, <2>5, <3>1
  <2> QED BY <1>6, <2>1, <2>2, <2>3, <2>4, <2>5
<1>7. CASE /\ page'[q] = page[q]
           /\ ~(/\ ListTransactions(q)
                /\ phase'[q] = "listed"
                /\ asked'[q] = asked[q])
  <2>1. Range(page[q]) \subseteq transactions
    BY <1>3 DEF PageInOrder
  <2>2. \/ phase'[q] = phase[q] /\ asked'[q] = asked[q]
        \/ phase[q] = "idle" /\ phase'[q] = "get_client" /\ asked'[q] \in Clients
        \/ /\ phase[q] = "get_client"
           /\ phase'[q] \in {"ClientNotFound", "list_transactions"}
           /\ asked'[q] = asked[q]
    BY <1>7, ReaderSteps DEF ReaderMoves
  <2>3. \A i, j \in DOMAIN page'[q] :
          i < j => ~SortsBeforeNext(page'[q][i], page'[q][j])
    BY <1>2, <1>3, <1>5, <1>7, <2>1 DEF PageInOrder
  <2>4. ASSUME ~StaleReads, NEW t \in transactions' \ Range(page[q]),
               NEW u \in Range(page[q]),
               t.client = asked'[q], t.id \in answeredBefore'[q]
        PROVE  ~SortsBeforeNext(u, t)
    <3>1. page[q] # <<>>
      BY <2>4 DEF Range
    <3>2. phase[q] = "listed"
      BY <1>3, <3>1 DEF PageInOrder
    <3>3. asked'[q] = asked[q]
      BY <2>2, <3>2
    <3>4. answeredBefore'[q] = answeredBefore[q]
      BY <3>2, ArrivalSteps
    <3>5. pc[t.id] = "done"
      BY <2>4, <3>4 DEF StampsFollowRealTime, Answered
    <3>6. t \in transactions
      BY <2>4, <3>5, NewEntry DEF Commit, CommitSubscribe, CommitCancel
    <3>7. ~SortsBefore(u, t)
      BY <1>3, <2>4, <3>3, <3>4, <3>6 DEF PageInOrder, Precedes
    <3> QED BY <1>2, <2>1, <2>4, <3>6, <3>7
  <2>5. phase'[q] # "listed" => page'[q] = <<>>
    BY <1>3, <1>7, <2>2 DEF PageInOrder
  <2>6. phase'[q] # "idle" => asked'[q] \in Clients
    BY <1>3, <2>2 DEF PageInOrder
  <2>7. Range(page'[q]) = Range(page[q])
    BY <1>7 DEF Range
  <2>8. Range(page'[q]) \subseteq transactions'
    BY <1>1, <2>1, <2>7
  <2>9. ~StaleReads =>
          \A t \in transactions' \ Range(page'[q]), u \in Range(page'[q]) :
            t.client = asked'[q] /\ t.id \in answeredBefore'[q]
              => ~SortsBeforeNext(u, t)
    BY <2>4, <2>7
  <2> QED BY <2>3, <2>5, <2>6, <2>8, <2>9
<1> QED BY <1>6, <1>7, ReaderSteps DEF ReaderMoves

-------------------------------------------------------------------------------
(* The newest entry of a position.                                         *)

(* Entries already there keep their order, in instants and in real time. *)
LEMMA EntriesKeepOrder ==
  ASSUME HistoryTypeOK, TypeOK, LedgerFromRequests, [HistoryNext]_allVars,
         NEW t \in transactions, NEW u \in transactions
  PROVE  /\ SortsBefore(t, u)' <=> SortsBefore(t, u)
         /\ Precedes(t.id, u.id)' <=> Precedes(t.id, u.id)
<1>1. stamp'[t.id] = stamp[t.id] /\ stamp'[u.id] = stamp[u.id]
  BY StampsStay
<1>2. u.id \in Requests /\ u.id \notin Readers /\ pc[u.id] # "idle"
  BY DEF TypeOK, TableTypeOK, TransactionItems, LedgerFromRequests
<1>3. answeredBefore'[u.id] = answeredBefore[u.id]
  BY <1>2, ArrivalSteps
<1> QED BY <1>1, <1>3 DEF SortsBefore, Precedes

(* A position changes in the step that enters something in its ledger. *)
LEMMA PositionSteps ==
  ASSUME HistoryTypeOK, TypeOK, LedgerFromRequests, [HistoryNext]_allVars,
         NEW c \in Clients, NEW f \in Funds
  PROVE  \/ /\ transactions' = transactions
            /\ subscriptions'[<<c, f>>] = subscriptions[<<c, f>>]
         \/ \E r \in Requests, t \in TransactionItems :
              /\ pc[r] = "transact_write"
              /\ transactions' = transactions \cup {t}
              /\ t.id = r
              /\ r \notin Committed
              /\ UNCHANGED historyVars
              /\ IF Position(t) = <<c, f>>
                 THEN t.type = IF subscriptions'[<<c, f>>] = NoItem
                               THEN "CANCEL" ELSE "OPEN"
                 ELSE subscriptions'[<<c, f>>] = subscriptions[<<c, f>>]
<1>1. CASE transactions' = transactions
  <2>1. ASSUME NEW r \in Requests PROVE ~Commit(r)
    BY <1>1, CommitEntry
  <2>2. subscriptions' = subscriptions
    BY <2>1, HistoryStepIsServiceStep, StepKinds
    DEF Expire, ExpireIdempotencyRecord
  <2> QED BY <1>1, <2>2
<1>2. CASE transactions' # transactions
  <2>1. PICK r \in Requests, t \in TransactionItems :
          /\ Commit(r)
          /\ transactions' = transactions \cup {t}
          /\ t.id = r
          /\ t.client = cmd[r].client
          /\ t.fund = cmd[r].fund
          /\ t.type = TransactionTypeOf(cmd[r].op)
          /\ UNCHANGED historyVars
    BY <1>2, NewEntry
  <2> DEFINE h == <<cmd[r].client, cmd[r].fund>>
  <2>2. /\ pc[r] = "transact_write"
        /\ h \in Holdings
        /\ draft[r].amount # NoItem
        /\ cmd[r].op \in Operations
        /\ subscriptions' = [subscriptions EXCEPT ![h] =
             IF cmd[r].op = "SUBSCRIBE" THEN draft[r].amount ELSE NoItem]
    BY <2>1, CommitLocals, CommitWrites, InFlightTyping, DomainAssumption
    DEF TypeOK
  <2>3. r \notin Committed
    BY <2>2 DEF LedgerFromRequests, Committed
  <2>4. Position(t) = h
    BY <2>1 DEF Position
  <2>5. CASE <<c, f>> = h
    <3>1. subscriptions'[<<c, f>>] =
            IF cmd[r].op = "SUBSCRIBE" THEN draft[r].amount ELSE NoItem
      BY <2>2, <2>5 DEF TypeOK, TableTypeOK
    <3>2. t.type = IF subscriptions'[<<c, f>>] = NoItem THEN "CANCEL" ELSE "OPEN"
      BY <2>1, <2>2, <3>1 DEF TransactionTypeOf
    <3> QED BY <2>1, <2>2, <2>3, <2>4, <2>5, <3>2
  <2>6. CASE <<c, f>> # h
    <3>1. subscriptions'[<<c, f>>] = subscriptions[<<c, f>>]
      BY <2>2, <2>6 DEF TypeOK, TableTypeOK, Holdings
    <3> QED BY <2>1, <2>2, <2>3, <2>4, <2>6, <3>1
  <2> QED BY <2>5, <2>6
<1> QED BY <1>1, <1>2

(* NewestTellsHoldings is kept: whoever enters something in a position     *)
(* whose requests do not overlap arrived after all the others were         *)
(* answered, so its entry is the newest.                                   *)
LEMMA NewestTellsHoldingsStep ==
  ASSUME HistoryTypeOK, HistoryTypeOK', TypeOK, TypeOK', LedgerFromRequests,
         StampsFollowRealTime, NewestTellsHoldings, [HistoryNext]_allVars
  PROVE  NewestTellsHoldings'
<1> SUFFICES ASSUME NEW c \in Clients, NEW f \in Funds, OneAfterAnother(c, f)'
             PROVE  NewestTellsHolding(c, f)'
  BY DEF NewestTellsHoldings
<1> DEFINE Here == {t \in transactions : Position(t) = <<c, f>>}
<1>1. transactions \subseteq transactions'
  BY HistoryStepIsServiceStep, LedgerGrows
<1>2. OneAfterAnother(c, f)
  BY <1>1, EntriesKeepOrder DEF OneAfterAnother, Position
<1>3. {t.type : t \in Newest(c, f)} =
        IF subscriptions[<<c, f>>] # NoItem THEN {"OPEN"}
        ELSE IF Here # {} THEN {"CANCEL"} ELSE {}
  BY <1>2 DEF NewestTellsHoldings, NewestTellsHolding
<1>4. ASSUME {t \in transactions' : Position(t) = <<c, f>>} = Here
      PROVE  Newest(c, f)' = Newest(c, f)
  BY <1>1, <1>4, EntriesKeepOrder DEF Newest, Position
<1>5. CASE /\ transactions' = transactions
           /\ subscriptions'[<<c, f>>] = subscriptions[<<c, f>>]
  BY <1>3, <1>4, <1>5 DEF NewestTellsHolding, Position
<1>6. ASSUME NEW r \in Requests, NEW t \in TransactionItems,
             pc[r] = "transact_write", transactions' = transactions \cup {t},
             t.id = r, r \notin Committed, UNCHANGED historyVars,
             IF Position(t) = <<c, f>>
             THEN t.type = IF subscriptions'[<<c, f>>] = NoItem
                           THEN "CANCEL" ELSE "OPEN"
             ELSE subscriptions'[<<c, f>>] = subscriptions[<<c, f>>]
      PROVE  NewestTellsHolding(c, f)'
  <2>1. CASE Position(t) # <<c, f>>
    BY <1>3, <1>4, <1>6, <2>1 DEF NewestTellsHolding, Position
  <2>2. CASE Position(t) = <<c, f>>
    <3>1. ASSUME NEW u \in Here
          PROVE  u.id \in Requests /\ Earlier(stamp[u.id], stamp[r])
      <4>1. u.id \in Requests /\ u.id # r
        BY <1>6 DEF Committed, TypeOK, TableTypeOK, TransactionItems
      <4>2. Precedes(u.id, r) \/ Precedes(r, u.id)
        BY <1>6, <2>2, <4>1 DEF OneAfterAnother, historyVars, Precedes
      <4>3. ~Precedes(r, u.id)
        BY <1>6, <4>1 DEF StampsFollowRealTime, Precedes, Answered
      <4> QED BY <1>6, <4>1, <4>2, <4>3 DEF StampsFollowRealTime
    <3>2. stamp' = stamp
      BY <1>6 DEF historyVars
    <3>3. ASSUME NEW u \in Here
          PROVE  SortsBefore(u, t)' /\ ~SortsBefore(t, u)'
      <4>1. stamp[u.id] \in Instants /\ stamp[r] \in Instants
        BY <3>1 DEF HistoryTypeOK
      <4> QED
        BY <1>6, <3>1, <3>2, <4>1, KeyOrder, EarlierOrder DEF SortsBefore
    <3>4. ~SortsBefore(t, t)'
      <4>1. stamp[r] \in Instants
        BY <1>6 DEF HistoryTypeOK
      <4> QED BY <1>6, <3>2, <4>1, KeyOrder, EarlierOrder DEF SortsBefore
    <3>5. Newest(c, f)' = {t}
      BY <1>6, <2>2, <3>3, <3>4 DEF Newest, Position
    <3> QED BY <1>6, <2>2, <3>5 DEF NewestTellsHolding, Position
  <2> QED BY <2>1, <2>2
<1> QED BY <1>5, <1>6, PositionSteps

-------------------------------------------------------------------------------
(* The invariant, initially and at every step.                             *)

LEMMA InitHistory == HistoryInit => HistoryInv
<1> SUFFICES ASSUME HistoryInit PROVE HistoryInv
  OBVIOUS
<1> USE DEF HistoryInit, Init, InitTable
<1>1. Epoch \in Instants /\ ~Earlier(Epoch, Epoch)
  BY DEF Epoch, Instants, Earlier
<1>2. HistoryTypeOK
  BY <1>1 DEF HistoryTypeOK, ReadPhases
<1>3. StampsArePast
  BY <1>1 DEF StampsArePast
<1>4. StampsFollowRealTime
  BY DEF StampsFollowRealTime, Answered, Precedes
<1>5. CancelsWereOpened
  BY DEF CancelsWereOpened, Holdings
<1>6. ASSUME NEW q \in Readers
      PROVE  PageInOrder(q)
  <2>1. page[q] = <<>> /\ Range(page[q]) = {}
    BY DEF Range
  <2> QED BY <2>1 DEF PageInOrder
<1> QED BY <1>2, <1>3, <1>4, <1>5, <1>6 DEF HistoryInv, PagesInOrder

LEMMA NextHistory == IInv /\ IInv' /\ HistoryInv /\ [HistoryNext]_allVars => HistoryInv'
<1> SUFFICES ASSUME IInv, IInv', HistoryInv, [HistoryNext]_allVars
             PROVE  HistoryInv'
  OBVIOUS
<1> USE DEF IInv, HistoryInv
<1>1. HistoryTypeOK'
  BY HistoryTypeOKStep
<1>2. StampsArePast'
  BY StampsArePastStep
<1>3. StampsFollowRealTime'
  BY StampsFollowRealTimeStep
<1>4. CancelsWereOpened'
  BY CancelsWereOpenedStep
<1>5. PagesInOrder'
  BY <1>1, PagesInOrderStep DEF PagesInOrder
<1> QED BY <1>1, <1>2, <1>3, <1>4, <1>5

-------------------------------------------------------------------------------
(* Theorems.                                                               *)

(* The clock, the instants and the readers take nothing from the service:  *)
(* whatever holds of FundService holds of it here.                         *)
THEOREM HistoryRefinesService == HistorySpec => Spec
<1>1. HistoryInit => Init
  BY DEF HistoryInit
<1> QED
  BY <1>1, HistoryStepIsServiceStep, PTL DEF HistorySpec, Spec, allVars

(* HistoryInv holds for any clients, requests, readers, clock and page     *)
(* size, with current or stale reads.                                      *)
THEOREM HistoryInvariant == HistorySpec => []HistoryInv
<1>1. HistorySpec => []IInv
  BY HistoryRefinesService, Invariant, PTL
<1> QED
  BY <1>1, InitHistory, NextHistory, PTL DEF HistorySpec, allVars

(* ListingRespectsRealTime: of two requests that did not overlap, no page  *)
(* shows the older above the newer, or without it.                         *)
THEOREM ListingCorrect == HistorySpec => []ListingRespectsRealTime
<1>1. ASSUME IInv, HistoryInv
      PROVE  ListingRespectsRealTime
  <2> SUFFICES ASSUME NEW q \in Readers, NEW i \in DOMAIN page[q],
                      NEW t \in transactions,
                      Precedes(page[q][i].id, t.id),
                      t.client = asked[q],
                      \/ t \in Range(page[q])
                      \/ Precedes(t.id, q) /\ ~StaleReads
               PROVE  \E j \in 1..(i - 1) : page[q][j] = t
    BY DEF ListingRespectsRealTime
  <2>1. PageInOrder(q)
    BY <1>1 DEF HistoryInv, PagesInOrder
  <2> DEFINE u == page[q][i]
  <2>2. u \in Range(page[q]) /\ u \in transactions
    BY <2>1 DEF PageInOrder, Range
  <2>3. /\ t.id \in Requests /\ u.id \in Requests
        /\ t.id \in Committed
    BY <1>1, <2>2 DEF IInv, TypeOK, TableTypeOK, TransactionItems, Committed
  <2>4. Earlier(stamp[u.id], stamp[t.id])
    BY <1>1, <2>2, <2>3 DEF HistoryInv, StampsFollowRealTime
  <2>5. SortsBefore(u, t) /\ ~Earlier(stamp[u.id], stamp[u.id])
    BY <1>1, <2>3, <2>4, KeyOrder, EarlierOrder
    DEF SortsBefore, HistoryInv, HistoryTypeOK
  <2>6. t \in Range(page[q])
    BY <2>1, <2>2, <2>5 DEF PageInOrder
  <2>7. PICK j \in DOMAIN page[q] : page[q][j] = t
    BY <2>6 DEF Range
  <2>8. DOMAIN page[q] = 1..Len(page[q]) /\ Len(page[q]) \in Nat
    BY <1>1 DEF HistoryInv, HistoryTypeOK
  <2>9. j # i
    BY <2>4, <2>5, <2>7
  <2>10. ~(i < j)
    BY <2>1, <2>5, <2>7 DEF PageInOrder
  <2> QED BY <2>7, <2>8, <2>9, <2>10
<1>2. HistorySpec => []IInv
  BY HistoryRefinesService, Invariant, PTL
<1> QED BY <1>1, <1>2, HistoryInvariant, PTL

(* CancelsFollowAnOpen: no listing starts a position with a cancellation,  *)
(* even if a lagging replica told the request of its subscription.         *)
THEOREM CancelsCorrect == HistorySpec => []CancelsFollowAnOpen
<1>1. ASSUME IInv, HistoryInv
      PROVE  CancelsFollowAnOpen
  <2> SUFFICES ASSUME NEW t \in transactions, t.type = "CANCEL"
               PROVE  \E u \in transactions :
                        /\ u.type = "OPEN"
                        /\ Position(u) = Position(t)
                        /\ SortsBefore(u, t)
    BY DEF CancelsFollowAnOpen
  <2>1. PICK u \in transactions :
          /\ u.type = "OPEN"
          /\ Position(u) = <<t.client, t.fund>>
          /\ Earlier(stamp[u.id], stamp[t.id])
    BY <1>1 DEF HistoryInv, CancelsWereOpened, OpenedBefore
  <2>2. t.id \in Requests /\ u.id \in Requests
    BY <1>1 DEF IInv, TypeOK, TableTypeOK, TransactionItems
  <2>3. SortsBefore(u, t)
    BY <1>1, <2>1, <2>2, KeyOrder DEF SortsBefore, HistoryInv, HistoryTypeOK
  <2> QED BY <2>1, <2>3 DEF Position
<1>2. HistorySpec => []IInv
  BY HistoryRefinesService, Invariant, PTL
<1> QED BY <1>1, <1>2, HistoryInvariant, PTL

(* NewestTellsHoldings: the history of a position whose requests did not   *)
(* overlap can be read as its state, with current or stale reads.          *)
THEOREM NewestCorrect == HistorySpec => []NewestTellsHoldings
<1>1. HistoryInit => NewestTellsHoldings
  <2> SUFFICES ASSUME HistoryInit, NEW c \in Clients, NEW f \in Funds
               PROVE  /\ transactions = {}
                      /\ subscriptions[<<c, f>>] = NoItem
    BY DEF NewestTellsHoldings, NewestTellsHolding, Newest
  <2> QED BY DEF HistoryInit, Init, InitTable, Holdings
<1>2. IInv /\ IInv' /\ HistoryInv /\ HistoryInv' /\ NewestTellsHoldings
        /\ [HistoryNext]_allVars => NewestTellsHoldings'
  BY NewestTellsHoldingsStep DEF IInv, HistoryInv
<1>3. HistorySpec => []IInv
  BY HistoryRefinesService, Invariant, PTL
<1> QED
  BY <1>1, <1>2, <1>3, HistoryInvariant, PTL DEF HistorySpec, allVars
===============================================================================
