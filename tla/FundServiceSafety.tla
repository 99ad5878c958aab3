--------------------------- MODULE FundServiceSafety --------------------------
(***************************************************************************)
(* Correctness of FundService: its invariants, the action properties of    *)
(* its error answers, the inductive invariant the proofs rest on, and the  *)
(* two abstract specifications it is compared with.                        *)
(***************************************************************************)
EXTENDS FundService, FiniteSetsExt

(* Ledger entries for one position, by type. *)
Entries(type, c, f) ==
  {t \in transactions : t.type = type /\ t.client = c /\ t.fund = f}

(* Ledger entries made by requests that carried key k. *)
EntriesUnder(k) == {t \in transactions : cmd[t.id].key = k}

Committed == {t.id : t \in transactions}

TransactionTypeOf(op) == IF op = "SUBSCRIBE" THEN "OPEN" ELSE "CANCEL"

TransactionItems == [id : Requests, client : Clients, type : TransactionTypes,
                     fund : Funds, amount : Money]

-------------------------------------------------------------------------------
(* Invariants.                                                             *)

(* The table's items have the shapes the mappers give them. *)
TableTypeOK ==
  /\ profiles \in [Clients -> Money \cup {NoItem}]
  /\ staleProfiles \in [Clients -> Money \cup {NoItem}]
  /\ subscriptions \in [Holdings -> Money \cup {NoItem}]
  /\ staleSubscriptions \in [Holdings -> Money \cup {NoItem}]
  /\ idempotency \in [Keys -> IdempotencyRecords \cup {NoItem}]
  /\ staleIdempotency \in [Keys -> IdempotencyRecords \cup {NoItem}]
  /\ transactions \subseteq TransactionItems
  /\ expiries \in [Keys -> Nat]

(* The local variables of a request, and what each phase relies on. *)
LocalsTypeOK ==
  /\ pc \in [Requests -> Phases]
  /\ cmd \in [Requests -> Commands \cup {NoItem}]
  /\ draft \in [Requests -> Drafts]
  /\ found \in [Requests -> IdempotencyRecords \cup {NoItem}]
  /\ reply \in [Requests -> Replies]
  /\ notified \subseteq Requests
  /\ \A r \in Requests :
       /\ pc[r] # "idle" => cmd[r] \in Commands
       /\ pc[r] = "idle" => found[r] = NoItem
       /\ pc[r] \in {"get_idempotency_result", "rebuild_client",
                     "replay_or_conflict", "rebuild_replay"}
            => cmd[r].key \in Keys
       /\ pc[r] \in {"rebuild_client", "rebuild_replay"} => found[r] # NoItem

(* Type invariant.  It says in particular that no balance a request        *)
(* computes or stores is negative (Money would raise) and that no phase    *)
(* uses a record or a key it does not have.                                *)
TypeOK == TableTypeOK /\ LocalsTypeOK

(* A client holds a fund exactly when the ledger has one OPEN more than    *)
(* CANCELs for it, and otherwise has as many of each: the subscription and *)
(* the OPEN or CANCEL transaction commit together whatever overlaps.       *)
HoldingsMatchLedger ==
  \A c \in Clients, f \in Funds :
    Cardinality(Entries("OPEN", c, f)) =
      Cardinality(Entries("CANCEL", c, f))
        + (IF subscriptions[<<c, f>>] = NoItem THEN 0 ELSE 1)

(* An idempotency key commits at most once while its record lives: the     *)
(* requests that carried it made one entry per record TTL has deleted and  *)
(* one more if a record is stored now.                                     *)
OneCommitPerKey ==
  \A k \in Keys :
    Cardinality(EntriesUnder(k)) =
      expiries[k] + (IF idempotency[k] = NoItem THEN 0 ELSE 1)

(* A request answered with a domain error or with a replay left nothing in *)
(* the ledger and sent nothing; one answered with the client it wrote is   *)
(* in the ledger.  Only a 500 leaves the caller in doubt.                  *)
AnswersMatchLedger ==
  \A r \in Requests :
    /\ reply[r].kind \in DomainErrors \cup {"Replayed"} =>
         r \notin Committed \cup notified
    /\ reply[r].kind = "Client" => r \in Committed

(* A replayed answer is the answer of a request that did commit under the  *)
(* same key: same client, and the balance that request wrote.              *)
ReplayHasOrigin ==
  \A r \in Requests : reply[r].kind = "Replayed" =>
    \E t \in transactions :
      /\ cmd[t.id].key = cmd[r].key
      /\ t.client = reply[r].client
      /\ draft[t.id].balance = reply[r].balance

(* Idempotency as the caller sees it: while no record of a key has been    *)
(* deleted, all successful answers under the key, fresh or replayed, are   *)
(* the same answer, whichever requests gave them and in whatever order.    *)
SameKeySameAnswer ==
  \A q, r \in Requests :
    /\ {reply[q].kind, reply[r].kind} \subseteq {"Client", "Replayed"}
    /\ cmd[q].key = cmd[r].key
    /\ cmd[r].key \in Keys
    /\ expiries[cmd[r].key] = 0
    => /\ reply[q].client = reply[r].client
       /\ reply[q].balance = reply[r].balance

(* Only a subscribe that committed notifies its client. *)
NotifiedWereCommitted ==
  \A r \in notified : \E t \in transactions : t.id = r /\ t.type = "OPEN"

(* What client c has invested, by fund. *)
Invested(c) ==
  [f \in {g \in Funds : subscriptions[<<c, g>>] # NoItem} |->
     subscriptions[<<c, f>>]]

(* A client's balance and what it has invested add up to what it started   *)
(* with.  True when no two requests about the client overlap and reads are *)
(* current; the balance written by an overlapping request replaces a newer *)
(* one (SET balance = :new_balance).                                       *)
MoneyConserved ==
  \A c \in Clients : profiles[c] # NoItem =>
    profiles[c] + SumFunction(Invested(c)) = InitialBalance

(* A 2xx answer served from an idempotency record repeats the same         *)
(* operation on the same fund; a key reused for another one is a conflict. *)
ReplayMatchesRequest ==
  \A r \in Requests : reply[r].kind = "Replayed" =>
    \E t \in transactions :
      /\ cmd[t.id].key = cmd[r].key
      /\ cmd[t.id].op = cmd[r].op
      /\ t.fund = cmd[r].fund

-------------------------------------------------------------------------------
(* Action properties.                                                      *)

AnsweredNow(r, kind) == pc[r] # "done" /\ pc'[r] = "done" /\ reply'[r].kind = kind

(* A record is for the operation and the fund a command asks for. *)
RecordIsFor(record, command) ==
  record.operation = command.op /\ record.fund_id = command.fund

(* The same request, client included, is what the stored record answers. *)
RecordAnswers(command) ==
  /\ command.key # NoKey
  /\ idempotency[command.key] # NoItem
  /\ RecordIsFor(idempotency[command.key], command)
  /\ idempotency[command.key].client_id = command.client

(* A request refused as already subscribed, or not subscribed, is not one  *)
(* whose own result is stored: a duplicate is replayed, never refused.     *)
DuplicateIsReplayed ==
  [][\A r \in Requests :
       AnsweredNow(r, "AlreadySubscribed") \/ AnsweredNow(r, "NotSubscribed")
         => ~RecordAnswers(cmd[r])]_vars

(* A write refused while no other write is pending is refused by a         *)
(* condition expression: the error names the condition that failed, and a  *)
(* balance that no longer covers the minimum is not reported as a          *)
(* subscription.                                                           *)
RefusedWriteTellsWhy ==
  [][\A r \in Requests :
       /\ pc[r] = "transact_write"
       /\ \A q \in Requests \ {r} : pc[q] # "transact_write"
       /\ AnsweredNow(r, "AlreadySubscribed")
       => subscriptions[<<cmd[r].client, cmd[r].fund>>] # NoItem]_vars

(* A conflict is answered only when the key's stored record is for another *)
(* operation or fund.                                                      *)
ConflictMeansMismatch ==
  [][\A r \in Requests : AnsweredNow(r, "IdempotencyConflict") =>
       /\ idempotency[cmd[r].key] # NoItem
       /\ ~RecordIsFor(idempotency[cmd[r].key], cmd[r])]_vars

(* How far a request is, whichever way it takes.                           *)
Progression(phase) ==
  CASE phase = "idle" -> 0
    [] phase = "get_idempotency_result" -> 1
    [] phase = "rebuild_client" -> 2
    [] phase = "get_client" -> 3
    [] phase = "get_subscription" -> 4
    [] phase = "transact_write" -> 5
    [] phase \in {"replay_or_conflict", "notify"} -> 6
    [] phase \in {"rebuild_replay", "respond"} -> 7
    [] phase = "done" -> 8

(* Every call a request makes brings it nearer to its answer: no path      *)
(* leads back to a call already made, so a request makes at most seven,    *)
(* and an answer, once given, is final.                                    *)
RequestsAdvance ==
  [][\A r \in Requests :
       /\ Step(r) \/ pc'[r] # pc[r] =>
            Progression(pc[r]) < Progression(pc'[r])
       /\ pc[r] = "done" => reply'[r] = reply[r]]_vars

-------------------------------------------------------------------------------
(* Liveness.                                                               *)

(* Every request that reaches the service is answered: no retry loop and   *)
(* no phase it can stay in.                                                *)
EveryRequestAnswered ==
  \A r \in Requests : pc[r] # "idle" ~> pc[r] = "done"

-------------------------------------------------------------------------------
(* Refinement.                                                             *)

Ledger == INSTANCE FundLedger WITH
  held       <- {h \in Holdings : subscriptions[h] # NoItem},
  entries    <- transactions,
  remembered <- {k \in Keys : idempotency[k] # NoItem},
  sent       <- notified

(* However requests overlap, the service implements FundLedger. *)
ImplementsLedger == Ledger!Spec

Account == INSTANCE FundAccount WITH
  balance <- profiles,
  stake   <- subscriptions

(* With one request per client at a time and current reads, the service    *)
(* implements FundAccount.                                                 *)
ImplementsAccount == Account!Spec

-------------------------------------------------------------------------------
(* The inductive invariant.                                                *)

(* Each entry was made by a request that got past the write, from its own  *)
(* command, and no request made two.                                       *)
LedgerFromRequests ==
  /\ IsFiniteSet(transactions)
  /\ \A t \in transactions :
       /\ pc[t.id] \in {"notify", "respond", "done"}
       /\ t.client = cmd[t.id].client
       /\ t.fund = cmd[t.id].fund
       /\ t.type = TransactionTypeOf(cmd[t.id].op)
  /\ \A t, u \in transactions : t.id = u.id => t = u

(* A request past its write is in the ledger, notifies only an OPEN, and   *)
(* has not answered before it is done.                                     *)
PhasesMatchLedger ==
  \A r \in Requests :
    /\ pc[r] \in {"notify", "respond"} => r \in Committed
    /\ pc[r] = "notify" => cmd[r].op = "SUBSCRIBE" /\ r \notin notified
    /\ pc[r] # "done" => reply[r].kind = "Pending"

(* The entry that explains an idempotency record read or stored under k. *)
Origin(k, record) ==
  \E t \in transactions :
    /\ cmd[t.id].key = k
    /\ t.client = record.client_id
    /\ draft[t.id].balance = record.result_balance

RecordsHaveOrigin ==
  /\ \A k \in Keys :
       /\ idempotency[k] # NoItem => Origin(k, idempotency[k])
       /\ staleIdempotency[k] # NoItem => Origin(k, staleIdempotency[k])
  /\ \A r \in Requests : found[r] # NoItem => Origin(cmd[r].key, found[r])

(* Every amount invested, read or about to be written is the minimum of a  *)
(* fund of the catalog.                                                    *)
AmountsAreMinimums ==
  /\ \A c \in Clients, f \in Funds :
       /\ subscriptions[<<c, f>>] # NoItem =>
            f \in Catalog /\ subscriptions[<<c, f>>] = MinAmount[f]
       /\ staleSubscriptions[<<c, f>>] # NoItem =>
            f \in Catalog /\ staleSubscriptions[<<c, f>>] = MinAmount[f]
  /\ \A r \in Requests : pc[r] = "transact_write" =>
       cmd[r].fund \in Catalog /\ draft[r].amount = MinAmount[cmd[r].fund]

(* Inductive invariant of FundService: the safety invariants above and     *)
(* what they rest on.                                                      *)
IInv ==
  /\ TypeOK
  /\ LedgerFromRequests
  /\ PhasesMatchLedger
  /\ HoldingsMatchLedger
  /\ OneCommitPerKey
  /\ AnswersMatchLedger
  /\ RecordsHaveOrigin
  /\ ReplayHasOrigin
  /\ NotifiedWereCommitted
  /\ AmountsAreMinimums

(* A request whose write was cancelled for its key finds the key's record  *)
(* stored.                                                                 *)
TakenKeysStay ==
  \A r \in Requests :
    pc[r] = "replay_or_conflict" => idempotency[cmd[r].key] # NoItem

(* A client with an entry in the ledger has a profile. *)
LedgerClientsExist == \A t \in transactions : profiles[t.client] # NoItem

(* A fresh success shows the client the request wrote. *)
AnswersAreDrafts ==
  \A r \in Requests : reply[r].kind = "Client" =>
    reply[r].client = cmd[r].client /\ reply[r].balance = draft[r].balance

(* Inductive invariant of the answers, beside IInv. *)
RepliesInv == TakenKeysStay /\ LedgerClientsExist /\ AnswersAreDrafts

-------------------------------------------------------------------------------
(* What holds besides when requests about a client do not overlap and      *)
(* reads are current.                                                      *)

OneRequestPerClient ==
  /\ IsFiniteSet(InFlight)
  /\ \A q, r \in InFlight : cmd[q].client = cmd[r].client => q = r

(* What a request has read is what is stored, up to its write: the write   *)
(* is never refused, and sets the balance to what it should be.            *)
DraftsAreCurrent ==
  \A r \in Requests :
    LET balance == profiles[cmd[r].client]
        stake   == subscriptions[<<cmd[r].client, cmd[r].fund>>]
        amount  == draft[r].amount
    IN  /\ pc[r] = "get_subscription" =>
             balance # NoItem /\ draft[r].balance = balance
        /\ pc[r] = "transact_write" /\ cmd[r].op = "SUBSCRIBE" =>
             /\ balance # NoItem
             /\ stake = NoItem
             /\ balance >= amount
             /\ draft[r].balance = balance - amount
        /\ pc[r] = "transact_write" /\ cmd[r].op = "CANCEL" =>
             /\ balance # NoItem
             /\ stake = amount
             /\ draft[r].balance = balance + amount

(* Inductive invariant, beside IInv, when MaxPerClient = 1 and ~StaleReads. *)
PatientInv == OneRequestPerClient /\ DraftsAreCurrent
===============================================================================
