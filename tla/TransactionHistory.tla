-------------------------- MODULE TransactionHistory ---------------------------
(***************************************************************************)
(* The order of the transaction history.  Subscribe and cancel take        *)
(* created_at from the host's clock before they write (subscribe_to_fund   *)
(* and cancel_subscription), the item's sort key is that instant printed   *)
(* by isoformat, and GET /clients/{id}/transactions returns the first page *)
(* of a query in descending key order.  FundService is extended with the   *)
(* clock, with the instants its requests took, and with readers of the     *)
(* history.                                                                *)
(*                                                                         *)
(* Assumed of the environment: the hosts' clocks agree to less than the    *)
(* round trip of a write and are not set back, and now_utc's microseconds  *)
(* are shorter than that round trip.                                       *)
(***************************************************************************)
EXTENDS FundServiceSafety, Sequences

CONSTANTS
  Readers,    \* GET requests that may arrive
  MaxSecond,  \* bound: the last second of the clock
  Micros,     \* instants in a second
  PageSize    \* most entries one page of a query holds (1 MB)

ASSUME HistoryAssumption ==
  /\ Readers \cap Requests = {}
  /\ MaxSecond \in Nat
  /\ Micros \in Nat \ {0}
  /\ PageSize \in Nat \ {0}

VARIABLES
  clock,           \* the instant now_utc() would return
  stamp,           \* stamp[r]: created_at of request r's transaction
  phase,           \* phase[q]: where reader q is
  asked,           \* asked[q]: the client whose history it reads
  page,            \* page[q]: the entries it was answered
  answeredBefore   \* history: requests answered before a request arrived

readers == <<phase, asked, page>>

historyVars == <<clock, stamp, readers, answeredBefore>>

Instants == [sec : 0..MaxSecond, micro : 0..(Micros - 1)]

Earlier(s, t) == s.sec < t.sec \/ (s.sec = t.sec /\ s.micro < t.micro)

Epoch == [sec |-> 0, micro |-> 0]

-------------------------------------------------------------------------------
(* Sort keys.                                                              *)

(* Mutant: the offset is written as Z. *)
IsoFormat_Zulu(t) ==
  <<t.sec, IF t.micro = 0 THEN 90 ELSE 46, t.micro>>

(* isoformat writes the second, then the fraction, which it leaves out     *)
(* when it is zero: what follows the second is '+' (of the offset +00:00,  *)
(* character 43) or '.' (character 46) and the microseconds.               *)
IsoFormat(t) == <<t.sec, IF t.micro = 0 THEN 43 ELSE 46, t.micro>>

(* Strings are compared character by character. *)
KeyLess(k, l) ==
  \/ k[1] < l[1]
  \/ k[1] = l[1] /\ k[2] < l[2]
  \/ k[1] = l[1] /\ k[2] = l[2] /\ k[3] < l[3]

(* Entry t sorts before u.  The transaction id ends the key: entries of one *)
(* instant come in either order.                                           *)
SortsBefore(t, u) == KeyLess(IsoFormat(stamp[t.id]), IsoFormat(stamp[u.id]))

(* p is the first page of a query for these entries, ScanIndexForward      *)
(* being False.                                                            *)
IsPageOf(entries, p) ==
  /\ Len(p) = Min({PageSize, Cardinality(entries)})
  /\ \A i, j \in DOMAIN p : i < j => p[i] # p[j] /\ ~SortsBefore(p[i], p[j])
  /\ \A t \in entries \ Range(p), u \in Range(p) : ~SortsBefore(u, t)

-------------------------------------------------------------------------------
HistoryInit ==
  /\ Init
  /\ clock = Epoch
  /\ stamp = [r \in Requests |-> Epoch]
  /\ phase = [q \in Readers |-> "idle"]
  /\ asked = [q \in Readers |-> NoItem]
  /\ page = [q \in Readers |-> <<>>]
  /\ answeredBefore = [r \in Requests \cup Readers |-> {}]

Answered == {r \in Requests : pc[r] = "done"}

ArriveLater(r, command) ==
  /\ Arrive(r, command)
  /\ answeredBefore' = [answeredBefore EXCEPT ![r] = Answered]
  /\ UNCHANGED <<clock, stamp, readers>>

(* Mutant: created_at has the precision of a second. *)
NowUtc_Seconds == [clock EXCEPT !.micro = 0]

NowUtc == clock

(* Mutant: created_at is taken when execute starts. *)
Create_AtStart(r) ==
  /\ \/ GetClientProfile(r) /\ stamp' = [stamp EXCEPT ![r] = NowUtc]
     \/ (ValidateSubscribe(r) \/ ValidateCancel(r)) /\ UNCHANGED stamp
  /\ UNCHANGED <<clock, readers, answeredBefore>>

(* execute reads the client, and once the request is validated it builds    *)
(* the transaction, created now.                                           *)
Create(r) ==
  /\ \/ GetClientProfile(r) /\ UNCHANGED stamp
     \/ /\ ValidateSubscribe(r) \/ ValidateCancel(r)
        /\ stamp' = IF pc'[r] = "transact_write"
                    THEN [stamp EXCEPT ![r] = NowUtc] ELSE stamp
  /\ UNCHANGED <<clock, readers, answeredBefore>>

(* By the time the write commits, the clock has moved on. *)
CommitLater(r) ==
  /\ CommitSubscribe(r) \/ CommitCancel(r)
  /\ Earlier(stamp[r], clock)
  /\ UNCHANGED historyVars

(* The steps of FundService that neither take an instant nor write one. *)
Other ==
  /\ \/ \E r \in Requests :
          \/ GetIdempotencyResult(r)
          \/ RebuildClient(r)
          \/ ReplayOrConflict(r)
          \/ RebuildReplay(r)
          \/ KeyTaken(r)
          \/ WriteRefused(r)
          \/ WriteConflicted(r)
          \/ NotifyClient(r)
          \/ Respond(r)
          \/ Die(r)
     \/ \E k \in Keys : Expire(k)
     \/ CatchUp
     \/ AllAnswered
  /\ UNCHANGED historyVars

Tick ==
  /\ clock' \in {t \in Instants : Earlier(clock, t)}
  /\ UNCHANGED <<vars, stamp, readers, answeredBefore>>

-------------------------------------------------------------------------------
(* GET /clients/{client_id}/transactions.                                  *)

StartReading(q, c) ==
  /\ phase[q] = "idle"
  /\ asked' = [asked EXCEPT ![q] = c]
  /\ phase' = [phase EXCEPT ![q] = "get_client"]
  /\ answeredBefore' = [answeredBefore EXCEPT ![q] = Answered]
  /\ UNCHANGED <<vars, clock, stamp, page>>

ReadClient(q) ==
  /\ phase[q] = "get_client"
  /\ \E balance \in GetClient(asked[q]) :
       phase' = [phase EXCEPT
         ![q] = IF balance = NoItem THEN "ClientNotFound"
                ELSE "list_transactions"]
  /\ UNCHANGED <<vars, clock, stamp, asked, page, answeredBefore>>

(* The transactions a query may see: a lagging replica may miss any of     *)
(* them.                                                                   *)
Queried == IF StaleReads THEN SUBSET transactions ELSE {transactions}

ListTransactions(q) ==
  /\ phase[q] = "list_transactions"
  /\ \E stored \in Queried :
       LET entries == {t \in stored : t.client = asked[q]}
       IN  \E n \in 0..PageSize : \E p \in [1..n -> entries] :
             /\ IsPageOf(entries, p)
             /\ page' = [page EXCEPT ![q] = p]
  /\ phase' = [phase EXCEPT ![q] = "listed"]
  /\ UNCHANGED <<vars, clock, stamp, asked, answeredBefore>>

HistoryNext ==
  \/ \E r \in Requests, command \in Commands : ArriveLater(r, command)
  \/ \E r \in Requests : Create(r) \/ CommitLater(r)
  \/ Other
  \/ Tick
  \/ \E q \in Readers :
       \/ \E c \in Clients : StartReading(q, c)
       \/ ReadClient(q)
       \/ ListTransactions(q)

HistorySpec == HistoryInit /\ [][HistoryNext]_<<vars, historyVars>>
===============================================================================
