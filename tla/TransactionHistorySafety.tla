----------------------- MODULE TransactionHistorySafety ------------------------
(***************************************************************************)
(* What a reader of the transaction history may rely on, although the      *)
(* instants that order it are taken before the writes.                     *)
(***************************************************************************)
EXTENDS TransactionHistory

Position(t) == <<t.client, t.fund>>

(* Request a was answered before b arrived. *)
Precedes(a, b) == a \in answeredBefore[b]

ReadPhases ==
  {"idle", "get_client", "ClientNotFound", "list_transactions", "listed"}

(* Type invariant. *)
HistoryTypeOK ==
  /\ clock \in Instants
  /\ stamp \in [Requests -> Instants]
  /\ phase \in [Readers -> ReadPhases]
  /\ asked \in [Readers -> Clients \cup {NoItem}]
  /\ answeredBefore \in [Requests \cup Readers -> SUBSET Requests]
  /\ page \in [Readers -> Seq(TransactionItems)]

(* The page a reader gets never shows the older of two requests that did   *)
(* not overlap above the newer, nor the older without the newer if that    *)
(* one was answered before the reading began and reads are current: what   *)
(* a full page leaves out is old.                                          *)
ListingRespectsRealTime ==
  \A q \in Readers : \A i \in DOMAIN page[q], t \in transactions :
    LET a == page[q][i].id
    IN  /\ Precedes(a, t.id)
        /\ t.client = asked[q]
        /\ \/ t \in Range(page[q])
           \/ Precedes(t.id, q) /\ ~StaleReads
        => \E j \in 1..(i - 1) : page[q][j] = t

(* No cancellation is the first entry of its position, whatever overlaps:  *)
(* it was created after it read a subscription, so its opening committed,  *)
(* and was created, before.                                                *)
CancelsFollowAnOpen ==
  \A t \in transactions : t.type = "CANCEL" =>
    \E u \in transactions :
      /\ u.type = "OPEN"
      /\ Position(u) = Position(t)
      /\ SortsBefore(u, t)

Newest(c, f) ==
  {t \in transactions :
     /\ Position(t) = <<c, f>>
     /\ \A u \in transactions : Position(u) = <<c, f>> => ~SortsBefore(t, u)}

(* The requests that changed a position did not overlap. *)
OneAfterAnother(c, f) ==
  \A t, u \in transactions :
    Position(t) = <<c, f>> /\ Position(u) = <<c, f>>
      => t = u \/ Precedes(t.id, u.id) \/ Precedes(u.id, t.id)

(* What is newest is an OPEN if the client holds the position, and a       *)
(* CANCEL, or nothing at all, if it does not.                              *)
NewestTellsHolding(c, f) ==
  {t.type : t \in Newest(c, f)} =
    IF subscriptions[<<c, f>>] # NoItem THEN {"OPEN"}
    ELSE IF \E t \in transactions : Position(t) = <<c, f>>
         THEN {"CANCEL"} ELSE {}

(* When the requests that changed a position did not overlap, its newest   *)
(* entry says whether the client holds it, so the history can be read as   *)
(* the state of the account.                                               *)
NewestTellsHoldings ==
  \A c \in Clients, f \in Funds :
    OneAfterAnother(c, f) => NewestTellsHolding(c, f)
-------------------------------------------------------------------------------
(* The inductive invariant.                                                *)

(* An instant taken is past once its write commits. *)
StampsArePast ==
  /\ \A r \in Requests : ~Earlier(clock, stamp[r])
  /\ \A t \in transactions : Earlier(stamp[t.id], clock)

(* Whoever was answered before another arrived stays answered, and took    *)
(* its instant earlier.                                                    *)
StampsFollowRealTime ==
  /\ \A b \in Requests \cup Readers : answeredBefore[b] \subseteq Answered
  /\ \A b \in Requests : pc[b] = "idle" => answeredBefore[b] = {}
  /\ \A b \in Requests, t \in transactions :
       Precedes(t.id, b) /\ (pc[b] = "transact_write" \/ b \in Committed)
         => Earlier(stamp[t.id], stamp[b])

(* An OPEN of the position that was created before now. *)
OpenedBefore(c, f, now) ==
  \E u \in transactions :
    u.type = "OPEN" /\ Position(u) = <<c, f>> /\ Earlier(stamp[u.id], now)

(* A position held, also in the eyes of a lagging replica, has its OPEN,   *)
(* and a cancellation about to be written was created after one.           *)
CancelsWereOpened ==
  /\ \A c \in Clients, f \in Funds :
       subscriptions[<<c, f>>] # NoItem \/ staleSubscriptions[<<c, f>>] # NoItem
         => OpenedBefore(c, f, clock)
  /\ \A r \in Requests :
       pc[r] = "transact_write" /\ cmd[r].op = "CANCEL"
         => OpenedBefore(cmd[r].client, cmd[r].fund, stamp[r])
  /\ \A t \in transactions :
       t.type = "CANCEL" => OpenedBefore(t.client, t.fund, stamp[t.id])

(* A page answered is in descending order, and with current reads leaves   *)
(* out only what sorts before its entries.                                 *)
PageInOrder(q) ==
  /\ Range(page[q]) \subseteq transactions
  /\ phase[q] # "listed" => page[q] = <<>>
  /\ phase[q] # "idle" => asked[q] \in Clients
  /\ \A i, j \in DOMAIN page[q] :
       i < j => ~SortsBefore(page[q][i], page[q][j])
  /\ ~StaleReads =>
       \A t \in transactions \ Range(page[q]), u \in Range(page[q]) :
         t.client = asked[q] /\ Precedes(t.id, q) => ~SortsBefore(u, t)

PagesInOrder == \A q \in Readers : PageInOrder(q)

(* Inductive invariant of TransactionHistory, beside IInv. *)
HistoryInv ==
  /\ HistoryTypeOK
  /\ StampsArePast
  /\ StampsFollowRealTime
  /\ CancelsWereOpened
  /\ PagesInOrder
===============================================================================
