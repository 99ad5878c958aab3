------------------------------ MODULE FundLedger ------------------------------
(***************************************************************************)
(* What the service promises however its requests overlap: a position is   *)
(* opened only when the client does not hold the fund and closed only when *)
(* the client does; each opening or closing is one ledger entry at the     *)
(* fund's minimum amount; while an idempotency key is remembered nothing   *)
(* else is entered under it; and only an entered opening is notified.      *)
(* Balances are not part of this promise: FundAccount states the one about *)
(* them.                                                                   *)
(***************************************************************************)
EXTENDS FundDomain

CONSTANT Requests

VARIABLES
  held,        \* the <<client, fund>> positions that are open
  entries,     \* the ledger
  remembered,  \* keys whose result can still be replayed
  sent         \* requests whose client was notified

vars == <<held, entries, remembered, sent>>

Init ==
  /\ held = {}
  /\ entries = {}
  /\ remembered = {}
  /\ sent = {}

(* One more entry by a request that has none, under a fresh key if any. *)
Enter(id, c, type, f, k) ==
  /\ \A e \in entries : e.id # id
  /\ k \notin remembered
  /\ remembered' = remembered \cup ({k} \cap Keys)
  /\ entries' = entries \cup
       {[id |-> id, client |-> c, type |-> type, fund |-> f,
         amount |-> MinAmount[f]]}
  /\ UNCHANGED sent

Open(id, c, f, k) ==
  /\ <<c, f>> \notin held
  /\ held' = held \cup {<<c, f>>}
  /\ Enter(id, c, "OPEN", f, k)

Close(id, c, f, k) ==
  /\ <<c, f>> \in held
  /\ held' = held \ {<<c, f>>}
  /\ Enter(id, c, "CANCEL", f, k)

Notify(id) ==
  /\ \E e \in entries : e.id = id /\ e.type = "OPEN"
  /\ id \notin sent
  /\ sent' = sent \cup {id}
  /\ UNCHANGED <<held, entries, remembered>>

Forget(k) ==
  /\ k \in remembered
  /\ remembered' = remembered \ {k}
  /\ UNCHANGED <<held, entries, sent>>

Next ==
  \/ \E id \in Requests, c \in Clients, f \in Catalog, k \in Keys \cup {NoKey} :
       Open(id, c, f, k) \/ Close(id, c, f, k)
  \/ \E id \in Requests : Notify(id)
  \/ \E k \in Keys : Forget(k)

Spec == Init /\ [][Next]_vars
===============================================================================
