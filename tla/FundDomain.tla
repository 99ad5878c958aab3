------------------------------ MODULE FundDomain ------------------------------
(***************************************************************************)
(* The data of the fund manager: clients, the fund catalog, money, the     *)
(* commands the API accepts and the outcomes it can answer with.  An       *)
(* amount is a natural number because Money is an exact, non-negative      *)
(* Decimal; all other attributes (name, email, category) are left out,     *)
(* since no step of subscribe or cancel reads them.                        *)
(***************************************************************************)
EXTENDS Naturals

CONSTANTS
  Clients,         \* client ids that may appear in a request path
  Funds,           \* fund ids that may appear in a request path
  Catalog,         \* the seeded funds, a subset of Funds
  MinAmount,       \* minimum amount of each fund
  InitialBalance,  \* balance of a newly registered client
  Keys,            \* Idempotency-Key header values
  NoKey,           \* the header is absent
  NoItem           \* get_item returned no item

Money == Nat

Operations == {"SUBSCRIBE", "CANCEL"}

TransactionTypes == {"OPEN", "CANCEL"}

(* SubscribeCommand and CancelCommand, told apart by op. *)
Commands == [op     : Operations,
             client : Clients,
             fund   : Funds,
             key    : Keys \cup {NoKey}]

(* The idempotency record kept under IDEMPOTENCY#<key>. *)
IdempotencyRecords == [operation      : Operations,
                       client_id      : Clients,
                       fund_id        : Funds,
                       result_balance : Money]

ASSUME DomainAssumption ==
  /\ Catalog \subseteq Funds
  /\ MinAmount \in [Funds -> Money]
  /\ InitialBalance \in Money
  /\ NoKey \notin Keys
  /\ NoItem \notin Money \cup IdempotencyRecords \cup Commands

(* Errors raised by the use cases and the repository. *)
DomainErrors == {"ClientNotFound", "FundNotFound", "AlreadySubscribed",
                 "NotSubscribed", "InsufficientBalance",
                 "IdempotencyConflict"}

(* Operations of the Money value object. *)
IsGreaterThanOrEqual(a, b) == a >= b

(* Mutant: the result of subtract is dropped, Money being immutable. *)
Subtract_Dropped(a, b) == a

Subtract(a, b) == a - b

Plus(a, b) == a + b
===============================================================================
