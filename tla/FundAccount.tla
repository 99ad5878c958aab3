------------------------------ MODULE FundAccount -----------------------------
(***************************************************************************)
(* What a client is promised about money: opening a position takes exactly *)
(* the fund's minimum amount out of the balance, which must cover it, and  *)
(* closing one gives exactly that amount back.                             *)
(***************************************************************************)
EXTENDS FundDomain

VARIABLES
  balance,  \* balance[c], NoItem for a client who is not registered
  stake     \* stake[<<c, f>>]: amount invested, NoItem when not held

vars == <<balance, stake>>

Init ==
  /\ balance \in [Clients -> {InitialBalance, NoItem}]
  /\ stake = [h \in Clients \X Funds |-> NoItem]

Invest(c, f) ==
  /\ balance[c] # NoItem
  /\ stake[<<c, f>>] = NoItem
  /\ balance[c] >= MinAmount[f]
  /\ balance' = [balance EXCEPT ![c] = @ - MinAmount[f]]
  /\ stake' = [stake EXCEPT ![<<c, f>>] = MinAmount[f]]

Redeem(c, f) ==
  /\ balance[c] # NoItem
  /\ stake[<<c, f>>] # NoItem
  /\ balance' = [balance EXCEPT ![c] = @ + stake[<<c, f>>]]
  /\ stake' = [stake EXCEPT ![<<c, f>>] = NoItem]

Next == \E c \in Clients, f \in Catalog : Invest(c, f) \/ Redeem(c, f)

Spec == Init /\ [][Next]_vars
===============================================================================
