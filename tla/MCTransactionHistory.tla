------------------------- MODULE MCTransactionHistory --------------------------
(* Instances of TransactionHistory for TLC. *)
EXTENDS TransactionHistorySafety, TLC

CONSTANTS c1, f1, f2, r1, r2, r3, q1

MCMinAmount == [f \in Funds |-> IF f = f1 THEN 2 ELSE 3]

(* Requests differ only in when they arrive. *)
Symmetry == Permutations(Requests)
===============================================================================
