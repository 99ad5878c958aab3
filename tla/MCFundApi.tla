------------------------------ MODULE MCFundApi -------------------------------
(***************************************************************************)
(* Instances of FundApi for TLC: c2 is the admin, who prefers the other    *)
(* channel; k1 is sent as it is or with spaces around it, and blank strips *)
(* to nothing.                                                             *)
(***************************************************************************)
EXTENDS FundApiSafety, TLC

CONSTANTS c1, c2, f1, k1, padded, blank, r1, r2, r3

(* Half of the balance. *)
MCMinAmount == [f \in Funds |-> 2]

MCNotifyPref == [c \in Clients |-> IF c = c1 THEN "EMAIL" ELSE "SMS"]

MCKeyOf == [h \in HeaderValues |-> IF h = blank THEN NoItem ELSE k1]

(* Requests differ in when they arrive only. *)
Symmetry == Permutations(Requests)
===============================================================================
