---------------------------- MODULE MCFundService -----------------------------
(***************************************************************************)
(* Instances of FundService for TLC.  Amounts are small numbers that stand *)
(* to each other as the catalog's do to the initial 500 000: two funds the *)
(* balance covers together, and one it covers only while nothing is held.  *)
(***************************************************************************)
EXTENDS FundServiceSafety, TLC

CONSTANTS c1, c2, f1, f2, f3, unknown, k1, r1, r2, r3, r4

(* f1 and f2 can be held together, f3 only while neither is; an unknown    *)
(* fund has no minimum and is never in the catalog.                        *)
MCMinAmount ==
  [f \in Funds |-> CASE f = f1 -> 2 [] f = f2 -> 3 [] f = f3 -> 4
                      [] OTHER -> 0]

(* Requests only differ in when they arrive, and no run with a liveness    *)
(* property uses this.                                                     *)
Symmetry == Permutations(Requests)
===============================================================================
