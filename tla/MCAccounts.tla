------------------------------ MODULE MCAccounts ------------------------------
(***************************************************************************)
(* Instances of Accounts for TLC: ana and Ana are spellings of one         *)
(* mailbox, bob is the other; long and longer agree on their first 72      *)
(* bytes, other does not.                                                  *)
(***************************************************************************)
EXTENDS AccountsSafety, TLC

CONSTANTS ana, Ana, bob, anaBox, bobBox, long, longer, other, prefix, otherPrefix,
          r1, r2, r3

MCLowerCase == [e \in Emails |-> IF e = bob THEN bobBox ELSE anaBox]

MCFirstBytes ==
  [p \in Passwords |-> IF p = other THEN otherPrefix ELSE prefix]

(* Calls differ only in when they arrive, and two spellings of a mailbox,  *)
(* or two passwords with the same prefix, only in their names.             *)
Symmetry ==
  Permutations(Calls) \cup Permutations({ana, Ana})
    \cup Permutations({long, longer})
===============================================================================
