------------------------------- MODULE FiniteSums ------------------------------
(***************************************************************************)
(* Facts about finite sets and sums over them.  Induction is the choice of *)
(* a minimal counterexample: a set of subsets of a finite set that is not  *)
(* empty has a minimal member.                                             *)
(***************************************************************************)
EXTENDS FiniteSetsExt, FiniteSetTheorems, TLAPS

(* A family of subsets of a finite set has a member none of whose proper   *)
(* subsets is in the family.                                               *)
LEMMA MinimalSubset ==
  ASSUME NEW D, IsFiniteSet(D), NEW F, F \subseteq SUBSET D, F # {}
  PROVE  \E s \in F : \A t \in SUBSET s : t \in F => t = s
<1>1. IsWellFoundedOn(StrictSubsetOrdering(D), SUBSET D)
  BY FS_StrictSubsetOrderingWellFounded, FS_FiniteSubsetsOfFinite
<1>2. \E s \in F : \A t \in F : ~(<<t, s>> \in StrictSubsetOrdering(D))
  BY <1>1, WFMin
<1> QED BY <1>2 DEF StrictSubsetOrdering

LEMMA FewerThanOne ==
  ASSUME NEW S, IsFiniteSet(S), Cardinality(S) < 1
  PROVE  S = {}
<1>1. Cardinality(S) \in Nat
  BY FS_CardinalityType
<1>2. Cardinality(S) = 0
  BY <1>1
<1> QED BY <1>2, FS_EmptySet

(* The element the folds take out of s first. *)
Chosen(s) == CHOOSE x \in s : TRUE

LEMMA ChosenIn == \A s : s # {} => Chosen(s) \in s
BY DEF Chosen

(* The recursion by which the community modules sum f over subsets of D.   *)
SumsUp(it, f, D) ==
  it = [s \in SUBSET D |->
          IF s = {} THEN 0 ELSE f[Chosen(s)] + it[s \ {Chosen(s)}]]

Partial(f, D) == CHOOSE it : SumsUp(it, f, D)

LEMMA SumIsPartial ==
  ASSUME NEW f, NEW D
  PROVE  SumFunctionOnSet(f, D) = Partial(f, D)[D]
BY DEF SumFunctionOnSet, FoldFunctionOnSet, MapThenFoldSet, Partial, SumsUp,
       Chosen

(* The recursion determines its values. *)
LEMMA PartialSumsAgree ==
  ASSUME NEW f, NEW A, NEW B, IsFiniteSet(A), NEW i, NEW j,
         SumsUp(i, f, A), SumsUp(j, f, B),
         NEW u, u \subseteq A, u \subseteq B
  PROVE  i[u] = j[u]
<1> DEFINE Bad == {s \in SUBSET u : i[s] # j[s]}
<1> SUFFICES ASSUME Bad # {} PROVE FALSE
  OBVIOUS
<1>1. IsFiniteSet(u) /\ Bad \subseteq SUBSET u
  BY FS_Subset
<1> HIDE DEF Bad
<1>2. PICK s \in Bad : \A t \in SUBSET s : t \in Bad => t = s
  BY <1>1, MinimalSubset
<1> USE DEF Bad
<1>3. s \in SUBSET A /\ s \in SUBSET B
  OBVIOUS
<1>4. CASE s = {}
  BY <1>2, <1>3, <1>4 DEF SumsUp
<1>5. CASE s # {}
  <2> DEFINE t == s \ {Chosen(s)}
  <2>1. t \in SUBSET s /\ t # s /\ t \in SUBSET u
    BY <1>5, ChosenIn
  <2>2. i[t] = j[t]
    BY <1>2, <2>1
  <2>3. i[s] = f[Chosen(s)] + i[t] /\ j[s] = f[Chosen(s)] + j[t]
    BY <1>3, <1>5 DEF SumsUp
  <2> QED BY <1>2, <2>2, <2>3
<1> QED BY <1>4, <1>5

(* The recursion has a solution. *)
LEMMA PartialSumsExist ==
  ASSUME NEW f, NEW D, IsFiniteSet(D)
  PROVE  SumsUp(Partial(f, D), f, D)
<1> DEFINE Bad == {s \in SUBSET D : ~\E it : SumsUp(it, f, s)}
<1> SUFFICES Bad = {}
  BY DEF Partial
<1> SUFFICES ASSUME Bad # {} PROVE FALSE
  OBVIOUS
<1>0. Bad \subseteq SUBSET D
  OBVIOUS
<1> HIDE DEF Bad
<1>1. PICK s \in Bad : \A t \in SUBSET s : t \in Bad => t = s
  BY <1>0, MinimalSubset
<1> USE DEF Bad
<1>2. ASSUME NEW t \in SUBSET s, t # s
      PROVE  SumsUp(Partial(f, t), f, t) /\ IsFiniteSet(t)
  <2>1. \E it : SumsUp(it, f, t)
    BY <1>1, <1>2
  <2> QED BY <2>1, FS_Subset DEF Partial
<1> DEFINE x == Chosen(s)
           r == s \ {x}
           it == [t \in SUBSET s |->
                    IF t # s THEN Partial(f, t)[t]
                    ELSE IF s = {} THEN 0 ELSE f[x] + Partial(f, r)[r]]
<1>3. ASSUME NEW t \in SUBSET s
      PROVE  it[t] = IF t = {} THEN 0
                     ELSE f[Chosen(t)] + it[t \ {Chosen(t)}]
  <2> DEFINE u == t \ {Chosen(t)}
  <2>1. CASE t = {}
    <3>1. CASE t = s
      BY <2>1, <3>1
    <3>2. CASE t # s
      <4>1. Partial(f, t)[t] = 0
        BY <1>2, <2>1, <3>2 DEF SumsUp
      <4> QED BY <2>1, <3>2, <4>1
    <3> QED BY <3>1, <3>2
  <2>2. CASE t # {}
    <3>1. u \in SUBSET s /\ u \in SUBSET t /\ u # t /\ u # s
      BY <2>2, ChosenIn
    <3>2. it[u] = Partial(f, u)[u]
      BY <3>1
    <3>3. CASE t = s
      BY <2>2, <3>2, <3>3
    <3>4. CASE t # s
      <4>1. SumsUp(Partial(f, t), f, t) /\ SumsUp(Partial(f, u), f, u)
            /\ IsFiniteSet(t)
        BY <1>2, <3>1, <3>4
      <4> HIDE DEF u
      <4>2. Partial(f, t)[u] = Partial(f, u)[u]
        BY <4>1, <3>1, PartialSumsAgree
      <4>3. Partial(f, t)[t] = f[Chosen(t)] + Partial(f, t)[u]
        BY <4>1, <2>2 DEF SumsUp, u
      <4>4. it[t] = Partial(f, t)[t]
        BY <3>4
      <4> QED BY <2>2, <3>2, <4>2, <4>3, <4>4 DEF u
    <3> QED BY <3>3, <3>4
  <2> QED BY <2>1, <2>2
<1>4. it = [t \in SUBSET s |->
              IF t = {} THEN 0 ELSE f[Chosen(t)] + it[t \ {Chosen(t)}]]
  <2> DEFINE jt == [t \in SUBSET s |->
              IF t = {} THEN 0 ELSE f[Chosen(t)] + it[t \ {Chosen(t)}]]
  <2>1. \A t \in SUBSET s : it[t] = jt[t]
    BY <1>3
  <2> QED BY <2>1
<1>5. SumsUp(it, f, s)
  BY <1>4 DEF SumsUp
<1> QED BY <1>1, <1>5

-------------------------------------------------------------------------------
(* The sums of module Functions.                                           *)

LEMMA SumOverNothing ==
  ASSUME NEW f
  PROVE  SumFunctionOnSet(f, {}) = 0
<1>1. SumsUp(Partial(f, {}), f, {})
  BY PartialSumsExist, FS_EmptySet
<1>2. Partial(f, {})[{}] = 0
  BY <1>1 DEF SumsUp
<1> QED BY <1>2, SumIsPartial

LEMMA SumTakesChosen ==
  ASSUME NEW f, NEW D, IsFiniteSet(D), D # {}
  PROVE  SumFunctionOnSet(f, D) =
           f[Chosen(D)] + SumFunctionOnSet(f, D \ {Chosen(D)})
<1> DEFINE t == D \ {Chosen(D)}
<1>1. IsFiniteSet(t) /\ t \subseteq D
  BY FS_Subset
<1>2. SumsUp(Partial(f, D), f, D) /\ SumsUp(Partial(f, t), f, t)
  BY <1>1, PartialSumsExist
<1>3. Partial(f, D)[D] = f[Chosen(D)] + Partial(f, D)[t]
  BY <1>2 DEF SumsUp
<1> DEFINE i == Partial(f, D)
           j == Partial(f, t)
<1> HIDE DEF t, i, j
<1>4. i[t] = j[t]
  <2>1. SumsUp(i, f, D) /\ SumsUp(j, f, t)
    BY <1>2 DEF i, j
  <2> QED BY <1>1, <2>1, PartialSumsAgree
<1> QED BY <1>3, <1>4, SumIsPartial DEF t, i, j

(* A sum of naturals is a natural. *)
LEMMA SumType ==
  ASSUME NEW f, NEW D, IsFiniteSet(D), \A x \in D : f[x] \in Nat
  PROVE  SumFunctionOnSet(f, D) \in Nat
<1> DEFINE Bad == {s \in SUBSET D : SumFunctionOnSet(f, s) \notin Nat}
<1> SUFFICES ASSUME Bad # {} PROVE FALSE
  OBVIOUS
<1>1. Bad \subseteq SUBSET D
  OBVIOUS
<1> HIDE DEF Bad
<1>2. PICK s \in Bad : \A t \in SUBSET s : t \in Bad => t = s
  BY <1>1, MinimalSubset
<1> USE DEF Bad
<1>3. s # {} /\ IsFiniteSet(s)
  <2>1. SumFunctionOnSet(f, {}) \in Nat
    BY SumOverNothing
  <2>2. IsFiniteSet(s)
    BY FS_Subset
  <2> QED BY <2>1, <2>2
<1>4. SumFunctionOnSet(f, s \ {Chosen(s)}) \in Nat
  BY <1>2, <1>3, ChosenIn
<1>5. f[Chosen(s)] \in Nat
  BY <1>3, ChosenIn
<1> QED BY <1>3, <1>4, <1>5, SumTakesChosen

(* Whichever element is taken out, the rest sums to the rest. *)
LEMMA SumTakesAny ==
  ASSUME NEW f, NEW D, IsFiniteSet(D), \A y \in D : f[y] \in Nat, NEW x \in D
  PROVE  SumFunctionOnSet(f, D) = f[x] + SumFunctionOnSet(f, D \ {x})
<1> DEFINE Sum(s) == SumFunctionOnSet(f, s)
           Bad == {s \in SUBSET D :
                     \E y \in s : Sum(s) # f[y] + Sum(s \ {y})}
<1> SUFFICES ASSUME Bad # {} PROVE FALSE
  OBVIOUS
<1>1. Bad \subseteq SUBSET D
  OBVIOUS
<1> HIDE DEF Bad
<1>2. PICK s \in Bad : \A t \in SUBSET s : t \in Bad => t = s
  BY <1>1, MinimalSubset
<1>3. PICK y \in s : Sum(s) # f[y] + Sum(s \ {y})
  BY <1>2 DEF Bad
<1> DEFINE z == Chosen(s)
<1>4. IsFiniteSet(s) /\ s \subseteq D /\ z \in s
  BY <1>3, FS_Subset, ChosenIn DEF Bad
<1> HIDE DEF z, Sum
<1>5. Sum(s) = f[z] + Sum(s \ {z})
  BY <1>4, SumTakesChosen DEF Sum, z
<1>6. y # z
  BY <1>3, <1>5
<1>7. ASSUME NEW a \in s, NEW b \in s, a # b
      PROVE  Sum(s \ {a}) = f[b] + Sum((s \ {a}) \ {b})
  <2>1. s \ {a} \in SUBSET s /\ s \ {a} # s /\ b \in s \ {a}
    BY <1>7
  <2>2. s \ {a} \notin Bad /\ s \ {a} \in SUBSET D
    BY <1>2, <1>4, <2>1
  <2> QED BY <2>1, <2>2 DEF Bad
<1>8. /\ Sum(s \ {z}) = f[y] + Sum((s \ {z}) \ {y})
      /\ Sum(s \ {y}) = f[z] + Sum((s \ {y}) \ {z})
  BY <1>4, <1>6, <1>7
<1>9. (s \ {z}) \ {y} = (s \ {y}) \ {z}
  OBVIOUS
<1>10. f[y] \in Nat /\ f[z] \in Nat
  BY <1>4
<1>11. Sum((s \ {z}) \ {y}) \in Nat
  BY <1>4, FS_Subset, SumType DEF Sum
<1>12. /\ Sum(s) = f[z] + (f[y] + Sum((s \ {z}) \ {y}))
       /\ f[y] + Sum(s \ {y}) = f[y] + (f[z] + Sum((s \ {z}) \ {y}))
  BY <1>5, <1>8, <1>9
<1>13. Sum(s) = f[y] + Sum(s \ {y})
  BY <1>10, <1>11, <1>12
<1> QED BY <1>3, <1>13

(* Functions that agree on D have the same sum over it. *)
LEMMA SumOfSame ==
  ASSUME NEW f, NEW g, NEW D, IsFiniteSet(D), \A x \in D : f[x] = g[x]
  PROVE  SumFunctionOnSet(f, D) = SumFunctionOnSet(g, D)
<1> DEFINE Bad == {s \in SUBSET D :
                     SumFunctionOnSet(f, s) # SumFunctionOnSet(g, s)}
<1> SUFFICES ASSUME Bad # {} PROVE FALSE
  OBVIOUS
<1>1. Bad \subseteq SUBSET D
  OBVIOUS
<1> HIDE DEF Bad
<1>2. PICK s \in Bad : \A t \in SUBSET s : t \in Bad => t = s
  BY <1>1, MinimalSubset
<1> USE DEF Bad
<1>3. s # {} /\ IsFiniteSet(s)
  BY SumOverNothing, FS_Subset
<1>4. SumFunctionOnSet(f, s \ {Chosen(s)}) = SumFunctionOnSet(g, s \ {Chosen(s)})
  BY <1>2, <1>3, ChosenIn
<1>5. f[Chosen(s)] = g[Chosen(s)]
  BY <1>3, ChosenIn
<1> QED BY <1>3, <1>4, <1>5, SumTakesChosen
===============================================================================
