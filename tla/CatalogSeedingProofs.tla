------------------------- MODULE CatalogSeedingProofs --------------------------
(***************************************************************************)
(* The safety of the operational scripts, for any catalog and any number   *)
(* of runs.                                                                *)
(***************************************************************************)
EXTENDS CatalogSeedingSafety, TLAPS

USE CatalogAssumption

(* The catalog is a sequence of fund ids. *)
LEMMA CatalogSequence ==
  /\ Len(FundCatalog) \in Nat
  /\ DOMAIN FundCatalog = 1..Len(FundCatalog)
  /\ \A i \in DOMAIN FundCatalog : FundCatalog[i] \in FundIds
  /\ \A f \in FundIds : \E i \in DOMAIN FundCatalog : f = FundCatalog[i]
BY DEF FundIds

LEMMA InitSeeding == Init => SeedingInv
<1> SUFFICES ASSUME Init PROVE SeedingInv
  OBVIOUS
<1> USE DEF Init
<1>1. Stored = {}
  BY DEF Stored
<1>2. SeedingTypeOK
  <2>1. position \in [SeedRuns -> 1..(Len(FundCatalog) + 1)]
    BY CatalogSequence
  <2>2. ttl \in BOOLEAN /\ ~(ttl \/ Stored # {})
    BY <1>1
  <2>3. indexed \subseteq Stored
    BY <1>1
  <2>4. /\ setup \in [TableRuns -> {"idle", "create_table", "wait",
                                  "update_time_to_live", "done", "failed"}]
        /\ phase \in [SeedRuns -> {"idle", "put", "done", "failed"}]
        /\ writer \in [FundIds -> SeedRuns \cup {NoRun}]
        /\ seeded \in [SeedRuns -> SUBSET FundIds]
        /\ status \in {"absent", "creating", "active"}
    OBVIOUS
  <2> QED BY <2>1, <2>2, <2>3, <2>4 DEF SeedingTypeOK
<1>3. LoopLeavesStored
  BY CatalogSequence DEF LoopLeavesStored
<1>4. ReportedOnce
  BY DEF ReportedOnce
<1> QED BY <1>2, <1>3, <1>4 DEF SeedingInv

(* What is stored stays, under the run that wrote it. *)
LEMMA StoredStays ==
  ASSUME SeedingTypeOK, [Next]_vars
  PROVE  /\ Stored \subseteq Stored'
         /\ \A f \in Stored : writer'[f] = writer[f]
<1>1. ASSUME NEW r \in SeedRuns, PutFund(r) \/ PutFundUnanswered(r)
      PROVE  \E f \in FundIds \ Stored : writer' = [writer EXCEPT ![f] = r]
  BY <1>1, CatalogSequence DEF PutFund, PutFundUnanswered, Putting, Current
<1>2. \/ \E r \in SeedRuns : PutFund(r) \/ PutFundUnanswered(r)
      \/ writer' = writer
  BY DEF Next, vars, catalogItems, StartSetup, SetupStep, CreateTable, TableInUse,
         WaitUntilExists, EnableTtl, TtlRefused, SetupFails, StartSeeding,
         SeedStep, SkipFund, EndSeeding, TableNotFound, SeedingFails,
         BecomeActive, IndexFund
<1> QED BY <1>1, <1>2 DEF SeedingTypeOK, Stored

(* A run of create_table touches the table only. *)
LEMMA SetupSteps ==
  ASSUME SeedingInv, NEW s \in TableRuns,
         StartSetup(s) \/ SetupStep(s) \/ SetupFails(s)
  PROVE  SeedingInv'
<1> USE DEF SeedingInv, SeedingTypeOK
<1>1. UNCHANGED <<catalogItems, seeding>>
  BY DEF StartSetup, SetupStep, CreateTable, TableInUse, WaitUntilExists,
         EnableTtl, TtlRefused, SetupFails
<1>2. Stored' = Stored
  BY <1>1 DEF Stored, catalogItems
<1>3. setup' \in [TableRuns -> {"idle", "create_table", "wait",
                               "update_time_to_live", "done", "failed"}]
  <2>1. CASE CreateTable(s)
    BY <2>1 DEF CreateTable
  <2>2. CASE StartSetup(s) \/ SetupFails(s)
    BY <2>2 DEF StartSetup, SetupFails
  <2>3. CASE TableInUse(s) \/ WaitUntilExists(s)
    BY <2>3 DEF TableInUse, WaitUntilExists
  <2>4. CASE EnableTtl(s) \/ TtlRefused(s)
    BY <2>4 DEF EnableTtl, TtlRefused
  <2> QED BY <2>1, <2>2, <2>3, <2>4 DEF SetupStep
<1>4. \/ UNCHANGED <<status, ttl>>
      \/ status = "absent" /\ status' = "creating" /\ ttl' = ttl
      \/ status = "active" /\ status' = status /\ ttl' = TRUE
  BY DEF StartSetup, SetupStep, CreateTable, TableInUse, WaitUntilExists,
         EnableTtl, TtlRefused, SetupFails
<1>5. SeedingTypeOK'
  <2>1. ttl' \in BOOLEAN /\ status' \in {"absent", "creating", "active"}
    BY <1>4
  <2>2. ttl' \/ Stored' # {} => status' = "active"
    BY <1>2, <1>4
  <2>3. /\ writer' \in [FundIds -> SeedRuns \cup {NoRun}]
        /\ indexed' \subseteq Stored'
        /\ phase' \in [SeedRuns -> {"idle", "put", "done", "failed"}]
        /\ position' \in [SeedRuns -> 1..(Len(FundCatalog) + 1)]
        /\ seeded' \in [SeedRuns -> SUBSET FundIds]
    BY <1>1, <1>2 DEF catalogItems, seeding
  <2> QED BY <1>3, <2>1, <2>2, <2>3
<1>6. LoopLeavesStored' /\ ReportedOnce'
  BY <1>1, <1>2 DEF catalogItems, seeding, LoopLeavesStored, ReportedOnce
<1> QED BY <1>5, <1>6

(* What a run of seed_funds does to its own loop. *)
LEMMA SeedSteps ==
  ASSUME SeedingInv, NEW r \in SeedRuns,
         StartSeeding(r) \/ SeedStep(r) \/ SeedingFails(r)
  PROVE  SeedingInv'
<1> USE DEF SeedingInv
<1>1. [Next]_vars
  BY DEF Next
<1>2. /\ UNCHANGED <<status, ttl, indexed, setup>>
      /\ \/ writer' = writer
         \/ /\ status = "active"
            /\ \E f \in FundIds : writer' = [writer EXCEPT ![f] = r]
  BY CatalogSequence
  DEF StartSeeding, SeedStep, PutFund, PutFundUnanswered, SkipFund, EndSeeding,
      TableNotFound, SeedingFails, Putting, Current, catalogItems
<1>3. \/ /\ phase[r] = "put"
         /\ position[r] \in DOMAIN FundCatalog
         /\ position' = [position EXCEPT ![r] = @ + 1]
         /\ phase' = phase
         /\ \/ seeded' = seeded
            \/ /\ seeded' = [seeded EXCEPT ![r] = @ \cup {Current(r)}]
               /\ writer' = [writer EXCEPT ![Current(r)] = r]
      \/ /\ \E p \in {"put", "failed"} : phase' = [phase EXCEPT ![r] = p]
         /\ UNCHANGED <<position, seeded>>
      \/ /\ phase' = [phase EXCEPT ![r] = "done"]
         /\ position[r] \notin DOMAIN FundCatalog
         /\ UNCHANGED <<position, seeded>>
      \/ UNCHANGED seeding
  <2>1. CASE PutFund(r) \/ SkipFund(r)
    BY <2>1 DEF PutFund, SkipFund, Putting, NextFund
  <2>2. CASE PutFundUnanswered(r)
    BY <2>2 DEF PutFundUnanswered
  <2>3. CASE StartSeeding(r) \/ TableNotFound(r) \/ SeedingFails(r)
    BY <2>3 DEF StartSeeding, TableNotFound, SeedingFails
  <2>4. CASE EndSeeding(r)
    BY <2>4 DEF EndSeeding
  <2> QED BY <2>1, <2>2, <2>3, <2>4 DEF SeedStep
<1>4. Current(r) \in FundIds \/ position[r] \notin DOMAIN FundCatalog
  BY CatalogSequence DEF Current
<1>5. /\ phase' \in [SeedRuns -> {"idle", "put", "done", "failed"}]
      /\ position' \in [SeedRuns -> 1..(Len(FundCatalog) + 1)]
  <2>1. phase' \in [SeedRuns -> {"idle", "put", "done", "failed"}]
    BY <1>3 DEF SeedingTypeOK, seeding
  <2>2. position[r] \in DOMAIN FundCatalog
          => position[r] + 1 \in 1..(Len(FundCatalog) + 1)
    BY CatalogSequence
  <2>3. position' \in [SeedRuns -> 1..(Len(FundCatalog) + 1)]
    BY <1>3, <2>2 DEF SeedingTypeOK, seeding
  <2> QED BY <2>1, <2>3
<1>6. seeded' \in [SeedRuns -> SUBSET FundIds]
  BY <1>3, <1>4 DEF SeedingTypeOK, seeding
<1>7. \A q \in SeedRuns \ {r} :
         /\ phase'[q] = phase[q]
         /\ position'[q] = position[q]
         /\ seeded'[q] = seeded[q]
  BY <1>3 DEF SeedingTypeOK, seeding
<1>8. /\ \/ position'[r] = position[r]
         \/ /\ position[r] \in DOMAIN FundCatalog
            /\ position'[r] = position[r] + 1
            /\ Current(r) \in Stored'
      /\ phase'[r] = "done" =>
           /\ phase[r] = "done" \/ position[r] \notin DOMAIN FundCatalog
           /\ position'[r] = position[r]
  <2>1. CASE PutFund(r)
    BY <2>1, CatalogSequence
    DEF SeedingTypeOK, PutFund, Putting, Current, NextFund, Stored
  <2>2. CASE PutFundUnanswered(r)
    BY <2>2 DEF PutFundUnanswered, Putting, seeding
  <2>3. CASE SkipFund(r)
    BY <2>3, <1>1, StoredStays DEF SeedingTypeOK, SkipFund, Putting, NextFund
  <2> QED
    BY <2>1, <2>2, <2>3
    DEF SeedingTypeOK, StartSeeding, SeedStep, EndSeeding, TableNotFound,
        SeedingFails
<1>9. \A f \in seeded'[r] : f \in seeded[r] \/ writer'[f] = r
  BY <1>3, <1>4 DEF SeedingTypeOK, seeding
<1>10. SeedingTypeOK'
  <2>1. indexed' \subseteq Stored'
    BY <1>1, <1>2, StoredStays DEF SeedingTypeOK
  <2>2. ttl' \/ Stored' # {} => status' = "active"
    BY <1>2 DEF SeedingTypeOK, Stored
  <2> QED BY <1>1, <1>2, <1>5, <1>6, <2>1, <2>2 DEF SeedingTypeOK
<1>11. LoopLeavesStored'
  <2> SUFFICES ASSUME NEW q \in SeedRuns
               PROVE  /\ \A i \in DOMAIN FundCatalog :
                           i < position'[q] => FundCatalog[i] \in Stored'
                      /\ phase'[q] = "done" => position'[q] = Len(FundCatalog) + 1
    BY DEF LoopLeavesStored
  <2>1. CASE q # r
    BY <1>1, <1>7, <2>1, StoredStays DEF LoopLeavesStored
  <2>2. CASE q = r
    <3>1. position[r] \in 1..(Len(FundCatalog) + 1)
      BY DEF SeedingTypeOK
    <3>2. ASSUME NEW i \in DOMAIN FundCatalog, i < position'[r]
          PROVE  FundCatalog[i] \in Stored'
      <4>1. CASE i < position[r]
        BY <1>1, <4>1, StoredStays DEF LoopLeavesStored
      <4>2. CASE ~(i < position[r])
        <5>1. i = position[r] /\ Current(r) \in Stored'
          BY <1>8, <3>1, <3>2, <4>2, CatalogSequence
        <5> QED BY <5>1 DEF Current
      <4> QED BY <4>1, <4>2
    <3>3. phase'[r] = "done" => position'[r] = Len(FundCatalog) + 1
      BY <1>8, <3>1, CatalogSequence DEF LoopLeavesStored
    <3> QED BY <2>2, <3>2, <3>3
  <2> QED BY <2>1, <2>2
<1>12. ReportedOnce'
  <2> SUFFICES ASSUME NEW q \in SeedRuns, NEW f \in seeded'[q]
               PROVE  writer'[f] = q
    BY DEF ReportedOnce
  <2>1. CASE f \in seeded[q]
    <3>1. writer[f] = q /\ f \in Stored
      BY <2>1 DEF ReportedOnce, SeedingTypeOK, Stored
    <3> QED BY <1>1, <3>1, StoredStays
  <2>2. CASE f \notin seeded[q]
    BY <1>9, <1>7, <2>2
  <2> QED BY <2>1, <2>2
<1> QED BY <1>10, <1>11, <1>12

LEMMA NextSeeding == SeedingInv /\ [Next]_vars => SeedingInv'
<1> SUFFICES ASSUME SeedingInv, [Next]_vars PROVE SeedingInv'
  OBVIOUS
<1> USE DEF SeedingInv, SeedingTypeOK, LoopLeavesStored, ReportedOnce
<1>1. CASE BecomeActive
  BY <1>1 DEF BecomeActive, catalogItems, seeding, Stored
<1>2. ASSUME NEW f \in FundIds, IndexFund(f)
      PROVE  SeedingInv'
  BY <1>2 DEF IndexFund, seeding, Stored
<1>3. CASE UNCHANGED vars
  BY <1>3 DEF vars, catalogItems, seeding, Stored
<1> QED BY <1>1, <1>2, <1>3, SetupSteps, SeedSteps DEF Next

(* The inductive invariant holds for any catalog and any runs. *)
THEOREM SeedingInvariant == Spec => []SeedingInv
BY InitSeeding, NextSeeding, PTL DEF Spec

(* DoneMeansComplete: one run that ends repairs whatever stopped runs have *)
(* left undone.                                                            *)
THEOREM SeedingCompletes == Spec => []DoneMeansComplete
<1>1. ASSUME SeedingInv
      PROVE  DoneMeansComplete
  <2> SUFFICES ASSUME NEW r \in SeedRuns, phase[r] = "done"
               PROVE  FundIds \subseteq Stored
    BY DEF DoneMeansComplete, Stored
  <2>1. ASSUME NEW i \in DOMAIN FundCatalog
        PROVE  FundCatalog[i] \in Stored
    <3>1. i < position[r]
      BY <1>1, CatalogSequence DEF SeedingInv, LoopLeavesStored
    <3> QED BY <1>1, <3>1 DEF SeedingInv, LoopLeavesStored
  <2> QED BY <2>1, CatalogSequence
<1> QED BY <1>1, SeedingInvariant, PTL

(* ReportedOnce: no two runs report to have seeded the same fund. *)
THEOREM SeedingReportsOnce == Spec => []ReportedOnce
<1>1. SeedingInv => ReportedOnce
  BY DEF SeedingInv
<1> QED BY <1>1, SeedingInvariant, PTL

(* NeverClobbered: running the scripts again, or at the same time, never   *)
(* writes over a fund.                                                     *)
THEOREM SeedingNeverClobbers == Spec => NeverClobbered
<1>1. SeedingInv /\ [Next]_vars => [\A f \in Stored : writer'[f] = writer[f]]_vars
  BY StoredStays DEF SeedingInv
<1> QED BY <1>1, SeedingInvariant, PTL DEF Spec, NeverClobbered
===============================================================================
