------------------------- MODULE CatalogSeedingSafety --------------------------
(***************************************************************************)
(* What the scripts promise to whoever runs them again: scripts/__init__,  *)
(* the README and their docstrings call them idempotent.                   *)
(***************************************************************************)
EXTENDS CatalogSeeding

(* Type invariant.  Also, only an active table has items and TTL, and the  *)
(* index has only funds that are stored.                                   *)
SeedingTypeOK ==
  /\ status \in {"absent", "creating", "active"}
  /\ ttl \in BOOLEAN
  /\ writer \in [FundIds -> SeedRuns \cup {NoRun}]
  /\ indexed \subseteq Stored
  /\ setup \in [TableRuns -> {"idle", "create_table", "wait",
                              "update_time_to_live", "done", "failed"}]
  /\ phase \in [SeedRuns -> {"idle", "put", "done", "failed"}]
  /\ position \in [SeedRuns -> 1..(Len(FundCatalog) + 1)]
  /\ seeded \in [SeedRuns -> SUBSET FundIds]
  /\ ttl \/ Stored # {} => status = "active"

(* A run of seed_funds that ended leaves the whole catalog stored, however *)
(* many runs stopped half way before it or overlap it.                     *)
DoneMeansComplete ==
  \A r \in SeedRuns : phase[r] = "done" => Stored = FundIds

(* A fund is reported as seeded only by the run that wrote it, so no two   *)
(* runs claim the same fund, whatever answers are lost.                    *)
ReportedOnce ==
  \A r \in SeedRuns : \A f \in seeded[r] : writer[f] = r

(* A fund once in the catalog stays, and no later run writes it again: the *)
(* catalog FundService takes as a constant only grows under it.            *)
NeverClobbered ==
  [][\A f \in Stored : writer'[f] = writer[f]]_vars

(* Every run ends: no call is repeated for ever, the wait for the table    *)
(* included.                                                               *)
EveryRunEnds ==
  /\ \A s \in TableRuns :
       setup[s] # "idle" ~> setup[s] \in {"done", "failed"}
  /\ \A r \in SeedRuns :
       phase[r] # "idle" ~> phase[r] \in {"done", "failed"}

(* Once one run of seed_funds has ended, GET /funds comes to list the      *)
(* whole catalog, and goes on doing so.                                    *)
CatalogGetsListed ==
  \A r \in SeedRuns : phase[r] = "done" ~> [](ListFunds = FundIds)

(* create_table "always ensures TTL is enabled (idempotent), even if the   *)
(* table pre-existed".                                                     *)
TtlEnsured ==
  \A s \in TableRuns : setup[s] = "done" => ttl

-------------------------------------------------------------------------------
(* The inductive invariant.                                                *)

(* The loop has left every fund behind it stored, and ends only at the end *)
(* of the catalog.                                                         *)
LoopLeavesStored ==
  \A r \in SeedRuns :
    /\ \A i \in DOMAIN FundCatalog : i < position[r] => FundCatalog[i] \in Stored
    /\ phase[r] = "done" => position[r] = Len(FundCatalog) + 1

(* Inductive invariant of CatalogSeeding. *)
SeedingInv ==
  /\ SeedingTypeOK
  /\ LoopLeavesStored
  /\ ReportedOnce
===============================================================================
