---------------------------- MODULE CatalogSeeding -----------------------------
(***************************************************************************)
(* The operational scripts: scripts.create_table creates the DynamoDB      *)
(* table and enables TTL on it, scripts.seed_funds writes the fund catalog *)
(* one conditional put at a time.  Both are documented as safe to run      *)
(* again; here any number of runs of each overlap, in any order, boto3     *)
(* sends a call again whose answer was lost, and a run may stop at any     *)
(* call.  A DynamoDB table takes time to become active, and the index      *)
(* list_funds queries follows the items with a delay.                      *)
(***************************************************************************)
EXTENDS Naturals, Sequences

CONSTANTS
  FundCatalog,  \* FUND_CATALOG: the ids of its funds, in order
  TableRuns,    \* executions of scripts.create_table
  SeedRuns,     \* executions of scripts.seed_funds
  NoRun         \* no execution: the fund has no item

ASSUME CatalogAssumption ==
  /\ FundCatalog \in Seq(STRING)
  /\ NoRun \notin SeedRuns

VARIABLES
  status,    \* status of the table: "absent", "creating" or "active"
  ttl,       \* whether items expire by their ttl attribute
  writer,    \* writer[f]: the run whose put made the item of fund f
  indexed,   \* the funds whose items GSI1 has
  setup,     \* setup[s]: the next call of a run of create_table
  phase,     \* phase[r]: "idle", "put", "done" or "failed"
  position,  \* position[r]: where the loop of seed_funds is
  seeded     \* seeded[r]: the funds the run printed as seeded

catalogItems == <<writer, indexed>>

seeding == <<phase, position, seeded>>

vars == <<status, ttl, catalogItems, setup, seeding>>

FundIds == {FundCatalog[i] : i \in DOMAIN FundCatalog}

Stored == {f \in FundIds : writer[f] # NoRun}

Init ==
  /\ status = "absent"
  /\ ttl = FALSE
  /\ writer = [f \in FundIds |-> NoRun]
  /\ indexed = {}
  /\ setup = [s \in TableRuns |-> "idle"]
  /\ phase = [r \in SeedRuns |-> "idle"]
  /\ position = [r \in SeedRuns |-> 1]
  /\ seeded = [r \in SeedRuns |-> {}]

-------------------------------------------------------------------------------
(* scripts.create_table.                                                   *)

StartSetup(s) ==
  /\ setup[s] = "idle"
  /\ setup' = [setup EXCEPT ![s] = "create_table"]
  /\ UNCHANGED <<status, ttl, catalogItems, seeding>>

(* CreateTable starts the creation; if the answer is lost, boto3 calls     *)
(* again.                                                                  *)
CreateTable(s) ==
  /\ setup[s] = "create_table"
  /\ status = "absent"
  /\ status' = "creating"
  /\ setup' \in {setup, [setup EXCEPT ![s] = "wait"]}
  /\ UNCHANGED <<ttl, catalogItems, seeding>>

(* ResourceInUseException: creation is skipped, and so is the waiter. *)
TableInUse(s) ==
  /\ setup[s] = "create_table"
  /\ status # "absent"
  /\ setup' = [setup EXCEPT ![s] = "update_time_to_live"]
  /\ UNCHANGED <<status, ttl, catalogItems, seeding>>

(* Mutant: the waiter is the one for table_not_exists. *)
WaitUntilExists_Not(s) ==
  /\ setup[s] = "wait"
  /\ status = "absent"
  /\ setup' = [setup EXCEPT ![s] = "update_time_to_live"]
  /\ UNCHANGED <<status, ttl, catalogItems, seeding>>

(* The waiter table_exists polls until the table is active. *)
WaitUntilExists(s) ==
  /\ setup[s] = "wait"
  /\ status = "active"
  /\ setup' = [setup EXCEPT ![s] = "update_time_to_live"]
  /\ UNCHANGED <<status, ttl, catalogItems, seeding>>

EnableTtl(s) ==
  /\ setup[s] = "update_time_to_live"
  /\ status = "active"
  /\ ~ttl
  /\ ttl' = TRUE
  /\ setup' = [setup EXCEPT ![s] = "done"]
  /\ UNCHANGED <<status, catalogItems, seeding>>

(* Any ClientError is taken for "already enabled" and passed over: the     *)
(* table is not active yet, TTL is on, the caller lacks the permission.    *)
TtlRefused(s) ==
  /\ setup[s] = "update_time_to_live"
  /\ setup' = [setup EXCEPT ![s] = "done"]
  /\ UNCHANGED <<status, ttl, catalogItems, seeding>>

(* The waiter gives up, another error is raised, or the process stops. *)
SetupFails(s) ==
  /\ setup[s] \in {"create_table", "wait", "update_time_to_live"}
  /\ setup' = [setup EXCEPT ![s] = "failed"]
  /\ UNCHANGED <<status, ttl, catalogItems, seeding>>

-------------------------------------------------------------------------------
(* scripts.seed_funds.                                                     *)

StartSeeding(r) ==
  /\ phase[r] = "idle"
  /\ phase' = [phase EXCEPT ![r] = "put"]
  /\ UNCHANGED <<status, ttl, catalogItems, setup, position, seeded>>

(* The fund the loop of run r is at. *)
Current(r) == FundCatalog[position[r]]

NextFund(r) == position' = [position EXCEPT ![r] = @ + 1]

(* Run r is about to put the item of a fund, and the table accepts writes. *)
Putting(r) ==
  /\ phase[r] = "put"
  /\ position[r] \in DOMAIN FundCatalog
  /\ status = "active"

(* Mutant: the put has no attribute_not_exists condition. *)
PutFund_Unconditional(r) ==
  /\ Putting(r)
  /\ writer' = [writer EXCEPT ![Current(r)] = r]
  /\ NextFund(r)
  /\ seeded' = [seeded EXCEPT ![r] = @ \cup {Current(r)}]
  /\ UNCHANGED <<status, ttl, indexed, setup, phase>>

PutFund(r) ==
  /\ Putting(r)
  /\ Current(r) \notin Stored
  /\ writer' = [writer EXCEPT ![Current(r)] = r]
  /\ NextFund(r)
  /\ seeded' = [seeded EXCEPT ![r] = @ \cup {Current(r)}]
  /\ UNCHANGED <<status, ttl, indexed, setup, phase>>

(* The item is stored, but the answer is lost: boto3 puts it again. *)
PutFundUnanswered(r) ==
  /\ Putting(r)
  /\ Current(r) \notin Stored
  /\ writer' = [writer EXCEPT ![Current(r)] = r]
  /\ UNCHANGED <<status, ttl, indexed, setup, seeding>>

(* Mutant: the handler is around the loop, not in it. *)
SkipFund_EndsLoop(r) ==
  /\ Putting(r)
  /\ Current(r) \in Stored
  /\ phase' = [phase EXCEPT ![r] = "done"]
  /\ UNCHANGED <<status, ttl, catalogItems, setup, position, seeded>>

(* Mutant: created is counted outside the try. *)
SkipFund_Counted(r) ==
  /\ Putting(r)
  /\ Current(r) \in Stored
  /\ NextFund(r)
  /\ seeded' = [seeded EXCEPT ![r] = @ \cup {Current(r)}]
  /\ UNCHANGED <<status, ttl, catalogItems, setup, phase>>

(* ConditionalCheckFailedException: the fund is there. *)
SkipFund(r) ==
  /\ Putting(r)
  /\ Current(r) \in Stored
  /\ NextFund(r)
  /\ UNCHANGED <<status, ttl, catalogItems, setup, phase, seeded>>

EndSeeding(r) ==
  /\ phase[r] = "put"
  /\ position[r] \notin DOMAIN FundCatalog
  /\ phase' = [phase EXCEPT ![r] = "done"]
  /\ UNCHANGED <<status, ttl, catalogItems, setup, position, seeded>>

(* ResourceNotFoundException: there is no active table, and nothing        *)
(* catches it.                                                             *)
TableNotFound(r) ==
  /\ phase[r] = "put"
  /\ position[r] \in DOMAIN FundCatalog
  /\ status # "active"
  /\ phase' = [phase EXCEPT ![r] = "failed"]
  /\ UNCHANGED <<status, ttl, catalogItems, setup, position, seeded>>

(* Another error, or the process stops. *)
SeedingFails(r) ==
  /\ phase[r] = "put"
  /\ phase' = [phase EXCEPT ![r] = "failed"]
  /\ UNCHANGED <<status, ttl, catalogItems, setup, position, seeded>>

-------------------------------------------------------------------------------
(* DynamoDB.                                                               *)

BecomeActive ==
  /\ status = "creating"
  /\ status' = "active"
  /\ UNCHANGED <<ttl, catalogItems, setup, seeding>>

(* GSI1 takes over an item of the partition "FUND". *)
IndexFund(f) ==
  /\ f \in Stored \ indexed
  /\ indexed' = indexed \cup {f}
  /\ UNCHANGED <<status, ttl, writer, setup, seeding>>

(* list_funds is one query of GSI1. *)
ListFunds == indexed

-------------------------------------------------------------------------------
SetupStep(s) ==
  \/ CreateTable(s)
  \/ TableInUse(s)
  \/ WaitUntilExists(s)
  \/ EnableTtl(s)
  \/ TtlRefused(s)

SeedStep(r) ==
  \/ PutFund(r)
  \/ PutFundUnanswered(r)
  \/ SkipFund(r)
  \/ EndSeeding(r)
  \/ TableNotFound(r)

Next ==
  \/ \E s \in TableRuns : StartSetup(s) \/ SetupStep(s) \/ SetupFails(s)
  \/ \E r \in SeedRuns : StartSeeding(r) \/ SeedStep(r) \/ SeedingFails(r)
  \/ BecomeActive
  \/ \E f \in FundIds : IndexFund(f)

Spec == Init /\ [][Next]_vars

(* A run keeps executing, a table being created becomes active, and the    *)
(* index catches up.  Runs are not assumed to start, nor to fail.          *)
FairSpec ==
  /\ Spec
  /\ \A s \in TableRuns : WF_vars(SetupStep(s))
  /\ \A r \in SeedRuns : WF_vars(SeedStep(r))
  /\ WF_vars(BecomeActive)
  /\ \A f \in FundIds : WF_vars(IndexFund(f))
===============================================================================
