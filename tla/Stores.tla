------------------------------- MODULE Stores -------------------------------
(***************************************************************************)
(* The stores of the services side by side: the Access Manager on Postgres *)
(* at work, the services that set up its tables at boot, and both services *)
(* on the in-memory stores.  Every behaviour is about one of them          *)
(* (DATABASE_URL decides which stores a deployment has); the others stay   *)
(* in their initial states.                                                *)
(***************************************************************************)
EXTENDS AccessManager

CONSTANTS
  Managers, Bpps,    \* the services that boot
  MaxCrashes,        \* bound: crashes of a boot and restarts of the database
  MemoryGrants, MemoryDownloads,   \* of the in-memory stores
  TTL, MemorySkew,   \* seconds a grant lives, and the clock skew of its gate
  Cap,               \* scope.maxDownloads of the grants in memory
  MaxClock, MaxRestarts   \* bounds: its clock, and restarts of its processes

ASSUME StoresAssumption ==
  /\ MaxCrashes \in Nat
  /\ TTL \in Nat /\ MemorySkew \in Nat /\ Cap \in Nat
  /\ MaxClock \in Nat /\ MaxRestarts \in Nat

VARIABLES
  stores,    \* "postgres", "boot" or "memory"
  pc, statement, entered, committed, locks, crashes, collided,
  clock, expiresAt, map, revoked, counts, download, restarts, answered, served

Boot == INSTANCE SchemaInit

Memory == INSTANCE DevStores WITH
  Grants <- MemoryGrants, Downloads <- MemoryDownloads, Skew <- MemorySkew,
  now <- clock, ledger <- map

\* A grant that is not in the ledger has no status.
ASSUME NoneIsNoStatus == None \notin Memory!Statuses

postgresVars == <<sharedVars, amVars>>
bootVars == <<pc, statement, entered, committed, locks, crashes, collided>>
memoryVars ==
  <<clock, expiresAt, map, revoked, counts, download, restarts, answered, served>>

StoresInit ==
  /\ stores \in {"postgres", "boot", "memory"}
  /\ AloneInit /\ Boot!SchemaInit /\ Memory!DevInit

\* Services that are up wait for requests: no deadlock.
AllUp == stores = "boot" /\ \A s \in Managers \cup Bpps : pc[s] = "up"

StoresNext ==
  /\ UNCHANGED stores
  /\ \/ stores = "postgres" /\ AloneNext /\ UNCHANGED <<bootVars, memoryVars>>
     \/ stores = "boot" /\ Boot!SchemaNext /\ UNCHANGED <<postgresVars, memoryVars>>
     \/ AllUp /\ UNCHANGED <<postgresVars, bootVars, memoryVars>>
     \/ stores = "memory" /\ Memory!DevNext /\ UNCHANGED <<postgresVars, bootVars>>

(* The fairness of AMFairSpec; and restart: unless-stopped starts an ended *)
(* container again, while Postgres answers the queries it is sent.         *)
StoresFairness ==
  /\ \A g \in Grants : SF_postgresVars(stores = "postgres" /\ IssueStep(g))
  /\ \A r \in Revokers : SF_postgresVars(stores = "postgres" /\ RevokeStep(r))
  /\ WF_postgresVars(stores = "postgres" /\ SweepStep)
  /\ \A s \in Managers \cup Bpps : WF_bootVars(stores = "boot" /\ Boot!BootStep(s))

StoresSpec ==
  /\ StoresInit
  /\ [][StoresNext]_<<stores, postgresVars, bootVars, memoryVars>>
  /\ StoresFairness

-----------------------------------------------------------------------------
(* "Multiple BPPs booting at once race on CREATE TABLE IF NOT EXISTS and   *)
(* one hits a pg_type unique-violation": with the lock no boot fails on a  *)
(* table another service created, and a service that listens finds every   *)
(* relation its queries name, wherever services or the database stop.      *)
BootsDoNotCollide == Boot!SchemaTypeOK /\ Boot!NoBootCollides /\ Boot!UpHasItsTables

(* Once the crashes stop every service is up for good: nobody waits for a  *)
(* lock whose holder ended, or which its holder kept.                      *)
EveryoneBoots == stores = "boot" => \A s \in Managers \cup Bpps : <>[](pc[s] = "up")

(* The part of the gate that does not need Postgres: the cap between two   *)
(* restarts of the BPP, the ledger until the Access Manager restarts.      *)
MemoryKeepsItsWord == Memory!DevTypeOK /\ Memory!CapWithinLife /\ Memory!AnsweredIsRecorded
=============================================================================
