----------------------------- MODULE SchemaInit -----------------------------
(***************************************************************************)
(* The Access Manager and the BPPs boot at once on one database.  Each     *)
(* runs initSchema (services/access-manager/src/stores/postgres.ts,        *)
(* services/bpp/src/stores/postgres.ts) before it listens: under one       *)
(* advisory lock, the CREATE ... IF NOT EXISTS statements of its           *)
(* SCHEMA_SQL, which one simple query runs as one transaction.             *)
(*                                                                         *)
(* Postgres looks whether a relation exists in one step and enters it in   *)
(* its catalog in another; the second waits for a transaction that entered *)
(* the same name and fails with a unique violation when that one commits.  *)
(***************************************************************************)
EXTENDS Naturals, Sequences

CONSTANTS
  Managers,   \* Access Managers
  Bpps,       \* BPPs
  MaxCrashes  \* bound: crashes of a service and restarts of the database

Services == Managers \cup Bpps
Relations == {"grants", "grants_grantee_idx", "grant_revocations", "bpp_grant_redemptions"}

(* SCHEMA_SQL of the service.                                              *)
SchemaSql(s) ==
  IF s \in Managers THEN <<"grants", "grants_grantee_idx", "grant_revocations">>
                    ELSE <<"grant_revocations", "bpp_grant_redemptions">>

RelationsOf(s) == {SchemaSql(s)[i] : i \in DOMAIN SchemaSql(s)}

(* Defect: each service has a key of its own.                              *)
SchemaLockKeyDefect(s) == IF s \in Managers THEN 728491 ELSE 728492

SCHEMA_LOCK_KEY(s) == 728491

VARIABLES
  pc,         \* service -> what its boot does next
  statement,  \* service -> statement of SCHEMA_SQL it is at
  entered,    \* service -> relations its open transaction entered in the catalog
  committed,  \* relations of the database
  locks,      \* advisory locks: pairs of a key and the service whose session holds it
  crashes,    \* crashes so far
  collided    \* history: services whose boot failed on a unique violation

schemaVars == <<pc, statement, entered, committed, locks, crashes, collided>>

Steps == {"down", "locking", "checking", "creating", "unlocking", "failing", "released", "up"}

SchemaTypeOK ==
  /\ pc \in [Services -> Steps]
  /\ statement \in [Services -> 1 .. 4]
  /\ entered \in [Services -> SUBSET Relations]
  /\ committed \subseteq Relations
  /\ locks \subseteq {SCHEMA_LOCK_KEY(s) : s \in Services} \X Services
  /\ crashes \in 0 .. MaxCrashes
  /\ collided \subseteq Services

SchemaInit ==
  /\ pc = [s \in Services |-> "down"]
  /\ statement = [s \in Services |-> 1]
  /\ entered = [s \in Services |-> {}]
  /\ committed = {} /\ locks = {} /\ crashes = 0 /\ collided = {}

At(s, step) == pc[s] = step
GoTo(s, step) == pc' = [pc EXCEPT ![s] = step]

(* The process starts and takes a client from its new pool.                *)
Boot(s) ==
  /\ At(s, "down")
  /\ GoTo(s, "locking")
  /\ statement' = [statement EXCEPT ![s] = 1]
  /\ UNCHANGED <<entered, committed, locks, crashes, collided>>

(* pg_advisory_lock waits until no other session holds the key.            *)
AdvisoryLock(s) ==
  /\ At(s, "locking")
  /\ \A u \in Services \ {s} : <<SCHEMA_LOCK_KEY(s), u>> \notin locks
  /\ locks' = locks \cup {<<SCHEMA_LOCK_KEY(s), s>>}
  /\ GoTo(s, "checking")
  /\ UNCHANGED <<statement, entered, committed, crashes, collided>>

(* IF NOT EXISTS: what other transactions committed, and its own, is seen. *)
Exists(s) ==
  /\ At(s, "checking")
  /\ statement[s] <= Len(SchemaSql(s))
  /\ IF SchemaSql(s)[statement[s]] \in committed \cup entered[s]
       THEN statement' = [statement EXCEPT ![s] = @ + 1] /\ UNCHANGED pc
       ELSE GoTo(s, "creating") /\ UNCHANGED statement
  /\ UNCHANGED <<entered, committed, locks, crashes, collided>>

Create(s) ==
  LET relation == SchemaSql(s)[statement[s]] IN
  /\ At(s, "creating")
  /\ \A u \in Services \ {s} : relation \notin entered[u]
  /\ IF relation \in committed
       THEN /\ GoTo(s, "failing")
            /\ entered' = [entered EXCEPT ![s] = {}]
            /\ collided' = collided \cup {s}
            /\ UNCHANGED statement
       ELSE /\ GoTo(s, "checking")
            /\ entered' = [entered EXCEPT ![s] = @ \cup {relation}]
            /\ statement' = [statement EXCEPT ![s] = @ + 1]
            /\ UNCHANGED collided
  /\ UNCHANGED <<committed, locks, crashes>>

Commit(s) ==
  /\ At(s, "checking")
  /\ statement[s] > Len(SchemaSql(s))
  /\ committed' = committed \cup entered[s]
  /\ entered' = [entered EXCEPT ![s] = {}]
  /\ GoTo(s, "unlocking")
  /\ UNCHANGED <<statement, locks, crashes, collided>>

(* Defect: the client goes back to the pool with its lock.                 *)
AdvisoryUnlockDefect(s) ==
  /\ At(s, "unlocking")
  /\ GoTo(s, "released")
  /\ UNCHANGED <<statement, entered, committed, locks, crashes, collided>>

(* finally: the lock is given up and the client released.                  *)
AdvisoryUnlock(s) ==
  /\ At(s, "unlocking")
  /\ locks' = locks \ {<<SCHEMA_LOCK_KEY(s), s>>}
  /\ GoTo(s, "released")
  /\ UNCHANGED <<statement, entered, committed, crashes, collided>>

Listen(s) ==
  /\ At(s, "released")
  /\ GoTo(s, "up")
  /\ UNCHANGED <<statement, entered, committed, locks, crashes, collided>>

(* The session of a process that ends is ended by Postgres: its open       *)
(* transaction is rolled back and its locks are free.                      *)
SessionsEnd(S) ==
  /\ entered' = [s \in Services |-> IF s \in S THEN {} ELSE entered[s]]
  /\ locks' = {l \in locks : l[2] \notin S}

(* The failed query is thrown after the finally block, main rejects and    *)
(* the process ends.                                                       *)
BootFails(s) ==
  /\ At(s, "failing")
  /\ GoTo(s, "down")
  /\ SessionsEnd({s})
  /\ UNCHANGED <<statement, committed, crashes, collided>>

Crash(s) ==
  /\ crashes < MaxCrashes
  /\ ~At(s, "down")
  /\ crashes' = crashes + 1
  /\ GoTo(s, "down")
  /\ SessionsEnd({s})
  /\ UNCHANGED <<statement, committed, collided>>

(* The database restarts: the query of a boot in progress fails; a service *)
(* with its tables ends when the restart hits an idle client of its pool,  *)
(* whose 'error' event nobody listens to, and goes on otherwise.           *)
DatabaseRestart ==
  LET settled == {s \in Services : pc[s] \in {"down", "released", "up"}} IN
  /\ crashes < MaxCrashes
  /\ crashes' = crashes + 1
  /\ SessionsEnd(Services)
  /\ \E idle \in SUBSET settled :
       pc' = [s \in Services |->
         IF s \in idle THEN "down" ELSE IF s \in settled THEN pc[s] ELSE "failing"]
  /\ UNCHANGED <<statement, committed, collided>>

BootStep(s) ==
  \/ Boot(s) \/ AdvisoryLock(s) \/ Exists(s) \/ Create(s) \/ Commit(s)
  \/ AdvisoryUnlock(s) \/ Listen(s) \/ BootFails(s)

SchemaNext ==
  \/ \E s \in Services : BootStep(s) \/ Crash(s)
  \/ DatabaseRestart

SchemaSpec == SchemaInit /\ [][SchemaNext]_schemaVars

-----------------------------------------------------------------------------
(* "multiple BPPs booting at once race on CREATE TABLE IF NOT EXISTS and   *)
(* one hits a pg_type unique-violation": with the lock no boot fails on a  *)
(* table another service created, wherever services or the database stop.  *)
NoBootCollides == collided = {}

(* A service that listens finds every relation its queries name.           *)
UpHasItsTables == \A s \in Services : At(s, "up") => RelationsOf(s) \subseteq committed

(* Once the crashes stop every service is up for good: nobody waits for a  *)
(* lock whose holder ended, or which its holder kept.                      *)
EveryoneBoots == \A s \in Services : <>[]At(s, "up")
=============================================================================
