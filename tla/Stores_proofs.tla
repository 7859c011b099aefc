---------------------------- MODULE Stores_proofs ----------------------------
(***************************************************************************)
(* Theorems about the stores of the services, for any services, grants,    *)
(* downloads, crashes and restarts: no boot collides and a service that    *)
(* listens has its tables; in memory the cap holds between two restarts of *)
(* the BPP and a revocation is recorded until the Access Manager restarts. *)
(***************************************************************************)
EXTENDS Stores, Sequences, TLAPS

-----------------------------------------------------------------------------
(* The boots.                                                              *)
HoldsLock(s) == <<Boot!SCHEMA_LOCK_KEY(s), s>> \in locks

(* The part of Boot!SchemaTypeOK the steps of a boot depend on.            *)
BootTypes ==
  /\ pc \in [Boot!Services -> Boot!Steps]
  /\ statement \in [Boot!Services -> 1 .. 4]
  /\ entered \in [Boot!Services -> SUBSET Boot!Relations]
  /\ locks \subseteq {Boot!SCHEMA_LOCK_KEY(s) : s \in Boot!Services} \X Boot!Services

(* The rest of it.                                                         *)
BootCounts ==
  committed \subseteq Boot!Relations /\ crashes \in 0 .. MaxCrashes /\ collided \subseteq Boot!Services

(* All services lock one key, so at most one of them holds it.             *)
OneHolder ==
  \A s, u \in Boot!Services : HoldsLock(s) /\ HoldsLock(u) => s = u

(* Who is between the lock and the unlock holds it, and nobody else does;  *)
(* only who runs its SCHEMA_SQL has entered a relation that is not         *)
(* committed.                                                              *)
WorkersHold ==
  \A s \in Boot!Services :
    /\ pc[s] \in {"checking", "creating", "unlocking"} <=> HoldsLock(s)
    /\ entered[s] # {} => pc[s] \in {"checking", "creating"}

(* What IF NOT EXISTS found absent is absent until it is created.          *)
AbsentStays ==
  \A s \in Boot!Services : Boot!At(s, "creating") =>
    /\ statement[s] \in DOMAIN Boot!SchemaSql(s)
    /\ Boot!SchemaSql(s)[statement[s]] \notin committed

(* The statements behind a service are done.                               *)
StatementsDone ==
  \A s \in Boot!Services :
    /\ pc[s] = "locking" => statement[s] = 1
    /\ pc[s] \in {"checking", "creating"} =>
         \A i \in DOMAIN Boot!SchemaSql(s) :
           i < statement[s] => Boot!SchemaSql(s)[i] \in committed \cup entered[s]
    /\ pc[s] \in {"unlocking", "released", "up"} => Boot!RelationsOf(s) \subseteq committed

SchemaInv ==
  BootTypes /\ OneHolder /\ WorkersHold /\ AbsentStays /\ StatementsDone /\ Boot!NoBootCollides

-----------------------------------------------------------------------------
(* Every service's SCHEMA_SQL has two or three statements, each about one  *)
(* of the relations.                                                       *)
LEMMA SqlShape ==
  ASSUME NEW s \in Boot!Services
  PROVE  /\ Len(Boot!SchemaSql(s)) \in 2 .. 3
         /\ DOMAIN Boot!SchemaSql(s) = 1 .. Len(Boot!SchemaSql(s))
         /\ \A i \in DOMAIN Boot!SchemaSql(s) : Boot!SchemaSql(s)[i] \in Boot!Relations
<1>1. CASE s \in Managers
  BY <1>1 DEF Boot!SchemaSql, Boot!Relations
<1>2. CASE s \notin Managers
  BY <1>2 DEF Boot!SchemaSql, Boot!Relations
<1>. QED  BY <1>1, <1>2

(* A statement of SCHEMA_SQL has a successor among the positions, and its  *)
(* relation is one there is.                                               *)
LEMMA StatementShape ==
  ASSUME BootTypes, NEW s \in Boot!Services, statement[s] <= Len(Boot!SchemaSql(s))
  PROVE  /\ statement[s] \in DOMAIN Boot!SchemaSql(s)
         /\ statement[s] + 1 \in 1 .. 4
         /\ Boot!SchemaSql(s)[statement[s]] \in Boot!Relations
<1>1. statement[s] \in 1 .. 4
  BY DEF BootTypes
<1>2. statement[s] \in DOMAIN Boot!SchemaSql(s) /\ statement[s] + 1 \in 1 .. 4
  BY <1>1, SqlShape
<1>. QED  BY <1>2, SqlShape

(* A boot that starts, or ends without a word, leaves the others alone.    *)
LEMMA StartOrListenKeeps ==
  ASSUME SchemaInv, NEW s \in Boot!Services, Boot!Boot(s) \/ Boot!Listen(s)
  PROVE  SchemaInv'
<1>1. BootTypes'
  BY DEF SchemaInv, BootTypes, Boot!Boot, Boot!Listen, Boot!GoTo, Boot!Steps
<1>2. OneHolder' /\ Boot!NoBootCollides'
  BY DEF SchemaInv, OneHolder, HoldsLock, Boot!NoBootCollides, Boot!Boot, Boot!Listen
<1>3. WorkersHold'
  BY DEF SchemaInv, BootTypes, WorkersHold, HoldsLock, Boot!Boot, Boot!Listen, Boot!GoTo, Boot!At
<1>4. AbsentStays'
  BY DEF SchemaInv, BootTypes, AbsentStays, Boot!Boot, Boot!Listen, Boot!GoTo, Boot!At
<1>5. StatementsDone'
  BY DEF SchemaInv, BootTypes, StatementsDone, Boot!Boot, Boot!Listen, Boot!GoTo, Boot!At
<1>. QED  BY <1>1, <1>2, <1>3, <1>4, <1>5 DEF SchemaInv

(* The lock is granted when nobody else holds it.                          *)
LEMMA AdvisoryLockKeeps ==
  ASSUME SchemaInv, NEW s \in Boot!Services, Boot!AdvisoryLock(s)
  PROVE  SchemaInv'
<1>1. BootTypes'
  BY DEF SchemaInv, BootTypes, Boot!AdvisoryLock, Boot!GoTo, Boot!Steps, Boot!SCHEMA_LOCK_KEY
<1>2. OneHolder' /\ Boot!NoBootCollides'
  BY DEF SchemaInv, OneHolder, HoldsLock, Boot!NoBootCollides, Boot!AdvisoryLock, Boot!SCHEMA_LOCK_KEY
<1>3. WorkersHold'
  BY DEF SchemaInv, BootTypes, WorkersHold, HoldsLock, Boot!AdvisoryLock, Boot!GoTo, Boot!At
<1>4. AbsentStays'
  BY DEF SchemaInv, BootTypes, AbsentStays, Boot!AdvisoryLock, Boot!GoTo, Boot!At
<1>5. StatementsDone'
  BY SqlShape DEF SchemaInv, BootTypes, StatementsDone, Boot!AdvisoryLock, Boot!GoTo, Boot!At
<1>. QED  BY <1>1, <1>2, <1>3, <1>4, <1>5 DEF SchemaInv

(* IF NOT EXISTS skips a statement whose relation is there, or goes on to  *)
(* create one that is not.                                                 *)
LEMMA ExistsKeeps ==
  ASSUME SchemaInv, NEW s \in Boot!Services, Boot!Exists(s)
  PROVE  SchemaInv'
<1>. DEFINE relation == Boot!SchemaSql(s)[statement[s]]
<1>. UNCHANGED <<entered, committed, locks, collided>> /\ statement[s] \in Nat
  BY DEF Boot!Exists, SchemaInv, BootTypes
<1>1. BootTypes'
  <2>1. BootTypes /\ statement[s] + 1 \in 1 .. 4
    BY StatementShape DEF SchemaInv, Boot!Exists
  <2>2. pc' \in [Boot!Services -> Boot!Steps] /\ statement' \in [Boot!Services -> 1 .. 4]
    BY <2>1 DEF BootTypes, Boot!Exists, Boot!GoTo, Boot!Steps
  <2>. QED  BY <2>1, <2>2 DEF BootTypes
<1>2. OneHolder' /\ Boot!NoBootCollides'
  BY DEF SchemaInv, OneHolder, HoldsLock, Boot!NoBootCollides
<1>3. WorkersHold'
  BY DEF SchemaInv, BootTypes, WorkersHold, HoldsLock, Boot!Exists, Boot!GoTo, Boot!At
<1>4. ASSUME relation \in committed \cup entered[s]
      PROVE  AbsentStays' /\ StatementsDone'
  <2>1. pc[s] = "checking" /\ pc' = pc /\ statement' = [statement EXCEPT ![s] = @ + 1]
    BY <1>4 DEF Boot!Exists, Boot!At
  <2>2. AbsentStays'
    BY <2>1 DEF SchemaInv, BootTypes, AbsentStays, Boot!At
  <2>3. StatementsDone'
    BY <1>4, <2>1, SqlShape DEF SchemaInv, BootTypes, StatementsDone
  <2>. QED  BY <2>2, <2>3
<1>5. ASSUME relation \notin committed \cup entered[s]
      PROVE  AbsentStays' /\ StatementsDone'
  <2>1. pc[s] = "checking" /\ Boot!GoTo(s, "creating") /\ statement' = statement
    BY <1>5 DEF Boot!Exists, Boot!At
  <2>2. statement[s] \in DOMAIN Boot!SchemaSql(s)
    BY SqlShape DEF Boot!Exists, SchemaInv, BootTypes
  <2>3. AbsentStays'
    BY <1>5, <2>1, <2>2 DEF SchemaInv, BootTypes, AbsentStays, Boot!At, Boot!GoTo
  <2>4. StatementsDone'
    BY <2>1 DEF SchemaInv, BootTypes, StatementsDone, Boot!GoTo
  <2>. QED  BY <2>3, <2>4
<1>. QED  BY <1>1, <1>2, <1>3, <1>4, <1>5 DEF SchemaInv

(* The relation is still absent, so that the creation does not collide.    *)
LEMMA CreateKeeps ==
  ASSUME SchemaInv, NEW s \in Boot!Services, Boot!Create(s)
  PROVE  SchemaInv'
<1>. DEFINE relation == Boot!SchemaSql(s)[statement[s]]
<1>1. relation \notin committed /\ statement[s] \in DOMAIN Boot!SchemaSql(s)
  BY DEF SchemaInv, AbsentStays, Boot!Create, Boot!At
<1>2. /\ pc[s] = "creating" /\ Boot!GoTo(s, "checking")
      /\ entered' = [entered EXCEPT ![s] = @ \cup {relation}]
      /\ statement' = [statement EXCEPT ![s] = @ + 1]
      /\ UNCHANGED <<committed, locks, collided>>
  BY <1>1 DEF Boot!Create, Boot!At
<1>3. BootTypes'
  <2>1. BootTypes /\ statement[s] + 1 \in 1 .. 4 /\ relation \in Boot!Relations
    BY <1>1, StatementShape, SqlShape DEF SchemaInv, BootTypes
  <2>2. pc' \in [Boot!Services -> Boot!Steps] /\ statement' \in [Boot!Services -> 1 .. 4]
    BY <1>2, <2>1 DEF BootTypes, Boot!GoTo, Boot!Steps
  <2>3. entered' \in [Boot!Services -> SUBSET Boot!Relations]
    BY <1>2, <2>1 DEF BootTypes
  <2>. QED  BY <1>2, <2>1, <2>2, <2>3 DEF BootTypes
<1>4. OneHolder' /\ Boot!NoBootCollides'
  BY <1>2 DEF SchemaInv, OneHolder, HoldsLock, Boot!NoBootCollides
<1>5. WorkersHold'
  BY <1>2 DEF SchemaInv, BootTypes, WorkersHold, HoldsLock, Boot!GoTo
<1>6. AbsentStays'
  BY <1>2 DEF SchemaInv, BootTypes, AbsentStays, Boot!GoTo, Boot!At
<1>7. StatementsDone'
  BY <1>1, <1>2, SqlShape DEF SchemaInv, BootTypes, StatementsDone, Boot!GoTo
<1>. QED  BY <1>3, <1>4, <1>5, <1>6, <1>7 DEF SchemaInv

(* Nobody else is about to create what a commit makes visible: that        *)
(* service would hold the lock too.                                        *)
LEMMA CommitKeeps ==
  ASSUME SchemaInv, NEW s \in Boot!Services, Boot!Commit(s)
  PROVE  SchemaInv'
<1>1. BootTypes'
  BY DEF SchemaInv, BootTypes, Boot!Commit, Boot!GoTo, Boot!Steps
<1>2. OneHolder' /\ Boot!NoBootCollides'
  BY DEF SchemaInv, OneHolder, HoldsLock, Boot!NoBootCollides, Boot!Commit
<1>3. WorkersHold'
  BY DEF SchemaInv, BootTypes, WorkersHold, HoldsLock, Boot!Commit, Boot!GoTo, Boot!At
<1>4. ASSUME NEW u \in Boot!Services PROVE ~Boot!At(u, "creating")'
  BY DEF SchemaInv, BootTypes, OneHolder, WorkersHold, Boot!Commit, Boot!GoTo, Boot!At
<1>5. AbsentStays'
  BY <1>4 DEF AbsentStays
<1>6. Boot!RelationsOf(s) \subseteq committed'
  BY SqlShape DEF SchemaInv, BootTypes, StatementsDone, Boot!Commit, Boot!At, Boot!RelationsOf
<1>7. StatementsDone'
  BY <1>6 DEF SchemaInv, BootTypes, StatementsDone, Boot!Commit, Boot!GoTo
<1>. QED  BY <1>1, <1>2, <1>3, <1>5, <1>7 DEF SchemaInv

LEMMA AdvisoryUnlockKeeps ==
  ASSUME SchemaInv, NEW s \in Boot!Services, Boot!AdvisoryUnlock(s)
  PROVE  SchemaInv'
<1>1. BootTypes'
  BY DEF SchemaInv, BootTypes, Boot!AdvisoryUnlock, Boot!GoTo, Boot!Steps
<1>2. OneHolder' /\ Boot!NoBootCollides'
  BY DEF SchemaInv, OneHolder, HoldsLock, Boot!NoBootCollides, Boot!AdvisoryUnlock
<1>3. WorkersHold'
  BY DEF SchemaInv, BootTypes, WorkersHold, HoldsLock, Boot!AdvisoryUnlock, Boot!GoTo, Boot!At
<1>4. AbsentStays'
  BY DEF SchemaInv, BootTypes, AbsentStays, Boot!AdvisoryUnlock, Boot!GoTo, Boot!At
<1>5. StatementsDone'
  BY DEF SchemaInv, BootTypes, StatementsDone, Boot!AdvisoryUnlock, Boot!GoTo, Boot!At
<1>. QED  BY <1>1, <1>2, <1>3, <1>4, <1>5 DEF SchemaInv

(* A session that ends takes its transaction and its lock with it.         *)
LEMMA EndKeeps ==
  ASSUME SchemaInv, NEW s \in Boot!Services, Boot!BootFails(s) \/ Boot!Crash(s)
  PROVE  SchemaInv'
<1>1. /\ Boot!GoTo(s, "down") /\ Boot!SessionsEnd({s})
      /\ UNCHANGED <<statement, committed, collided>>
  BY DEF Boot!BootFails, Boot!Crash
<1>2. BootTypes'
  BY <1>1 DEF SchemaInv, BootTypes, Boot!GoTo, Boot!SessionsEnd, Boot!Steps
<1>3. OneHolder' /\ Boot!NoBootCollides'
  BY <1>1 DEF SchemaInv, OneHolder, HoldsLock, Boot!NoBootCollides, Boot!SessionsEnd
<1>4. WorkersHold'
  BY <1>1 DEF SchemaInv, BootTypes, WorkersHold, HoldsLock, Boot!GoTo, Boot!SessionsEnd
<1>5. AbsentStays'
  BY <1>1 DEF SchemaInv, BootTypes, AbsentStays, Boot!GoTo, Boot!At
<1>6. StatementsDone'
  BY <1>1 DEF SchemaInv, BootTypes, StatementsDone, Boot!GoTo, Boot!SessionsEnd
<1>. QED  BY <1>2, <1>3, <1>4, <1>5, <1>6 DEF SchemaInv

(* When the database restarts every boot in progress fails.                *)
LEMMA DatabaseRestartKeeps ==
  ASSUME SchemaInv, Boot!DatabaseRestart
  PROVE  SchemaInv'
<1>1. /\ pc' \in [Boot!Services -> Boot!Steps]
      /\ \A s \in Boot!Services :
           \/ pc'[s] \in {"down", "failing"}
           \/ pc'[s] = pc[s] /\ pc[s] \in {"down", "released", "up"}
  BY DEF SchemaInv, BootTypes, Boot!DatabaseRestart, Boot!Steps
<1>2. /\ entered' = [s \in Boot!Services |-> {}] /\ locks' = {}
      /\ UNCHANGED <<statement, committed, collided>>
  BY DEF Boot!DatabaseRestart, Boot!SessionsEnd, SchemaInv, BootTypes
<1>3. BootTypes' /\ OneHolder' /\ Boot!NoBootCollides'
  BY <1>1, <1>2 DEF SchemaInv, BootTypes, OneHolder, HoldsLock, Boot!NoBootCollides
<1>4. WorkersHold' /\ AbsentStays' /\ StatementsDone'
  BY <1>1, <1>2 DEF SchemaInv, WorkersHold, HoldsLock, AbsentStays, StatementsDone, Boot!At
<1>. QED  BY <1>3, <1>4 DEF SchemaInv

-----------------------------------------------------------------------------
(* Whoever boots, crashes or restarts, only the holder of the lock works   *)
(* on the schema, and what it found absent is absent when it creates it.   *)
THEOREM SchemaInvariant == Boot!SchemaSpec => []SchemaInv
<1>1. Boot!SchemaInit => SchemaInv
  BY DEF Boot!SchemaInit, SchemaInv, BootTypes, OneHolder, HoldsLock, WorkersHold, AbsentStays,
         StatementsDone, Boot!NoBootCollides, Boot!At, Boot!Steps
<1>2. SchemaInv /\ [Boot!SchemaNext]_(Boot!schemaVars) => SchemaInv'
  <2>. SUFFICES ASSUME SchemaInv, [Boot!SchemaNext]_(Boot!schemaVars) PROVE SchemaInv'
    OBVIOUS
  <2>1. ASSUME NEW s \in Boot!Services, Boot!BootStep(s) \/ Boot!Crash(s) PROVE SchemaInv'
    BY <2>1, StartOrListenKeeps, AdvisoryLockKeeps, ExistsKeeps, CreateKeeps, CommitKeeps,
       AdvisoryUnlockKeeps, EndKeeps DEF Boot!BootStep
  <2>2. CASE UNCHANGED Boot!schemaVars
    BY <2>2 DEF Boot!schemaVars, SchemaInv, BootTypes, OneHolder, HoldsLock, WorkersHold,
                AbsentStays, StatementsDone, Boot!NoBootCollides, Boot!At
  <2>. QED  BY <2>1, <2>2, DatabaseRestartKeeps DEF Boot!SchemaNext
<1>. QED  BY <1>1, <1>2, PTL DEF Boot!SchemaSpec

(* initSchema, under its advisory lock, never fails on a table another     *)
(* service created at the same time.                                       *)
THEOREM BootsNeverCollide == Boot!SchemaSpec => []Boot!NoBootCollides
<1>1. SchemaInv => Boot!NoBootCollides
  BY DEF SchemaInv
<1>. QED  BY <1>1, SchemaInvariant, PTL

(* A service listens only when every relation of its SCHEMA_SQL is         *)
(* committed, and none is ever lost.                                       *)
THEOREM ListenersHaveTables == Boot!SchemaSpec => []Boot!UpHasItsTables
<1>1. SchemaInv => Boot!UpHasItsTables
  BY DEF SchemaInv, StatementsDone, Boot!UpHasItsTables, Boot!At
<1>. QED  BY <1>1, SchemaInvariant, PTL
(* What a boot does to the counters and the committed relations.           *)
LEMMA BootCountsKeep ==
  ASSUME SchemaInv, BootCounts, [Boot!SchemaNext]_(Boot!schemaVars)
  PROVE  BootCounts'
<1>. USE StoresAssumption
<1>1. ASSUME NEW s \in Boot!Services, Boot!BootStep(s) PROVE BootCounts'
  <2>1. committed' \subseteq Boot!Relations
    BY <1>1 DEF SchemaInv, BootTypes, BootCounts, Boot!BootStep, Boot!Boot, Boot!AdvisoryLock,
       Boot!Exists, Boot!Create, Boot!Commit, Boot!AdvisoryUnlock, Boot!Listen, Boot!BootFails
  <2>2. crashes' = crashes /\ collided' \in {collided, collided \cup {s}}
    BY <1>1 DEF Boot!BootStep, Boot!Boot, Boot!AdvisoryLock, Boot!Exists, Boot!Create,
       Boot!Commit, Boot!AdvisoryUnlock, Boot!Listen, Boot!BootFails
  <2>. QED  BY <2>1, <2>2 DEF BootCounts
<1>2. ASSUME NEW s \in Boot!Services, Boot!Crash(s) PROVE BootCounts'
  BY <1>2 DEF BootCounts, Boot!Crash
<1>3. CASE Boot!DatabaseRestart
  BY <1>3 DEF BootCounts, Boot!DatabaseRestart
<1>4. CASE UNCHANGED Boot!schemaVars
  BY <1>4 DEF BootCounts, Boot!schemaVars
<1>. QED  BY <1>1, <1>2, <1>3, <1>4 DEF Boot!SchemaNext

(* The types, and the two promises, of the boots.                          *)
LEMMA BootsAreSound == Boot!SchemaSpec => []BootsDoNotCollide
<1>1. Boot!SchemaInit => BootCounts
  BY StoresAssumption DEF Boot!SchemaInit, BootCounts
<1>2. SchemaInv /\ BootCounts /\ [Boot!SchemaNext]_(Boot!schemaVars) => BootCounts'
  BY BootCountsKeep
<1>3. SchemaInv /\ BootCounts => BootsDoNotCollide
  BY DEF SchemaInv, BootTypes, BootCounts, StatementsDone, BootsDoNotCollide,
     Boot!SchemaTypeOK, Boot!UpHasItsTables, Boot!At
<1>. QED  BY <1>1, <1>2, <1>3, SchemaInvariant, PTL DEF Boot!SchemaSpec

-----------------------------------------------------------------------------
(* The in-memory stores.                                                   *)

(* A download that began has a grant.                                      *)
Presented ==
  \A d \in MemoryDownloads : download[d].pc # "idle" => download[d].grant \in MemoryGrants

(* The map counts every file it let through, and lets none through beyond  *)
(* the cap.                                                                *)
CountedAndCapped ==
  \A g \in MemoryGrants : served[g] <= counts[g] /\ served[g] <= Cap

(* Only what was issued has a record, so that no id is issued, and its     *)
(* record replaced, after it was revoked.                                  *)
RecordsAreIssued ==
  \A g \in MemoryGrants : (map[g] # None \/ g \in answered) => expiresAt[g] # None

MemoryInv ==
  /\ Memory!DevTypeOK /\ Presented /\ CountedAndCapped
  /\ RecordsAreIssued /\ Memory!AnsweredIsRecorded

(* The records of a download.                                              *)
LEMMA DownloadWithPc ==
  ASSUME NEW d \in MemoryDownloads, Memory!DevTypeOK,
         NEW step \in {"verified", "checked", "served", "refused"},
         download' = [download EXCEPT ![d].pc = step]
  PROVE  /\ download' \in [MemoryDownloads ->
              [grant : MemoryGrants \cup {None},
               pc : {"idle", "verified", "checked", "served", "refused"}]]
         /\ \A e \in MemoryDownloads \ {d} : download'[e] = download[e]
         /\ download'[d].grant = download[d].grant /\ download'[d].pc = step
<1>1. download' = [download EXCEPT ![d] = [download[d] EXCEPT !.pc = step]]
  OBVIOUS
<1>. QED  BY <1>1 DEF Memory!DevTypeOK

(* The clock, the sweep and the requests of a consumer: one record of the  *)
(* ledger and its history.                                                 *)
LEMMA LedgerKeeps ==
  ASSUME MemoryInv,
         Memory!Tick \/ Memory!MarkExpired \/ Memory!RestartAm
           \/ \E g \in MemoryGrants : Memory!Save(g) \/ Memory!Revoke(g)
  PROVE  MemoryInv'
<1>. USE StoresAssumption, NoneIsNoNumber, NoneIsNoStatus DEF MemoryInv
<1>1. UNCHANGED <<revoked, counts, download, served>>
  BY DEF Memory!Tick, Memory!MarkExpired, Memory!RestartAm, Memory!Save, Memory!Revoke, Memory!bppVars
<1>2. Presented' /\ CountedAndCapped'
  BY <1>1 DEF Presented, CountedAndCapped
<1>3. Memory!DevTypeOK'
  <2>1. clock' \in 0 .. MaxClock /\ restarts' \in 0 .. MaxRestarts /\ answered' \subseteq MemoryGrants
    BY DEF Memory!DevTypeOK, Memory!Tick, Memory!MarkExpired, Memory!RestartAm, Memory!Save,
       Memory!Revoke, Memory!amVars
  <2>2. map' \in [MemoryGrants -> Memory!Statuses \cup {None}]
    BY DEF Memory!DevTypeOK, Memory!Tick, Memory!MarkExpired, Memory!RestartAm, Memory!Save,
       Memory!Revoke, Memory!amVars, Memory!Statuses, Memory!EmptyLedger
  <2>3. expiresAt' \in [MemoryGrants -> (0 .. (MaxClock + TTL)) \cup {None}]
    BY DEF Memory!DevTypeOK, Memory!Tick, Memory!MarkExpired, Memory!RestartAm, Memory!Save,
       Memory!Revoke, Memory!amVars
  <2>. QED  BY <1>1, <2>1, <2>2, <2>3 DEF Memory!DevTypeOK
<1>4. RecordsAreIssued' /\ Memory!AnsweredIsRecorded'
  BY DEF RecordsAreIssued, Memory!AnsweredIsRecorded, Memory!DevTypeOK, Memory!Statuses, Memory!Tick,
     Memory!MarkExpired, Memory!RestartAm, Memory!Save, Memory!Revoke, Memory!amVars, Memory!EmptyLedger
<1>. QED  BY <1>2, <1>3, <1>4

(* A request at the BPP: its own maps and its own record.                  *)
LEMMA GateKeeps ==
  ASSUME MemoryInv, NEW d \in MemoryDownloads,
         \/ Memory!IsRevoked(d) \/ Memory!RecordRedemption(d)
         \/ \E g \in MemoryGrants : Memory!Present(d, g)
  PROVE  MemoryInv'
<1>. USE DEF MemoryInv
<1>1. UNCHANGED <<clock, expiresAt, map, answered, revoked, restarts>>
  BY DEF Memory!IsRevoked, Memory!RecordRedemption, Memory!Present, Memory!amVars
<1>2. RecordsAreIssued' /\ Memory!AnsweredIsRecorded'
  BY <1>1 DEF RecordsAreIssued, Memory!AnsweredIsRecorded
<1>3. ASSUME NEW g \in MemoryGrants, Memory!Present(d, g) PROVE MemoryInv'
  <2>1. UNCHANGED <<counts, served>> /\ Memory!DevTypeOK' /\ Presented'
    BY <1>1, <1>3 DEF Memory!Present, Memory!DevTypeOK, Presented
  <2>. QED  BY <1>2, <2>1 DEF CountedAndCapped
<1>4. CASE Memory!IsRevoked(d)
  <2>1. PICK step \in {"verified", "checked", "served", "refused"} :
          download' = [download EXCEPT ![d].pc = step]
    BY <1>4 DEF Memory!IsRevoked
  <2>2. download[d].pc = "verified" /\ UNCHANGED <<counts, served>>
    BY <1>4 DEF Memory!IsRevoked
  <2>3. Memory!DevTypeOK' /\ Presented'
    BY <1>1, <2>1, <2>2, DownloadWithPc DEF Memory!DevTypeOK, Presented
  <2>. QED  BY <1>2, <2>2, <2>3 DEF CountedAndCapped
<1>5. CASE Memory!RecordRedemption(d)
  <2>. DEFINE g == download[d].grant
  <2>1. PICK step \in {"verified", "checked", "served", "refused"} :
          download' = [download EXCEPT ![d].pc = step]
    BY <1>5 DEF Memory!RecordRedemption
  <2>2. /\ download[d].pc = "checked" /\ g \in MemoryGrants
        /\ counts' = [counts EXCEPT ![g] = counts[g] + 1]
        /\ served' = IF counts[g] + 1 > Cap THEN served ELSE [served EXCEPT ![g] = @ + 1]
    BY <1>5 DEF Memory!RecordRedemption, Presented
  <2>3. counts' \in [MemoryGrants -> Nat] /\ served' \in [MemoryGrants -> Nat] /\ CountedAndCapped'
    BY <2>2, StoresAssumption DEF Memory!DevTypeOK, CountedAndCapped
  <2>4. Memory!DevTypeOK' /\ Presented'
    BY <1>1, <2>1, <2>2, <2>3, DownloadWithPc DEF Memory!DevTypeOK, Presented
  <2>. QED  BY <1>2, <2>3, <2>4
<1>. QED  BY <1>3, <1>4, <1>5

(* A BPP that restarts counts from nothing, and so does the history.       *)
LEMMA RestartBppKeeps ==
  ASSUME MemoryInv, Memory!RestartBpp
  PROVE  MemoryInv'
<1>. USE StoresAssumption DEF MemoryInv
<1>1. /\ restarts \in Nat /\ restarts' = restarts + 1 /\ restarts' \in 0 .. MaxRestarts
      /\ UNCHANGED <<clock, expiresAt, map, answered>>
  BY DEF Memory!RestartBpp, Memory!DevTypeOK, Memory!amVars
<1>2. revoked' = {} /\ counts' = Memory!NoCounts /\ served' = Memory!NoCounts
  BY DEF Memory!RestartBpp
<1>3. \A d \in MemoryDownloads :
        [download[d] EXCEPT !.pc = "refused"] =
          [grant |-> download[d].grant, pc |-> "refused"]
  BY DEF Memory!DevTypeOK
<1>4. /\ download' \in [MemoryDownloads ->
           [grant : MemoryGrants \cup {None},
            pc : {"idle", "verified", "checked", "served", "refused"}]]
      /\ Presented'
  BY <1>3 DEF Memory!RestartBpp, Memory!DevTypeOK, Presented
<1>5. Memory!DevTypeOK' /\ CountedAndCapped'
  BY <1>1, <1>2, <1>4 DEF Memory!DevTypeOK, CountedAndCapped, Memory!NoCounts
<1>6. RecordsAreIssued' /\ Memory!AnsweredIsRecorded'
  BY <1>1 DEF RecordsAreIssued, Memory!AnsweredIsRecorded
<1>. QED  BY <1>4, <1>5, <1>6

(* In memory the gate counts what it serves and the ledger records what it *)
(* answered, between the restarts that empty them.                         *)
THEOREM MemoryInvariant == Memory!DevSpec => []MemoryInv
<1>1. Memory!DevInit => MemoryInv
  BY StoresAssumption
  DEF Memory!DevInit, MemoryInv, Memory!DevTypeOK, Presented, CountedAndCapped, RecordsAreIssued,
      Memory!AnsweredIsRecorded, Memory!EmptyLedger, Memory!NoCounts, Memory!Idle
<1>2. MemoryInv /\ [Memory!DevNext]_(Memory!devVars) => MemoryInv'
  <2>. SUFFICES ASSUME MemoryInv, [Memory!DevNext]_(Memory!devVars) PROVE MemoryInv'
    OBVIOUS
  <2>1. CASE UNCHANGED Memory!devVars
    BY <2>1 DEF Memory!devVars, MemoryInv, Memory!DevTypeOK, Presented, CountedAndCapped,
                RecordsAreIssued, Memory!AnsweredIsRecorded
  <2>. QED  BY <2>1, LedgerKeeps, GateKeeps, RestartBppKeeps DEF Memory!DevNext
<1>. QED  BY <1>1, <1>2, PTL DEF Memory!DevSpec

-----------------------------------------------------------------------------
(* The deployments.                                                        *)

(* A deployment has one kind of stores, and the composition adds no step   *)
(* to any of them: what each does is what its own specification allows.    *)
THEOREM StoresImplementEach == StoresSpec => AMSpec /\ Boot!SchemaSpec /\ Memory!DevSpec
<1>1. StoresInit => AloneInit /\ Boot!SchemaInit /\ Memory!DevInit
  BY DEF StoresInit
<1>2. [StoresNext]_<<stores, postgresVars, bootVars, memoryVars>> =>
        /\ [AloneNext]_<<sharedVars, amVars>>
        /\ [Boot!SchemaNext]_(Boot!schemaVars)
        /\ [Memory!DevNext]_(Memory!devVars)
  BY DEF StoresNext, postgresVars, bootVars, memoryVars, Boot!schemaVars, Memory!devVars
<1>. QED  BY <1>1, <1>2, PTL DEF StoresSpec, AMSpec, Boot!SchemaSpec, Memory!DevSpec

(* With the advisory lock no boot fails on a table another service created *)
(* and a service that listens finds its tables, wherever services or the   *)
(* database stop.                                                          *)
THEOREM DeployedBootsDoNotCollide == StoresSpec => []BootsDoNotCollide
BY StoresImplementEach, BootsAreSound, PTL

(* Without Postgres a grant is served at most Cap times between two        *)
(* restarts of the BPP, and a revocation that was answered is in the       *)
(* ledger until a restart.                                                 *)
THEOREM DeployedMemoryKeepsItsWord == StoresSpec => []MemoryKeepsItsWord
<1>1. MemoryInv => MemoryKeepsItsWord
  BY DEF MemoryInv, CountedAndCapped, MemoryKeepsItsWord, Memory!CapWithinLife
<1>. QED  BY <1>1, StoresImplementEach, MemoryInvariant, PTL
=============================================================================
