--------------------------- MODULE AccessManager ---------------------------
(***************************************************************************)
(* The Access Manager (services/access-manager) on its Postgres store:     *)
(* issuing a grant, revoking it in a transaction, sweeping expired rows,   *)
(* and answering reads.  One step is what happens between two awaits.      *)
(***************************************************************************)
EXTENDS GrantStore

CONSTANTS
  Revokers,   \* requests POST /grants/:id/revoke
  Sweeper,    \* the expiry timer, as the owner of a lock or a connection
  PoolSize    \* connections of the Access Manager's pool

ASSUME SweeperAssumption ==
  Sweeper \notin Revokers /\ None \notin Revokers \cup {Sweeper}
ASSUME NoneIsNoGrant == None \notin Grants \cup {"revoked", "already-revoked"}
ASSUME PoolAssumption == PoolSize \in Nat \ {0}

VARIABLES
  issue,         \* grant -> how far the request that mints it has come
  ledger,        \* grant -> committed status of its row of table grants
  revoker,       \* revoke request -> its grant, its step and its answer
  writes,        \* revoke request -> what its open transaction has written
  sweep,         \* the UPDATE of the expiry timer
  rowLock,       \* grant -> who holds the lock of its row, or None
  connections    \* who has a connection of the pool checked out

amVars == <<issue, ledger, revoker, writes, sweep, rowLock, connections>>

Statuses == {"ABSENT", "ISSUED", "EXPIRED", "REVOKED"}
IssueSteps == {"idle", "signed", "saved", "replied", "failed"}
InTransaction ==
  {"begun", "selected", "updated", "inserted", "missing", "duplicate", "error"}
RevokeSteps == {"idle", "connecting", "done"} \cup InTransaction
Answers == {"revoked", "already-revoked", "not-found", "error"}

RevokerState ==
  [grant : Grants \cup {None}, pc : RevokeSteps, answer : Answers \cup {None}]
SweepState ==
  [pc : {"idle", "connecting", "updating"}, cutoff : Nat,
   todo : SUBSET Grants, marked : SUBSET Grants]

AMTypeOK ==
  /\ issue \in [Grants -> IssueSteps]
  /\ ledger \in [Grants -> Statuses]
  /\ revoker \in [Revokers -> RevokerState]
  /\ writes \in [Revokers -> SUBSET {"status", "revocation"}]
  /\ sweep \in SweepState
  /\ rowLock \in [Grants -> Revokers \cup {Sweeper, None}]
  /\ connections \subseteq Revokers \cup {Sweeper}

NoSweep == [pc |-> "idle", cutoff |-> 0, todo |-> {}, marked |-> {}]

AMInit ==
  /\ issue = [g \in Grants |-> "idle"]
  /\ ledger = [g \in Grants |-> "ABSENT"]
  /\ revoker = [r \in Revokers |-> [grant |-> None, pc |-> "idle", answer |-> None]]
  /\ writes = [r \in Revokers |-> {}]
  /\ sweep = NoSweep
  /\ rowLock = [g \in Grants |-> None]
  /\ connections = {}

PoolHasRoom == Cardinality(connections) < PoolSize

-----------------------------------------------------------------------------
(* POST /grants and GrantService.issue.                                    *)

ClaimsFor(req, at) ==
  [bpp |-> req.bpp, resource |-> req.resource, offer |-> req.offer,
   scope |-> req.scope, notBefore |-> at, expiresAt |-> at + req.ttl]

(* The clock is read, the claims are built and signed.                     *)
Sign(g) ==
  /\ issue[g] = "idle"
  /\ \E req \in Requests : claims' = [claims EXCEPT ![g] = ClaimsFor(req, now)]
  /\ issue' = [issue EXCEPT ![g] = "signed"]
  /\ UNCHANGED <<now, faults, held, revocations>>
  /\ UNCHANGED <<ledger, revoker, writes, sweep, rowLock, connections>>

InsertRow(g) ==
  ledger' = [ledger EXCEPT ![g] = IF @ = "ABSENT" THEN "ISSUED" ELSE @]

(* store.save: one INSERT ... ON CONFLICT DO NOTHING, committed at once.   *)
Save(g) ==
  /\ issue[g] = "signed"
  /\ PoolHasRoom
  /\ InsertRow(g)
  /\ issue' = [issue EXCEPT ![g] = "saved"]
  /\ UNCHANGED <<sharedVars, revoker, writes, sweep, rowLock, connections>>

(* Defect: the failure of the save is swallowed.                           *)
SaveFailsDefect(g) ==
  /\ issue[g] = "signed"
  /\ Fault
  /\ issue' = [issue EXCEPT ![g] = "saved"]
  /\ UNCHANGED <<now, claims, held, revocations>>
  /\ UNCHANGED <<ledger, revoker, writes, sweep, rowLock, connections>>

(* store.save throws, with the row written or not; the caller gets a 500.  *)
SaveFails(g) ==
  /\ issue[g] = "signed"
  /\ Fault
  /\ InsertRow(g) \/ UNCHANGED ledger
  /\ issue' = [issue EXCEPT ![g] = "failed"]
  /\ UNCHANGED <<now, claims, held, revocations>>
  /\ UNCHANGED <<revoker, writes, sweep, rowLock, connections>>

(* 201 with the signed grant.                                              *)
ReplyIssued(g) ==
  /\ issue[g] = "saved"
  /\ issue' = [issue EXCEPT ![g] = "replied"]
  /\ held' = held \cup {g}
  /\ UNCHANGED <<now, faults, claims, revocations>>
  /\ UNCHANGED <<ledger, revoker, writes, sweep, rowLock, connections>>

(* The 201 never reaches the BAP.                                          *)
ReplyLost(g) ==
  /\ issue[g] = "saved"
  /\ Fault
  /\ issue' = [issue EXCEPT ![g] = "failed"]
  /\ UNCHANGED <<now, claims, held, revocations>>
  /\ UNCHANGED <<ledger, revoker, writes, sweep, rowLock, connections>>

(* GET /grants/:id and GET /grants?grantee= return the whole record, the   *)
(* signed grant included, so a grant whose 201 was lost can be fetched.    *)
ReadGrant(g) ==
  /\ ledger[g] # "ABSENT"
  /\ held' = held \cup {g}
  /\ UNCHANGED <<now, faults, claims, revocations, amVars>>

-----------------------------------------------------------------------------
(* POST /grants/:id/revoke and PostgresGrantStore.revoke.                  *)

At(r, step) == revoker' = [revoker EXCEPT ![r].pc = step]

Target(r) == revoker[r].grant

LocksOf(owner) == { g \in Grants : rowLock[g] = owner }

(* End of r's transaction and client.release(): locks and connection go.   *)
Release(owner) ==
  /\ rowLock' = [g \in Grants |-> IF rowLock[g] = owner THEN None ELSE rowLock[g]]
  /\ connections' = connections \ {owner}

Finish(r, ans) ==
  revoker' = [revoker EXCEPT ![r].pc = "done", ![r].answer = ans]

RequestRevoke(r, g) ==
  /\ revoker[r].pc = "idle"
  /\ revoker' = [revoker EXCEPT ![r].grant = g, ![r].pc = "connecting"]
  /\ UNCHANGED <<sharedVars, issue, ledger, writes, sweep, rowLock, connections>>

(* pool.connect() gives the request a connection; BEGIN.                   *)
Begin(r) ==
  /\ revoker[r].pc = "connecting"
  /\ PoolHasRoom
  /\ connections' = connections \cup {r}
  /\ At(r, "begun")
  /\ UNCHANGED <<sharedVars, issue, ledger, writes, sweep, rowLock>>

(* Defect: SELECT without FOR UPDATE.                                      *)
SelectWithoutLock(r) ==
  /\ revoker[r].pc = "begun"
  /\ At(r, CASE ledger[Target(r)] = "ABSENT"  -> "missing"
             [] ledger[Target(r)] = "REVOKED" -> "duplicate"
             [] OTHER                         -> "selected")
  /\ UNCHANGED <<sharedVars, issue, ledger, writes, sweep, rowLock, connections>>

(* Defect: every row that is no longer ISSUED is taken for a revoked one.  *)
SelectIssuedOnly(r) ==
  LET g == Target(r) IN
  /\ revoker[r].pc = "begun"
  /\ rowLock[g] = None
  /\ rowLock' = IF ledger[g] = "ABSENT" THEN rowLock ELSE [rowLock EXCEPT ![g] = r]
  /\ At(r, CASE ledger[g] = "ABSENT" -> "missing"
             [] ledger[g] = "ISSUED" -> "selected"
             [] OTHER                -> "duplicate")
  /\ UNCHANGED <<sharedVars, issue, ledger, writes, sweep, connections>>

(* SELECT status ... FOR UPDATE: waits until nobody else holds the row,    *)
(* then locks it and reads what is committed.  No row, no lock.            *)
SelectForUpdate(r) ==
  LET g == Target(r) IN
  /\ revoker[r].pc = "begun"
  /\ rowLock[g] = None
  /\ rowLock' = IF ledger[g] = "ABSENT" THEN rowLock ELSE [rowLock EXCEPT ![g] = r]
  /\ At(r, CASE ledger[g] = "ABSENT"  -> "missing"
             [] ledger[g] = "REVOKED" -> "duplicate"
             [] OTHER                 -> "selected")
  /\ UNCHANGED <<sharedVars, issue, ledger, writes, sweep, connections>>

(* UPDATE grants SET status = 'REVOKED', not visible to others yet.        *)
UpdateStatus(r) ==
  /\ revoker[r].pc = "selected"
  /\ writes' = [writes EXCEPT ![r] = @ \cup {"status"}]
  /\ At(r, "updated")
  /\ UNCHANGED <<sharedVars, issue, ledger, sweep, rowLock, connections>>

(* Defect: only the ledger is told.                                        *)
InsertRevocationDefect(r) ==
  /\ revoker[r].pc = "updated"
  /\ At(r, "inserted")
  /\ UNCHANGED <<sharedVars, issue, ledger, writes, sweep, rowLock, connections>>

(* INSERT INTO grant_revocations, not visible to others yet.               *)
InsertRevocation(r) ==
  /\ revoker[r].pc = "updated"
  /\ writes' = [writes EXCEPT ![r] = @ \cup {"revocation"}]
  /\ At(r, "inserted")
  /\ UNCHANGED <<sharedVars, issue, ledger, sweep, rowLock, connections>>

(* What a commit of r's transaction makes visible.                         *)
ApplyWrites(r) ==
  LET g == Target(r) IN
  /\ ledger' = IF "status" \in writes[r] THEN [ledger EXCEPT ![g] = "REVOKED"]
               ELSE ledger
  /\ revocations' = IF "revocation" \in writes[r] THEN revocations \cup {g}
                    ELSE revocations
  /\ writes' = [writes EXCEPT ![r] = {}]

Commit(r) ==
  /\ revoker[r].pc = "inserted"
  /\ ApplyWrites(r)
  /\ Release(r)
  /\ Finish(r, "revoked")
  /\ UNCHANGED <<now, faults, claims, held, issue, sweep>>

(* The database commits, but the answer to COMMIT is lost: the catch block *)
(* rolls back nothing and rethrows.                                        *)
CommitAnswerLost(r) ==
  /\ revoker[r].pc = "inserted"
  /\ Fault
  /\ ApplyWrites(r)
  /\ rowLock' = [rowLock EXCEPT ![Target(r)] = None]
  /\ At(r, "error")
  /\ UNCHANGED <<now, claims, held, issue, sweep, connections>>

(* A statement of the transaction throws: on to the catch block.           *)
StatementFails(r) ==
  /\ revoker[r].pc \in InTransaction \ {"error"}
  /\ Fault
  /\ At(r, "error")
  /\ UNCHANGED <<now, claims, held, revocations>>
  /\ UNCHANGED <<issue, ledger, writes, sweep, rowLock, connections>>

(* Defect: the client is released without ROLLBACK, its transaction open.  *)
RollbackDefect(r) ==
  /\ revoker[r].pc \in {"missing", "duplicate", "error"}
  /\ connections' = connections \ {r}
  /\ Finish(r, "error")
  /\ UNCHANGED <<sharedVars, issue, ledger, writes, sweep, rowLock>>

(* ROLLBACK, client.release() and the answer: 404, 409 or a 500.           *)
Rollback(r) ==
  /\ revoker[r].pc \in {"missing", "duplicate", "error"}
  /\ writes' = [writes EXCEPT ![r] = {}]
  /\ Release(r)
  /\ Finish(r, CASE revoker[r].pc = "missing"   -> "not-found"
                 [] revoker[r].pc = "duplicate" -> "already-revoked"
                 [] OTHER                       -> "error")
  /\ UNCHANGED <<sharedVars, issue, ledger, sweep>>

-----------------------------------------------------------------------------
(* The expiry sweep: every interval one                                    *)
(*   UPDATE grants SET status = 'EXPIRED'                                  *)
(*   WHERE status = 'ISSUED' AND expires_at < $1                           *)
(* which scans a snapshot, then locks row after row, waiting for a locked  *)
(* one and testing the WHERE clause again on its committed version.        *)

SweepRowMatches(g, cutoff) ==
  /\ ledger[g] = "ISSUED"
  /\ claims[g].expiresAt < cutoff

(* Defect: the cutoff is computed once, when the service starts.           *)
SweepTimerDefect ==
  /\ sweep.pc = "idle"
  /\ sweep' = [sweep EXCEPT !.pc = "connecting"]
  /\ UNCHANGED <<sharedVars, issue, ledger, revoker, writes, rowLock, connections>>

SweepTimer ==
  /\ sweep.pc = "idle"
  /\ sweep' = [sweep EXCEPT !.pc = "connecting", !.cutoff = now]
  /\ UNCHANGED <<sharedVars, issue, ledger, revoker, writes, rowLock, connections>>

SweepScan ==
  /\ sweep.pc = "connecting"
  /\ PoolHasRoom
  /\ connections' = connections \cup {Sweeper}
  /\ sweep' = [sweep EXCEPT !.pc = "updating",
                            !.todo = { g \in Grants : SweepRowMatches(g, sweep.cutoff) }]
  /\ UNCHANGED <<sharedVars, issue, ledger, revoker, writes, rowLock>>

(* Defect: rows found by the scan are updated without testing them again.  *)
SweepRowDefect(g) ==
  /\ g \in sweep.todo
  /\ rowLock[g] = None
  /\ rowLock' = [rowLock EXCEPT ![g] = Sweeper]
  /\ sweep' = [sweep EXCEPT !.todo = @ \ {g}, !.marked = @ \cup {g}]
  /\ UNCHANGED <<sharedVars, issue, ledger, revoker, writes, connections>>

SweepRow(g) ==
  /\ g \in sweep.todo
  /\ rowLock[g] = None
  /\ IF SweepRowMatches(g, sweep.cutoff)
     THEN /\ rowLock' = [rowLock EXCEPT ![g] = Sweeper]
          /\ sweep' = [sweep EXCEPT !.todo = @ \ {g}, !.marked = @ \cup {g}]
     ELSE /\ sweep' = [sweep EXCEPT !.todo = @ \ {g}]
          /\ UNCHANGED rowLock
  /\ UNCHANGED <<sharedVars, issue, ledger, revoker, writes, connections>>

SweepCommit ==
  /\ sweep.pc = "updating"
  /\ sweep.todo = {}
  /\ ledger' = [g \in Grants |-> IF g \in sweep.marked THEN "EXPIRED" ELSE ledger[g]]
  /\ Release(Sweeper)
  /\ sweep' = NoSweep
  /\ UNCHANGED <<sharedVars, issue, revoker, writes>>

(* The UPDATE throws; the error is logged and the next interval tries.     *)
SweepFails ==
  /\ sweep.pc = "updating"
  /\ Fault
  /\ Release(Sweeper)
  /\ sweep' = NoSweep
  /\ UNCHANGED <<now, claims, held, revocations, issue, ledger, revoker, writes>>

-----------------------------------------------------------------------------
(* The process dies and is started again: requests in flight get no answer *)
(* and the database rolls the open transactions back.                      *)
CrashAccessManager ==
  /\ Fault
  /\ issue' = [g \in Grants |-> IF issue[g] \in {"signed", "saved"} THEN "failed"
                                ELSE issue[g]]
  /\ revoker' = [r \in Revokers |->
                   IF revoker[r].pc \in {"idle", "done"} THEN revoker[r]
                   ELSE [revoker[r] EXCEPT !.pc = "done", !.answer = "error"]]
  /\ writes' = [r \in Revokers |-> {}]
  /\ sweep' = NoSweep
  /\ rowLock' = [g \in Grants |-> None]
  /\ connections' = {}
  /\ UNCHANGED <<now, claims, held, revocations, ledger>>

-----------------------------------------------------------------------------
IssueStep(g) == Save(g) \/ ReplyIssued(g)

RevokeStep(r) ==
  \/ Begin(r)
  \/ SelectForUpdate(r)
  \/ UpdateStatus(r)
  \/ InsertRevocation(r)
  \/ Commit(r)
  \/ Rollback(r)

SweepStep ==
  \/ SweepTimer
  \/ SweepScan
  \/ \E g \in Grants : SweepRow(g)
  \/ SweepCommit

AMNext ==
  \/ \E g \in Grants :
       \/ Sign(g)
       \/ Save(g)
       \/ SaveFails(g)
       \/ ReplyIssued(g)
       \/ ReplyLost(g)
       \/ ReadGrant(g)
  \/ \E r \in Revokers, g \in Grants : RequestRevoke(r, g)
  \/ \E r \in Revokers :
       \/ RevokeStep(r)
       \/ CommitAnswerLost(r)
       \/ StatementFails(r)
  \/ SweepStep
  \/ SweepFails
  \/ CrashAccessManager

(* The Access Manager on its own, with time.                               *)
AloneInit == SharedInit /\ AMInit

AloneNext == AMNext \/ (Tick /\ UNCHANGED amVars)

AMSpec == AloneInit /\ [][AloneNext]_<<sharedVars, amVars>>

(* Statements that are sent are executed and timers fire.  The pool and    *)
(* the database serve those who wait for a connection or a row lock first  *)
(* come, first served, so that a waiter is not overtaken for ever: strong  *)
(* fairness.  Faults and new requests are owed to nobody.                  *)
AMFairness ==
  /\ \A g \in Grants : SF_<<sharedVars, amVars>>(IssueStep(g))
  /\ \A r \in Revokers : SF_<<sharedVars, amVars>>(RevokeStep(r))
  /\ WF_<<sharedVars, amVars>>(SweepStep)

AMFairSpec == AMSpec /\ AMFairness

-----------------------------------------------------------------------------
(* The values of the variables.                                            *)
AMTypes == SharedTypeOK /\ AMTypeOK

(* The ledger the consumer reads and the table the BPPs read never tell    *)
(* different stories, whatever fails between the UPDATE and the INSERT of  *)
(* a revocation and however it interleaves with the expiry sweep.          *)
LedgerMatchesTable ==
  \A g \in Grants : ledger[g] = "REVOKED" <=> g \in revocations

(* A caller told that a grant is revoked, now or before (200 or 409), can  *)
(* rely on every BPP seeing it.                                            *)
AnsweredMeansRevoked ==
  \A r \in Revokers :
    revoker[r].answer \in {"revoked", "already-revoked"} => Target(r) \in revocations

(* Of the concurrent requests to revoke one grant at most one is told that *)
(* it revoked it: the row lock serializes them.                            *)
RevokedOnce ==
  \A r, q \in Revokers :
    /\ revoker[r].answer = "revoked"
    /\ revoker[q].answer = "revoked"
    /\ Target(r) = Target(q)
    => r = q

(* Whoever holds a signed grant holds one the ledger knows, so that the    *)
(* grantee can find it and have it revoked: no reply outruns the save.     *)
HeldIsRecorded == \A g \in held : ledger[g] # "ABSENT"

(* A row only moves forward, a revocation is never undone (the sweep does  *)
(* not turn REVOKED into EXPIRED), and a row expires only after its time.  *)
LedgerStep(g) ==
  ledger'[g] # ledger[g] =>
    \/ ledger[g] = "ABSENT" /\ ledger'[g] = "ISSUED"
    \/ ledger[g] = "ISSUED" /\ ledger'[g] = "EXPIRED" /\ claims[g].expiresAt < now
    \/ ledger[g] \in {"ISSUED", "EXPIRED"} /\ ledger'[g] = "REVOKED"

LedgerMovesForward ==
  [][(\A g \in Grants : LedgerStep(g)) /\ revocations \subseteq revocations']_<<sharedVars, amVars>>

(* A request to revoke is answered, whatever locks, sweeps and failures    *)
(* stand in its way.                                                       *)
RevokeAnswered ==
  \A r \in Revokers : revoker[r].pc = "connecting" ~> revoker[r].pc = "done"

(* A grant past its expiry does not stay ISSUED in the ledger.             *)
ExpiredIsSwept ==
  \A g \in Grants :
    (ledger[g] = "ISSUED" /\ claims[g].expiresAt < now) ~> ledger[g] # "ISSUED"

-----------------------------------------------------------------------------
(* Why the invariants hold: what the steps rely on.                        *)

(* An id is in the ledger, or in somebody's hands, only if it was signed.  *)
RowsAreSigned ==
  \A g \in Grants :
    /\ issue[g] # "idle" <=> claims[g] # None
    /\ ledger[g] # "ABSENT" => claims[g] # None
    /\ issue[g] \in {"saved", "replied"} => ledger[g] # "ABSENT"

(* Grants are valid from the moment they are signed.                       *)
SignedInThePast == \A g \in Grants : claims[g] # None => claims[g].notBefore <= now

(* A transaction past its SELECT holds the lock of its row, and the row    *)
(* still is what it read; it has written what its step says.               *)
Holds(r) ==
  LET pc == revoker[r].pc
      g == Target(r)
  IN
  /\ pc # "idle" => g \in Grants
  /\ pc # "done" => revoker[r].answer = None
  /\ pc \in {"selected", "updated", "inserted"} =>
       rowLock[g] = r /\ ledger[g] \in {"ISSUED", "EXPIRED"}
  /\ pc = "updated" => writes[r] = {"status"}
  /\ pc = "inserted" => writes[r] = {"status", "revocation"}
  /\ pc \notin {"updated", "inserted", "error"} => writes[r] = {}
  /\ pc = "duplicate" => ledger[g] = "REVOKED"
  /\ revoker[r].answer \in {"revoked", "already-revoked"} => ledger[g] = "REVOKED"

TransactionHolds == \A r \in Revokers : Holds(r)

(* The rows the sweep has updated are locked by it, still ISSUED for the   *)
(* others, and past their expiry.                                          *)
SweepHolds ==
  /\ sweep.cutoff <= now
  /\ sweep.pc # "updating" => sweep.todo = {} /\ sweep.marked = {}
  /\ \A g \in sweep.marked :
       /\ rowLock[g] = Sweeper
       /\ ledger[g] = "ISSUED"
       /\ claims[g].expiresAt < sweep.cutoff

(* Nobody waits for what was left behind: whoever holds a connection of    *)
(* the pool is inside its transaction, and whoever holds a row lock is one *)
(* of those and works on that row.                                         *)
NothingIsLeaked ==
  /\ \A r \in Revokers : r \in connections <=> revoker[r].pc \in InTransaction
  /\ Sweeper \in connections <=> sweep.pc = "updating"
  /\ \A g \in Grants :
       /\ rowLock[g] # None => rowLock[g] \in connections
       /\ \A r \in Revokers : rowLock[g] = r => Target(r) = g
       /\ rowLock[g] = Sweeper => g \in sweep.marked

(* The inductive invariant of the Access Manager.  It holds whatever the   *)
(* BPPs do, who only read what it shares.                                  *)
AMInv ==
  /\ AMTypes
  /\ LedgerMatchesTable
  /\ HeldIsRecorded
  /\ RevokedOnce
  /\ RowsAreSigned
  /\ SignedInThePast
  /\ TransactionHolds
  /\ SweepHolds
  /\ NothingIsLeaked
=============================================================================
