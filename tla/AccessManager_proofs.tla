------------------------ MODULE AccessManager_proofs ------------------------
(***************************************************************************)
(* The invariants of the Access Manager hold for any number of grants,     *)
(* revoke requests, failures and connections.                              *)
(***************************************************************************)
EXTENDS AccessManager, TLAPS

(* An empty Access Manager satisfies the invariant.                        *)
LEMMA AMInitInv == SharedInit /\ AMInit => AMInv
  BY BoundsAssumption, SweeperAssumption, NoneIsNoGrant
  DEF SharedInit, AMInit, AMInv, AMTypes, SharedTypeOK, AMTypeOK, LedgerMatchesTable,
      HeldIsRecorded, RevokedOnce, RowsAreSigned, SignedInThePast, TransactionHolds, Holds, SweepHolds, NothingIsLeaked, NoSweep,
      RevokerState, SweepState, RevokeSteps, Statuses, IssueSteps, InTransaction, Answers, Target

(* A failure is only counted while the budget lasts.                       *)
LEMMA FaultsStayBounded ==
  ASSUME faults \in 0..MaxFaults, Fault \/ UNCHANGED faults
  PROVE  faults' \in 0..MaxFaults
  BY BoundsAssumption DEF Fault

(* Signing gives an id claims that are valid from now on and no row.       *)
LEMMA SignInv ==
  ASSUME AMInv, NEW g \in Grants, Sign(g)
  PROVE  AMInv'
  <1>1. PICK req \in Requests : claims' = [claims EXCEPT ![g] = ClaimsFor(req, now)]
    BY DEF Sign
  <1>2. ClaimsFor(req, now) \in AccessGrantClaims
    BY RequestsAssumption, BoundsAssumption
    DEF ClaimsFor, AccessGrantClaims, IssueGrantRequest, AMInv, AMTypes, SharedTypeOK
  <1>3. AMTypes'
    BY <1>1, <1>2 DEF AMInv, AMTypes, SharedTypeOK, AMTypeOK, Sign, IssueSteps
  <1>4. ledger[g] = "ABSENT"
    BY DEF AMInv, RowsAreSigned, Sign
  <1>5. RowsAreSigned'
    BY <1>1, <1>2, NoneIsNoClaims DEF AMInv, RowsAreSigned, Sign, AMTypes, SharedTypeOK, AMTypeOK
  <1>6. SweepHolds'
    BY <1>1, <1>4 DEF AMInv, SweepHolds, Sign, AMTypes, SharedTypeOK, AMTypeOK, SweepState
  <1>7. SignedInThePast'
    BY <1>1, BoundsAssumption DEF AMInv, SignedInThePast, Sign, ClaimsFor, AMTypes, SharedTypeOK
  <1>. QED
    BY <1>3, <1>5, <1>6, <1>7
    DEF AMInv, Sign, LedgerMatchesTable, HeldIsRecorded, RevokedOnce, TransactionHolds, Holds,
        NothingIsLeaked, Target

(* The INSERT makes a row ISSUED and touches no row that exists.           *)
LEMMA SaveInv ==
  ASSUME AMInv, NEW g \in Grants, Save(g) \/ SaveFails(g)
  PROVE  AMInv'
  <1>. USE DEF AMInv
  <1>1. /\ ledger' = ledger \/ ledger' = [ledger EXCEPT ![g] = IF @ = "ABSENT" THEN "ISSUED" ELSE @]
        /\ issue[g] = "signed" /\ issue' \in {[issue EXCEPT ![g] = "saved"], [issue EXCEPT ![g] = "failed"]}
        /\ issue'[g] = "saved" => ledger'[g] # "ABSENT"
        /\ UNCHANGED <<now, claims, held, revocations, revoker, writes, sweep, rowLock, connections>>
    BY DEF Save, SaveFails, InsertRow, sharedVars, AMTypes, AMTypeOK, IssueSteps
  <1>2. /\ \A h \in Grants : ledger'[h] # ledger[h] => ledger[h] = "ABSENT" /\ ledger'[h] = "ISSUED"
    BY <1>1 DEF AMTypes, AMTypeOK
  <1>3. AMTypes'
    <2>1. SharedTypeOK'
      BY <1>1, BoundsAssumption DEF AMTypes, SharedTypeOK, Save, SaveFails, Fault, sharedVars
    <2>2. issue' \in [Grants -> IssueSteps] /\ ledger' \in [Grants -> Statuses]
      BY <1>1 DEF AMTypes, AMTypeOK, IssueSteps, Statuses
    <2>. QED  BY <1>1, <2>1, <2>2 DEF AMTypes, AMTypeOK
  <1>4. LedgerMatchesTable'
    BY <1>1, <1>2 DEF LedgerMatchesTable
  <1>5. HeldIsRecorded'
    BY <1>1, <1>2 DEF HeldIsRecorded, AMTypes, SharedTypeOK
  <1>6. RowsAreSigned'
    BY <1>1, <1>2 DEF RowsAreSigned, AMTypes, AMTypeOK, IssueSteps
  <1>7. TransactionHolds'
    BY <1>1, <1>2, NoneIsNoGrant DEF TransactionHolds, Holds, Target
  <1>8. SweepHolds'
    BY <1>1, <1>2 DEF SweepHolds, AMTypes, AMTypeOK, SweepState
  <1>9. RevokedOnce' /\ SignedInThePast' /\ NothingIsLeaked'
    BY <1>1 DEF RevokedOnce, SignedInThePast, NothingIsLeaked, Target
  <1>. QED
    BY <1>3, <1>4, <1>5, <1>6, <1>7, <1>8, <1>9

(* Answering with the signed grant only changes who holds it.              *)
LEMMA DeliverInv ==
  ASSUME AMInv, NEW g \in Grants, ReplyIssued(g) \/ ReplyLost(g) \/ ReadGrant(g)
  PROVE  AMInv'
  <1>. USE DEF AMInv
  <1>1. /\ held' \in {held, held \cup {g}} /\ (held' # held => ledger[g] # "ABSENT")
        /\ \/ issue' = issue
           \/ issue[g] = "saved" /\ issue' \in {[issue EXCEPT ![g] = "replied"], [issue EXCEPT ![g] = "failed"]}
        /\ UNCHANGED <<now, claims, revocations, ledger, revoker, writes, sweep, rowLock, connections>>
    BY DEF ReplyIssued, ReplyLost, ReadGrant, RowsAreSigned, amVars
  <1>2. AMTypes'
    BY <1>1, BoundsAssumption
    DEF AMTypes, SharedTypeOK, AMTypeOK, ReplyIssued, ReplyLost, ReadGrant, Fault, IssueSteps
  <1>3. HeldIsRecorded'
    BY <1>1 DEF HeldIsRecorded
  <1>4. RowsAreSigned'
    BY <1>1 DEF RowsAreSigned, AMTypes, AMTypeOK, IssueSteps
  <1>. QED
    BY <1>1, <1>2, <1>3, <1>4
    DEF LedgerMatchesTable, RevokedOnce, SignedInThePast, TransactionHolds, Holds, Target, SweepHolds,
        NothingIsLeaked

(* A step of one revocation leaves the other requests as they are.         *)
LEMMA RevokerMoves ==
  ASSUME AMTypeOK, NEW r \in Revokers, NEW step \in RevokeSteps,
         revoker' = [revoker EXCEPT ![r].pc = step]
  PROVE  /\ revoker'[r].pc = step
         /\ revoker'[r].grant = revoker[r].grant
         /\ revoker'[r].answer = revoker[r].answer
         /\ \A q \in Revokers : q # r => revoker'[q] = revoker[q]
         /\ revoker' \in [Revokers -> RevokerState]
  BY DEF AMTypeOK, RevokerState

(* A request to revoke starts with nothing written and no answer.          *)
LEMMA RequestRevokeInv ==
  ASSUME AMInv, NEW r \in Revokers, NEW g \in Grants, RequestRevoke(r, g)
  PROVE  AMInv'
  <1>. USE DEF AMInv
  <1>1. /\ revoker[r].pc = "idle"
        /\ revoker' = [revoker EXCEPT ![r].grant = g, ![r].pc = "connecting"]
        /\ UNCHANGED <<sharedVars, issue, ledger, writes, sweep, rowLock, connections>>
    BY DEF RequestRevoke
  <1>2. revoker[r].answer = None /\ writes[r] = {}
    BY <1>1 DEF TransactionHolds, Holds
  <1>3. revoker'[r].grant = g /\ revoker'[r].pc = "connecting" /\ revoker'[r].answer = None
    BY <1>1, <1>2 DEF AMTypes, AMTypeOK, RevokerState
  <1>4. \A q \in Revokers : q # r => revoker'[q] = revoker[q]
    BY <1>1 DEF AMTypes, AMTypeOK
  <1>5. AMTypes'
    BY <1>1 DEF AMTypes, SharedTypeOK, AMTypeOK, RevokerState, RevokeSteps, sharedVars
  <1>6. TransactionHolds'
    <2>. SUFFICES ASSUME NEW q \in Revokers PROVE Holds(q)'
      BY DEF TransactionHolds
    <2>. UNCHANGED <<ledger, writes, rowLock>>
      BY <1>1
    <2>1. CASE q # r
      <3>. revoker'[q] = revoker[q]
        BY <1>4, <2>1
      <3>. QED
        BY DEF TransactionHolds, Holds, Target
    <2>2. CASE q = r
      BY <1>1, <1>2, <1>3, <2>2, NoneIsNoGrant DEF Holds, Target
    <2>. QED  BY <2>1, <2>2
  <1>7. RevokedOnce'
    BY <1>3, <1>4, NoneIsNoGrant DEF RevokedOnce, Target
  <1>8. NothingIsLeaked'
    <2>. UNCHANGED <<sweep, rowLock, connections>>
      BY <1>1
    <2>1. r \notin connections
      BY <1>1 DEF NothingIsLeaked, InTransaction
    <2>2. \A h \in Grants : rowLock[h] # r
      BY <2>1, SweeperAssumption DEF NothingIsLeaked
    <2>. QED
      BY <1>3, <1>4, <2>1, <2>2 DEF NothingIsLeaked, InTransaction, Target
  <1>. QED
    BY <1>1, <1>5, <1>6, <1>7, <1>8 DEF LedgerMatchesTable, HeldIsRecorded, RowsAreSigned, SignedInThePast, SweepHolds, sharedVars

(* BEGIN, UPDATE, INSERT and a statement that throws: nothing is visible   *)
(* to others yet.                                                          *)
LEMMA InsideTransactionInv ==
  ASSUME AMInv, NEW r \in Revokers,
         Begin(r) \/ UpdateStatus(r) \/ InsertRevocation(r) \/ StatementFails(r)
  PROVE  AMInv'
  <1>. USE DEF AMInv
  <1>1. PICK step \in {"begun", "updated", "inserted", "error"} :
          /\ revoker' = [revoker EXCEPT ![r].pc = step]
          /\ step = "begun" => revoker[r].pc = "connecting" /\ writes' = writes
          /\ step = "updated" => /\ revoker[r].pc = "selected"
                                 /\ writes' = [writes EXCEPT ![r] = @ \cup {"status"}]
          /\ step = "inserted" => /\ revoker[r].pc = "updated"
                                  /\ writes' = [writes EXCEPT ![r] = @ \cup {"revocation"}]
          /\ step = "error" => revoker[r].pc \in InTransaction /\ writes' = writes
    BY DEF Begin, UpdateStatus, InsertRevocation, StatementFails, At
  <1>2. UNCHANGED <<now, claims, held, revocations, issue, ledger, sweep, rowLock>>
    BY DEF Begin, UpdateStatus, InsertRevocation, StatementFails, sharedVars
  <1>3. step \in RevokeSteps
    BY DEF RevokeSteps, InTransaction
  <1>4. /\ revoker'[r].pc = step
        /\ revoker'[r].grant = revoker[r].grant
        /\ revoker'[r].answer = revoker[r].answer
        /\ \A q \in Revokers : q # r => revoker'[q] = revoker[q]
        /\ revoker' \in [Revokers -> RevokerState]
    BY <1>1, <1>3, RevokerMoves DEF AMTypes
  <1>5. AMTypes'
    <2>1. faults' \in 0..MaxFaults /\ connections' \subseteq Revokers \cup {Sweeper}
      BY BoundsAssumption DEF AMTypes, SharedTypeOK, AMTypeOK, Fault, sharedVars,
         Begin, UpdateStatus, InsertRevocation, StatementFails
    <2>2. writes' \in [Revokers -> SUBSET {"status", "revocation"}]
      BY <1>1 DEF AMTypes, AMTypeOK
    <2>. QED
      BY <1>2, <1>4, <2>1, <2>2 DEF AMTypes, SharedTypeOK, AMTypeOK
  <1>6. TransactionHolds'
    <2>. SUFFICES ASSUME NEW q \in Revokers PROVE Holds(q)'
      BY DEF TransactionHolds
    <2>1. CASE q # r
      <3>1. writes'[q] = writes[q]
        BY <1>1, <2>1 DEF AMTypes, AMTypeOK
      <3>. QED
        BY <1>2, <1>4, <2>1, <3>1 DEF TransactionHolds, Holds, Target
    <2>2. CASE q = r
      <3>1. step = "updated" => writes'[r] = {"status"}
        BY <1>1 DEF AMTypes, AMTypeOK, TransactionHolds, Holds
      <3>2. step = "inserted" => writes'[r] = {"status", "revocation"}
        BY <1>1 DEF AMTypes, AMTypeOK, TransactionHolds, Holds
      <3>. QED
        BY <1>1, <1>2, <1>4, <2>2, <3>1, <3>2, NoneIsNoGrant
        DEF TransactionHolds, Holds, Target, InTransaction
    <2>. QED  BY <2>1, <2>2
  <1>7. RevokedOnce'
    <2>1. \A q \in Revokers : revoker'[q].answer = revoker[q].answer /\ revoker'[q].grant = revoker[q].grant
      BY <1>4
    <2>. QED  BY <2>1 DEF RevokedOnce, Target
  <1>8. NothingIsLeaked'
    <2>1. /\ step = "begun" => connections' = connections \cup {r}
          /\ step # "begun" => connections' = connections /\ revoker[r].pc \in InTransaction
      BY <1>1, <1>4 DEF Begin, UpdateStatus, InsertRevocation, StatementFails, sharedVars, InTransaction
    <2>2. step \in InTransaction
      BY DEF InTransaction
    <2>. QED
      BY <1>2, <1>4, <2>1, <2>2, SweeperAssumption DEF NothingIsLeaked, Target
  <1>. QED
    BY <1>2, <1>5, <1>6, <1>7, <1>8 DEF LedgerMatchesTable, HeldIsRecorded, RowsAreSigned, SignedInThePast, SweepHolds

(* What the SELECT read is what is committed, and the lock is taken for it.*)
LEMMA SelectForUpdateInv ==
  ASSUME AMInv, NEW r \in Revokers, SelectForUpdate(r)
  PROVE  AMInv'
  <1>. USE DEF AMInv
  <1>. DEFINE g == Target(r)
  <1>1. g \in Grants /\ rowLock[g] = None /\ revoker[r].pc = "begun"
    BY DEF TransactionHolds, Holds, SelectForUpdate
  <1>2. PICK step \in {"missing", "duplicate", "selected"} :
          /\ revoker' = [revoker EXCEPT ![r].pc = step]
          /\ step = "duplicate" => ledger[g] = "REVOKED"
          /\ step = "selected" => ledger[g] \in {"ISSUED", "EXPIRED"} /\ rowLock'[g] = r
    BY <1>1 DEF AMTypes, AMTypeOK, Statuses, SelectForUpdate, At
  <1>3. UNCHANGED <<sharedVars, issue, ledger, writes, sweep, connections>>
    BY DEF SelectForUpdate
  <1>4. step \in RevokeSteps
    BY DEF RevokeSteps, InTransaction
  <1>5. /\ revoker'[r].pc = step
        /\ revoker'[r].grant = revoker[r].grant
        /\ revoker'[r].answer = revoker[r].answer
        /\ \A q \in Revokers : q # r => revoker'[q] = revoker[q]
        /\ revoker' \in [Revokers -> RevokerState]
    BY <1>2, <1>4, RevokerMoves DEF AMTypes
  <1>6. /\ rowLock' \in [Grants -> Revokers \cup {Sweeper, None}]
        /\ \A h \in Grants : rowLock[h] # None => rowLock'[h] = rowLock[h]
    BY <1>1 DEF AMTypes, AMTypeOK, SelectForUpdate
  <1>7. AMTypes'
    BY <1>3, <1>5, <1>6 DEF AMTypes, SharedTypeOK, AMTypeOK, sharedVars
  <1>8. TransactionHolds'
    <2>. SUFFICES ASSUME NEW q \in Revokers PROVE Holds(q)'
      BY DEF TransactionHolds
    <2>1. CASE q # r
      BY <1>3, <1>5, <1>6, <2>1, SweeperAssumption DEF TransactionHolds, Holds, Target
    <2>2. CASE q = r
      BY <1>1, <1>2, <1>3, <1>5, <2>2, NoneIsNoGrant DEF TransactionHolds, Holds, Target
    <2>. QED  BY <2>1, <2>2
  <1>9. RevokedOnce'
    <2>1. \A q \in Revokers : revoker'[q].answer = revoker[q].answer /\ revoker'[q].grant = revoker[q].grant
      BY <1>5
    <2>. QED  BY <2>1 DEF RevokedOnce, Target
  <1>10. SweepHolds'
    BY <1>3, <1>6, SweeperAssumption DEF SweepHolds, AMTypes, AMTypeOK, SweepState, sharedVars
  <1>11. NothingIsLeaked'
    <2>0. rowLock' = rowLock \/ rowLock' = [rowLock EXCEPT ![g] = r]
      BY DEF SelectForUpdate
    <2>1. \A h \in Grants : rowLock'[h] = rowLock[h] \/ (h = g /\ rowLock'[h] = r)
      BY <1>1, <2>0 DEF AMTypes, AMTypeOK
    <2>2. r \in connections /\ step \in InTransaction
      BY <1>1 DEF NothingIsLeaked, InTransaction
    <2>. QED
      BY <1>1, <1>3, <1>5, <2>1, <2>2, SweeperAssumption DEF NothingIsLeaked, Target, InTransaction
  <1>. QED
    BY <1>3, <1>7, <1>8, <1>9, <1>10, <1>11 DEF LedgerMatchesTable, HeldIsRecorded, RowsAreSigned, SignedInThePast, sharedVars

(* An answer ends one revocation and leaves the other requests as they are.*)
LEMMA RevokerFinishes ==
  ASSUME AMTypeOK, NEW r \in Revokers, NEW ans \in Answers, Finish(r, ans)
  PROVE  /\ revoker'[r].pc = "done"
         /\ revoker'[r].grant = revoker[r].grant
         /\ revoker'[r].answer = ans
         /\ \A q \in Revokers : q # r => revoker'[q] = revoker[q]
         /\ revoker' \in [Revokers -> RevokerState]
  BY DEF AMTypeOK, RevokerState, Finish, RevokeSteps

(* A client that is released takes its locks with it.                      *)
LEMMA ReleaseLeaksNothing ==
  ASSUME AMInv, NEW r \in Revokers, Release(r), UNCHANGED sweep,
         revoker'[r].pc = "done",
         \A q \in Revokers : q # r => revoker'[q] = revoker[q]
  PROVE  NothingIsLeaked'
  <1>1. /\ \A h \in Grants : rowLock'[h] = IF rowLock[h] = r THEN None ELSE rowLock[h]
        /\ connections' = connections \ {r}
    BY DEF Release
  <1>2. r # Sweeper /\ r # None /\ Sweeper # None /\ "done" \notin InTransaction
    BY SweeperAssumption DEF InTransaction
  <1>. QED
    BY <1>1, <1>2, SweeperAssumption DEF AMInv, NothingIsLeaked, Target

(* What a commit makes visible: the row is REVOKED and the revocation is   *)
(* in the table, and no other row, lock or transaction is touched.         *)
LEMMA CommitEffect ==
  ASSUME AMInv, NEW r \in Revokers, revoker[r].pc = "inserted", ApplyWrites(r)
  PROVE  /\ Target(r) \in Grants
         /\ ledger[Target(r)] \in {"ISSUED", "EXPIRED"}
         /\ rowLock[Target(r)] = r
         /\ ledger' = [ledger EXCEPT ![Target(r)] = "REVOKED"]
         /\ revocations' = revocations \cup {Target(r)}
         /\ writes' = [writes EXCEPT ![r] = {}]
  BY DEF AMInv, TransactionHolds, Holds, ApplyWrites

(* A commit writes both tables, and nobody else can have revoked that row. *)
LEMMA CommitInv ==
  ASSUME AMInv, NEW r \in Revokers, Commit(r) \/ CommitAnswerLost(r)
  PROVE  AMInv'
  <1>. USE DEF AMInv
  <1>. DEFINE g == Target(r)
  <1>1. /\ g \in Grants
        /\ ledger[g] \in {"ISSUED", "EXPIRED"}
        /\ rowLock[g] = r
        /\ ledger' = [ledger EXCEPT ![g] = "REVOKED"]
        /\ revocations' = revocations \cup {g}
        /\ writes' = [writes EXCEPT ![r] = {}]
        /\ revoker[r].pc = "inserted"
    BY CommitEffect DEF Commit, CommitAnswerLost
  <1>2. UNCHANGED <<now, claims, held, issue, sweep>>
    BY DEF Commit, CommitAnswerLost
  <1>3. /\ revoker'[r].pc \in {"done", "error"}
        /\ revoker'[r].grant = revoker[r].grant
        /\ revoker'[r].pc = "error" => revoker'[r].answer = None
        /\ \A q \in Revokers : q # r => revoker'[q] = revoker[q]
        /\ revoker' \in [Revokers -> RevokerState]
    <2>1. CASE Commit(r)
      BY <2>1, RevokerFinishes DEF Commit, AMTypes, Answers
    <2>2. CASE CommitAnswerLost(r)
      <3>1. revoker' = [revoker EXCEPT ![r].pc = "error"] /\ "error" \in RevokeSteps
        BY <2>2 DEF CommitAnswerLost, At, RevokeSteps, InTransaction
      <3>2. revoker[r].answer = None
        BY <1>1 DEF TransactionHolds, Holds
      <3>. QED
        BY <3>1, <3>2, RevokerMoves DEF AMTypes
    <2>. QED  BY <2>1, <2>2
  <1>4. /\ rowLock' \in [Grants -> Revokers \cup {Sweeper, None}]
        /\ \A h \in Grants : rowLock[h] # r => rowLock'[h] = rowLock[h]
    BY <1>1 DEF AMTypes, AMTypeOK, Commit, CommitAnswerLost, Release
  <1>5. AMTypes'
    <2>1. faults' \in 0..MaxFaults /\ connections' \subseteq Revokers \cup {Sweeper}
      BY BoundsAssumption DEF AMTypes, SharedTypeOK, AMTypeOK, Fault, sharedVars, Commit, CommitAnswerLost, Release
    <2>2. ledger' \in [Grants -> Statuses] /\ writes' \in [Revokers -> SUBSET {"status", "revocation"}]
      BY <1>1 DEF AMTypes, AMTypeOK, Statuses
    <2>. QED
      BY <1>1, <1>2, <1>3, <1>4, <2>1, <2>2 DEF AMTypes, SharedTypeOK, AMTypeOK
  <1>6. LedgerMatchesTable'
    BY <1>1 DEF LedgerMatchesTable, AMTypes, AMTypeOK
  <1>7. HeldIsRecorded'
    BY <1>1, <1>2 DEF HeldIsRecorded, AMTypes, AMTypeOK
  <1>8. RowsAreSigned' /\ SignedInThePast'
    BY <1>1, <1>2 DEF RowsAreSigned, SignedInThePast, AMTypes, AMTypeOK
  <1>9. TransactionHolds'
    <2>. SUFFICES ASSUME NEW q \in Revokers PROVE Holds(q)'
      BY DEF TransactionHolds
    <2>1. CASE q # r
      <3>1. /\ writes'[q] = writes[q] /\ revoker'[q] = revoker[q]
            /\ \A h \in Grants : rowLock[h] = q => rowLock'[h] = q /\ ledger'[h] = ledger[h]
        BY <1>1, <1>3, <1>4, <2>1 DEF AMTypes, AMTypeOK
      <3>2. \A h \in Grants : ledger[h] = "REVOKED" => ledger'[h] = "REVOKED"
        BY <1>1 DEF AMTypes, AMTypeOK
      <3>. QED
        BY <3>1, <3>2, NoneIsNoGrant DEF TransactionHolds, Holds, Target
    <2>2. CASE q = r
      <3>1. writes'[r] = {} /\ ledger'[g] = "REVOKED"
        BY <1>1 DEF AMTypes, AMTypeOK
      <3>. QED
        BY <1>1, <1>3, <2>2, <3>1, NoneIsNoGrant DEF Holds, Target
    <2>. QED  BY <2>1, <2>2
  <1>10. RevokedOnce'
    <2>1. \A q \in Revokers : q # r /\ revoker[q].answer = "revoked" => revoker[q].grant # g
      BY <1>1 DEF TransactionHolds, Holds, Target
    <2>. QED
      BY <1>3, <2>1 DEF RevokedOnce, Target
  <1>11. SweepHolds'
    BY <1>1, <1>2, <1>4, SweeperAssumption DEF SweepHolds, AMTypes, AMTypeOK, SweepState
  <1>12. NothingIsLeaked'
    <2>1. CASE Commit(r)
      <3>1. Release(r) /\ revoker'[r].pc = "done" /\ UNCHANGED sweep
        BY <2>1, RevokerFinishes DEF Commit, AMTypes, Answers
      <3>. QED  BY <1>3, <3>1, ReleaseLeaksNothing
    <2>2. CASE CommitAnswerLost(r)
      <3>1. /\ rowLock' = [rowLock EXCEPT ![g] = None] /\ connections' = connections
            /\ revoker' = [revoker EXCEPT ![r].pc = "error"]
        BY <2>2 DEF CommitAnswerLost, At
      <3>2. revoker'[r].pc = "error" /\ {"inserted", "error"} \subseteq InTransaction
        BY <3>1 DEF AMTypes, AMTypeOK, InTransaction
      <3>3. \A h \in Grants : rowLock'[h] = IF h = g THEN None ELSE rowLock[h]
        BY <3>1 DEF AMTypes, AMTypeOK
      <3>. QED
        BY <1>1, <1>2, <1>3, <3>1, <3>2, <3>3, SweeperAssumption DEF NothingIsLeaked, Target
    <2>. QED  BY <2>1, <2>2
  <1>. QED
    BY <1>5, <1>6, <1>7, <1>8, <1>9, <1>10, <1>11, <1>12

(* 404, 409 and 500 change no row; a 409 is given for a revoked row only.  *)
LEMMA RollbackInv ==
  ASSUME AMInv, NEW r \in Revokers, Rollback(r)
  PROVE  AMInv'
  <1>. USE DEF AMInv
  <1>1. /\ revoker[r].pc \in {"missing", "duplicate", "error"}
        /\ writes' = [writes EXCEPT ![r] = {}]
        /\ UNCHANGED <<sharedVars, issue, ledger, sweep>>
    BY DEF Rollback
  <1>2. PICK ans \in {"not-found", "already-revoked", "error"} :
          Finish(r, ans) /\ (ans = "already-revoked" => revoker[r].pc = "duplicate")
    BY DEF Rollback
  <1>3. /\ revoker'[r].pc = "done"
        /\ revoker'[r].grant = revoker[r].grant
        /\ revoker'[r].answer = ans
        /\ \A q \in Revokers : q # r => revoker'[q] = revoker[q]
        /\ revoker' \in [Revokers -> RevokerState]
    BY <1>2, RevokerFinishes DEF AMTypes, Answers
  <1>4. /\ rowLock' \in [Grants -> Revokers \cup {Sweeper, None}]
        /\ connections' \subseteq Revokers \cup {Sweeper}
        /\ \A h \in Grants : rowLock[h] # r => rowLock'[h] = rowLock[h]
    BY DEF AMTypes, AMTypeOK, Rollback, Release
  <1>5. writes' \in [Revokers -> SUBSET {"status", "revocation"}]
    BY <1>1 DEF AMTypes, AMTypeOK
  <1>6. AMTypes'
    BY <1>1, <1>3, <1>4, <1>5 DEF AMTypes, SharedTypeOK, AMTypeOK, sharedVars
  <1>7. TransactionHolds'
    <2>. SUFFICES ASSUME NEW q \in Revokers PROVE Holds(q)'
      BY DEF TransactionHolds
    <2>1. CASE q # r
      <3>1. writes'[q] = writes[q] /\ revoker'[q] = revoker[q]
        BY <1>1, <1>3, <2>1 DEF AMTypes, AMTypeOK
      <3>. QED
        BY <1>1, <1>4, <2>1, <3>1 DEF TransactionHolds, Holds, Target
    <2>2. CASE q = r
      <3>1. writes'[r] = {}
        BY <1>1 DEF AMTypes, AMTypeOK
      <3>. QED
        BY <1>1, <1>2, <1>3, <2>2, <3>1 DEF TransactionHolds, Holds, Target
    <2>. QED  BY <2>1, <2>2
  <1>8. RevokedOnce'
    BY <1>3 DEF RevokedOnce, Target
  <1>9. SweepHolds'
    BY <1>1, <1>4, SweeperAssumption DEF SweepHolds, AMTypes, AMTypeOK, SweepState, sharedVars
  <1>10. NothingIsLeaked'
    BY <1>1, <1>3, ReleaseLeaksNothing DEF Rollback
  <1>. QED
    BY <1>1, <1>6, <1>7, <1>8, <1>9, <1>10 DEF LedgerMatchesTable, HeldIsRecorded, RowsAreSigned, SignedInThePast, sharedVars

(* The sweep that ends, well or not, gives back what it holds.             *)
LEMMA SweepEndLeaksNothing ==
  ASSUME AMInv, Release(Sweeper), sweep' = NoSweep, UNCHANGED revoker
  PROVE  NothingIsLeaked'
  <1>1. /\ \A h \in Grants : rowLock'[h] = IF rowLock[h] = Sweeper THEN None ELSE rowLock[h]
        /\ connections' = connections \ {Sweeper}
        /\ sweep'.pc # "updating"
    BY DEF Release, NoSweep
  <1>. QED
    BY <1>1, SweeperAssumption DEF AMInv, NothingIsLeaked, Target

(* The sweep, up to its commit, changes nothing but itself and the locks   *)
(* it takes.                                                               *)
LEMMA SweepingInv ==
  ASSUME AMInv, SweepTimer \/ SweepScan \/ SweepFails \/ \E g \in Grants : SweepRow(g)
  PROVE  AMInv'
  <1>. USE DEF AMInv
  <1>1. /\ UNCHANGED <<now, claims, held, revocations, issue, ledger, revoker, writes>>
        /\ Fault \/ UNCHANGED faults
    BY DEF SweepTimer, SweepScan, SweepFails, SweepRow, sharedVars
  <1>2. /\ rowLock' \in [Grants -> Revokers \cup {Sweeper, None}]
        /\ connections' \subseteq Revokers \cup {Sweeper}
    BY DEF AMTypes, AMTypeOK, SweepTimer, SweepScan, SweepFails, SweepRow, Release
  <1>3. \A h \in Grants, r \in Revokers : rowLock[h] = r => rowLock'[h] = r
    BY SweeperAssumption
    DEF AMTypes, AMTypeOK, SweepTimer, SweepScan, SweepFails, SweepRow, Release
  <1>4. sweep' \in SweepState /\ SweepHolds'
    <2>0. sweep \in SweepState /\ now \in Nat /\ rowLock \in [Grants -> Revokers \cup {Sweeper, None}]
      BY DEF AMTypes, AMTypeOK, SharedTypeOK, BoundsAssumption
    <2>1. CASE SweepTimer
      <3>1. /\ sweep.marked = {} /\ sweep.todo = {}
            /\ sweep' = [sweep EXCEPT !.pc = "connecting", !.cutoff = now]
        BY <2>1 DEF SweepTimer, SweepHolds
      <3>2. sweep'.marked = {} /\ sweep'.todo = {} /\ sweep'.cutoff = now /\ sweep' \in SweepState
        BY <2>0, <3>1 DEF SweepState
      <3>. QED
        BY <1>1, <2>0, <3>2 DEF SweepHolds
    <2>2. CASE SweepScan
      BY <1>1, <2>0, <2>2 DEF SweepScan, SweepState, SweepHolds
    <2>3. CASE SweepFails
      BY <1>1, <2>0, <2>3 DEF SweepFails, NoSweep, SweepState, SweepHolds
    <2>4. ASSUME NEW g \in Grants, SweepRow(g) PROVE sweep' \in SweepState /\ SweepHolds'
      <3>1. CASE SweepRowMatches(g, sweep.cutoff)
        <4>1. /\ rowLock' = [rowLock EXCEPT ![g] = Sweeper]
              /\ sweep' = [sweep EXCEPT !.todo = @ \ {g}, !.marked = @ \cup {g}]
          BY <2>4, <3>1 DEF SweepRow
        <4>2. sweep.pc = "updating"
          BY <2>4 DEF SweepRow, SweepHolds
        <4>3. /\ sweep'.pc = sweep.pc /\ sweep'.cutoff = sweep.cutoff
              /\ sweep'.marked = sweep.marked \cup {g}
              /\ sweep' \in SweepState
          BY <2>0, <4>1 DEF SweepState
        <4>. QED
          BY <1>1, <2>0, <3>1, <4>1, <4>2, <4>3 DEF SweepHolds, SweepRowMatches
      <3>2. CASE ~SweepRowMatches(g, sweep.cutoff)
        <4>1. rowLock' = rowLock /\ sweep' = [sweep EXCEPT !.todo = @ \ {g}]
          BY <2>4, <3>2 DEF SweepRow
        <4>. QED
          BY <1>1, <2>0, <4>1 DEF SweepState, SweepHolds
      <3>. QED  BY <3>1, <3>2
    <2>. QED  BY <2>1, <2>2, <2>3, <2>4
  <1>5. AMTypes'
    BY <1>1, <1>2, <1>4, FaultsStayBounded DEF AMTypes, SharedTypeOK, AMTypeOK
  <1>6. TransactionHolds'
    BY <1>1, <1>3 DEF TransactionHolds, Holds, Target
  <1>7. LedgerMatchesTable' /\ HeldIsRecorded' /\ RevokedOnce' /\ RowsAreSigned' /\ SignedInThePast'
    BY <1>1 DEF LedgerMatchesTable, HeldIsRecorded, RevokedOnce, RowsAreSigned, SignedInThePast, Target
  <1>8. NothingIsLeaked'
    <2>. UNCHANGED revoker
      BY <1>1
    <2>0. sweep \in SweepState /\ Sweeper \notin Revokers /\ Sweeper # None /\ None \notin Revokers
      BY SweeperAssumption DEF AMTypes, AMTypeOK
    <2>1. CASE SweepTimer
      <3>1. rowLock' = rowLock /\ connections' = connections /\ sweep.pc = "idle"
            /\ sweep'.pc = "connecting" /\ sweep'.marked = sweep.marked
        BY <2>0, <2>1 DEF SweepTimer, SweepState
      <3>. QED  BY <3>1 DEF NothingIsLeaked, Target
    <2>2. CASE SweepScan
      <3>1. rowLock' = rowLock /\ connections' = connections \cup {Sweeper}
            /\ sweep'.pc = "updating" /\ sweep'.marked = sweep.marked
        BY <2>0, <2>2 DEF SweepScan, SweepState
      <3>. QED  BY <2>0, <3>1 DEF NothingIsLeaked, Target
    <2>3. CASE SweepFails
      BY <2>3, SweepEndLeaksNothing DEF SweepFails
    <2>4. ASSUME NEW g \in Grants, SweepRow(g) PROVE NothingIsLeaked'
      <3>1. connections' = connections /\ sweep.pc = "updating"
        BY <2>4 DEF SweepRow, SweepHolds
      <3>2. \/ /\ rowLock' = [rowLock EXCEPT ![g] = Sweeper]
               /\ sweep' = [sweep EXCEPT !.todo = @ \ {g}, !.marked = @ \cup {g}]
            \/ rowLock' = rowLock /\ sweep' = [sweep EXCEPT !.todo = @ \ {g}]
        BY <2>4 DEF SweepRow
      <3>3. /\ sweep'.pc = sweep.pc /\ sweep.marked \subseteq sweep'.marked
            /\ rowLock' # rowLock => g \in sweep'.marked
        BY <2>0, <3>2 DEF SweepState
      <3>4. \A h \in Grants : rowLock'[h] = rowLock[h] \/ (h = g /\ rowLock'[h] = Sweeper)
        BY <3>2 DEF AMTypes, AMTypeOK
      <3>. QED  BY <2>0, <3>1, <3>3, <3>4 DEF NothingIsLeaked, Target
    <2>. QED  BY <2>1, <2>2, <2>3, <2>4
  <1>. QED
    BY <1>4, <1>5, <1>6, <1>7, <1>8

(* The sweep's commit turns only locked rows that are still ISSUED to EXPIRED.*)
LEMMA SweepCommitInv ==
  ASSUME AMInv, SweepCommit
  PROVE  AMInv'
  <1>. USE DEF AMInv
  <1>1. /\ ledger' = [g \in Grants |-> IF g \in sweep.marked THEN "EXPIRED" ELSE ledger[g]]
        /\ UNCHANGED <<sharedVars, issue, revoker, writes>>
        /\ sweep' = NoSweep
    BY DEF SweepCommit
  <1>2. /\ rowLock' \in [Grants -> Revokers \cup {Sweeper, None}]
        /\ connections' \subseteq Revokers \cup {Sweeper}
        /\ \A h \in Grants, r \in Revokers : rowLock[h] = r => rowLock'[h] = r
    BY SweeperAssumption DEF AMTypes, AMTypeOK, SweepCommit, Release
  <1>3. \A g \in Grants :
          \/ ledger'[g] = ledger[g]
          \/ rowLock[g] = Sweeper /\ ledger[g] = "ISSUED" /\ ledger'[g] = "EXPIRED"
    BY <1>1 DEF SweepHolds
  <1>4. AMTypes'
    BY <1>1, <1>2 DEF AMTypes, SharedTypeOK, AMTypeOK, Statuses, NoSweep, SweepState, sharedVars
  <1>5. LedgerMatchesTable'
    BY <1>1, <1>3 DEF LedgerMatchesTable, sharedVars
  <1>6. HeldIsRecorded'
    BY <1>1, <1>3 DEF HeldIsRecorded, AMTypes, SharedTypeOK, sharedVars
  <1>7. RowsAreSigned' /\ SignedInThePast'
    BY <1>1, <1>3 DEF RowsAreSigned, SignedInThePast, sharedVars
  <1>8. TransactionHolds'
    <2>. SUFFICES ASSUME NEW r \in Revokers PROVE Holds(r)'
      BY DEF TransactionHolds
    <2>. UNCHANGED <<revoker, writes>>
      BY <1>1
    <2>. QED
      BY <1>2, <1>3, NoneIsNoGrant, SweeperAssumption DEF TransactionHolds, Holds, Target
  <1>9. RevokedOnce'
    BY <1>1 DEF RevokedOnce, Target
  <1>10. SweepHolds'
    BY <1>1, BoundsAssumption DEF SweepHolds, NoSweep, sharedVars, AMTypes, SharedTypeOK
  <1>11. NothingIsLeaked'
    BY <1>1, SweepEndLeaksNothing DEF SweepCommit
  <1>. QED
    BY <1>4, <1>5, <1>6, <1>7, <1>8, <1>9, <1>10, <1>11

(* A crash ends requests without an answer of success and changes no row.  *)
LEMMA CrashInv ==
  ASSUME AMInv, CrashAccessManager
  PROVE  AMInv'
  <1>. USE DEF AMInv
  <1>1. /\ UNCHANGED <<now, claims, held, revocations, ledger>>
        /\ writes' = [r \in Revokers |-> {}]
        /\ sweep' = NoSweep
        /\ rowLock' = [g \in Grants |-> None]
        /\ connections' = {}
    BY DEF CrashAccessManager
  <1>2. /\ issue' \in [Grants -> IssueSteps]
        /\ \A g \in Grants : /\ issue'[g] = "idle" <=> issue[g] = "idle"
                             /\ issue'[g] \notin {"signed", "saved"}
                             /\ issue'[g] = "replied" => issue[g] = "replied"
    BY DEF CrashAccessManager, AMTypes, AMTypeOK, IssueSteps
  <1>3. \A r \in Revokers :
          /\ revoker'[r] \in RevokerState
          /\ revoker'[r].grant = revoker[r].grant
          /\ \/ revoker'[r] = revoker[r] /\ revoker[r].pc \in {"idle", "done"}
             \/ revoker'[r].pc = "done" /\ revoker'[r].answer = "error" /\ revoker[r].pc # "idle"
    BY DEF CrashAccessManager, AMTypes, AMTypeOK, RevokerState, RevokeSteps, Answers
  <1>4. AMTypes'
    <2>1. revoker' \in [Revokers -> RevokerState]
      BY <1>3 DEF CrashAccessManager
    <2>2. faults' \in 0..MaxFaults
      BY FaultsStayBounded DEF CrashAccessManager, AMTypes, SharedTypeOK
    <2>. QED
      BY <1>1, <1>2, <2>1, <2>2 DEF AMTypes, SharedTypeOK, AMTypeOK, NoSweep, SweepState
  <1>5. RowsAreSigned' /\ SignedInThePast'
    BY <1>1, <1>2 DEF RowsAreSigned, SignedInThePast
  <1>6. TransactionHolds'
    <2>. SUFFICES ASSUME NEW r \in Revokers PROVE Holds(r)'
      BY DEF TransactionHolds
    <2>. QED
      BY <1>1, <1>3 DEF TransactionHolds, Holds, Target
  <1>7. RevokedOnce'
    BY <1>3 DEF RevokedOnce, Target
  <1>8. SweepHolds'
    BY <1>1, BoundsAssumption DEF SweepHolds, NoSweep, AMTypes, SharedTypeOK
  <1>9. NothingIsLeaked'
    BY <1>1, <1>3, SweeperAssumption DEF NothingIsLeaked, NoSweep, InTransaction
  <1>. QED
    BY <1>1, <1>4, <1>5, <1>6, <1>7, <1>8, <1>9 DEF LedgerMatchesTable, HeldIsRecorded

(* What the rest of the system may do to the shared state: let time pass   *)
(* and fail.                                                               *)
OthersStep ==
  /\ now' \in 0..MaxTime /\ now' >= now
  /\ faults' \in 0..MaxFaults
  /\ UNCHANGED <<claims, held, revocations, amVars>>

(* Time and the BPPs' failures do not disturb the Access Manager.          *)
LEMMA OthersInv ==
  ASSUME AMInv, OthersStep
  PROVE  AMInv'
  <1>1. SweepHolds'
    BY BoundsAssumption
    DEF OthersStep, amVars, AMInv, AMTypes, SharedTypeOK, AMTypeOK, SweepState, SweepHolds
  <1>2. SignedInThePast'
    BY BoundsAssumption
    DEF OthersStep, AMInv, AMTypes, SharedTypeOK, SignedInThePast, AccessGrantClaims
  <1>. QED
    BY <1>1, <1>2
    DEF OthersStep, amVars, AMInv, AMTypes, SharedTypeOK, AMTypeOK, LedgerMatchesTable,
        HeldIsRecorded, RevokedOnce, RowsAreSigned, TransactionHolds, Holds, NothingIsLeaked, Target

(* Every step of the Access Manager preserves the invariant.               *)
LEMMA AMNextInv ==
  ASSUME AMInv, AMNext
  PROVE  AMInv'
  <1>1. ASSUME NEW g \in Grants,
               Sign(g) \/ Save(g) \/ SaveFails(g) \/ ReplyIssued(g) \/ ReplyLost(g) \/ ReadGrant(g)
        PROVE  AMInv'
    BY <1>1, SignInv, SaveInv, DeliverInv
  <1>2. ASSUME NEW r \in Revokers, NEW g \in Grants, RequestRevoke(r, g)
        PROVE  AMInv'
    BY <1>2, RequestRevokeInv
  <1>3. ASSUME NEW r \in Revokers, RevokeStep(r) \/ CommitAnswerLost(r) \/ StatementFails(r)
        PROVE  AMInv'
    BY <1>3, InsideTransactionInv, SelectForUpdateInv, CommitInv, RollbackInv DEF RevokeStep
  <1>4. CASE SweepStep \/ SweepFails
    BY <1>4, SweepingInv, SweepCommitInv DEF SweepStep
  <1>5. CASE CrashAccessManager
    BY <1>5, CrashInv
  <1>. QED
    BY <1>1, <1>2, <1>3, <1>4, <1>5 DEF AMNext

-----------------------------------------------------------------------------
(* The Access Manager on its own keeps its invariants, for any number of   *)
(* grants, revoke requests and failures: types, ledger and table in step,  *)
(* nothing handed out that is not recorded, at most one successful         *)
(* revocation per grant (src/services/access-manager/src).                 *)
THEOREM AMInvariant == AMSpec => []AMInv
  <1>1. AloneInit => AMInv
    BY AMInitInv DEF AloneInit
  <1>2. AMInv /\ [AloneNext]_<<sharedVars, amVars>> => AMInv'
    <2>. SUFFICES ASSUME AMInv, [AloneNext]_<<sharedVars, amVars>>
                  PROVE  AMInv'
      OBVIOUS
    <2>1. CASE AMNext
      BY <2>1, AMNextInv
    <2>2. CASE (Tick /\ UNCHANGED amVars) \/ UNCHANGED <<sharedVars, amVars>>
      <3>1. OthersStep
        BY <2>2, BoundsAssumption DEF OthersStep, Tick, sharedVars, AMInv, AMTypes, SharedTypeOK
      <3>. QED
        BY <3>1, OthersInv
    <2>. QED
      BY <2>1, <2>2 DEF AloneNext
  <1>. QED
    BY <1>1, <1>2, PTL DEF AMSpec

(* Every variable keeps its type.                                          *)
THEOREM AMTypeCorrect == AMSpec => []AMTypes
  BY AMInvariant, PTL DEF AMInv

(* A grant is REVOKED in the ledger exactly when the table the BPPs read   *)
(* says so (stores/postgres.ts, revoke and markExpired).                   *)
THEOREM LedgerAndTableAgree == AMSpec => []LedgerMatchesTable
  BY AMInvariant, PTL DEF AMInv

(* Of concurrent requests to revoke one grant at most one is told that it  *)
(* did.                                                                    *)
THEOREM OneRevocationSucceeds == AMSpec => []RevokedOnce
  BY AMInvariant, PTL DEF AMInv

(* Only recorded grants are in anybody's hands.                            *)
THEOREM NothingUnrecordedIsHeld == AMSpec => []HeldIsRecorded
  BY AMInvariant, PTL DEF AMInv

(* Connections and row locks are held by those who work on the row only,   *)
(* so that nobody waits for a transaction that is over                     *)
(* (stores/postgres.ts, revoke: the catch and finally blocks).             *)
THEOREM NoLockIsLeaked == AMSpec => []NothingIsLeaked
  BY AMInvariant, PTL DEF AMInv

(* A revoke request answered 200 or 409 ends on a revoked row.             *)
LEMMA InvImpliesAnswered == AMInv => AnsweredMeansRevoked
  BY NoneIsNoGrant DEF AMInv, TransactionHolds, Holds, LedgerMatchesTable, AnsweredMeansRevoked, Target

(* A 200 or a 409 to a revoke request means that the BPPs see it.          *)
THEOREM AnswersCanBeTrusted == AMSpec => []AnsweredMeansRevoked
  BY AMInvariant, InvImpliesAnswered, PTL

(* Every step of the Access Manager moves the ledger forward.              *)
LEMMA LedgerStepHolds ==
  ASSUME AMInv, AMNext
  PROVE  (\A g \in Grants : LedgerStep(g)) /\ revocations \subseteq revocations'
  <1>. USE DEF AMInv
  <1>1. ASSUME NEW g \in Grants, Save(g) \/ SaveFails(g)
        PROVE  (\A h \in Grants : LedgerStep(h)) /\ revocations' = revocations
    BY <1>1 DEF Save, SaveFails, InsertRow, LedgerStep, AMTypes, AMTypeOK, sharedVars
  <1>2. ASSUME NEW r \in Revokers, Commit(r) \/ CommitAnswerLost(r)
        PROVE  (\A h \in Grants : LedgerStep(h)) /\ revocations \subseteq revocations'
    <2>1. /\ Target(r) \in Grants
          /\ ledger[Target(r)] \in {"ISSUED", "EXPIRED"}
          /\ ledger' = [ledger EXCEPT ![Target(r)] = "REVOKED"]
          /\ revocations' = revocations \cup {Target(r)}
      BY <1>2, CommitEffect DEF Commit, CommitAnswerLost
    <2>. QED
      BY <2>1 DEF LedgerStep, AMTypes, AMTypeOK
  <1>3. CASE SweepCommit
    <2>. SUFFICES ASSUME NEW g \in Grants, ledger'[g] # ledger[g]
                  PROVE  LedgerStep(g)
      BY <1>3 DEF SweepCommit, sharedVars, LedgerStep
    <2>1. /\ g \in sweep.marked /\ ledger[g] = "ISSUED" /\ ledger'[g] = "EXPIRED"
          /\ claims[g].expiresAt < sweep.cutoff /\ sweep.cutoff <= now
      BY <1>3 DEF SweepCommit, SweepHolds
    <2>2. claims[g].expiresAt \in Int /\ sweep.cutoff \in Int /\ now \in Int
      BY <2>1, BoundsAssumption
      DEF RowsAreSigned, AMTypes, SharedTypeOK, AMTypeOK, SweepState, AccessGrantClaims
    <2>. QED
      BY <2>1, <2>2 DEF LedgerStep
  <1>4. ASSUME UNCHANGED <<ledger, revocations>>
        PROVE  (\A h \in Grants : LedgerStep(h)) /\ revocations \subseteq revocations'
    BY <1>4 DEF LedgerStep
  <1>5. ASSUME NEW g \in Grants, Sign(g) \/ ReplyIssued(g) \/ ReplyLost(g) \/ ReadGrant(g)
        PROVE  UNCHANGED <<ledger, revocations>>
    BY <1>5 DEF Sign, ReplyIssued, ReplyLost, ReadGrant, amVars
  <1>6. ASSUME NEW r \in Revokers, NEW g \in Grants,
               RequestRevoke(r, g) \/ Begin(r) \/ SelectForUpdate(r) \/ UpdateStatus(r)
               \/ InsertRevocation(r) \/ Rollback(r) \/ StatementFails(r)
        PROVE  UNCHANGED <<ledger, revocations>>
    BY <1>6 DEF RequestRevoke, Begin, SelectForUpdate, UpdateStatus, InsertRevocation, Rollback,
                StatementFails, sharedVars
  <1>7. CASE SweepTimer \/ SweepScan \/ (\E g \in Grants : SweepRow(g)) \/ SweepFails
             \/ CrashAccessManager
    <2>1. UNCHANGED <<ledger, revocations>>
      BY <1>7 DEF SweepTimer, SweepScan, SweepRow, SweepFails, CrashAccessManager, sharedVars
    <2>. QED  BY <2>1, <1>4
  <1>8. CASE \E r \in Revokers : RevokeStep(r) \/ CommitAnswerLost(r) \/ StatementFails(r)
    <2>. PICK r \in Revokers : RevokeStep(r) \/ CommitAnswerLost(r) \/ StatementFails(r)
      BY <1>8
    <2>1. CASE Commit(r) \/ CommitAnswerLost(r)
      BY <2>1, <1>2
    <2>2. CASE Begin(r) \/ SelectForUpdate(r) \/ UpdateStatus(r) \/ InsertRevocation(r)
               \/ Rollback(r) \/ StatementFails(r)
      <3>1. UNCHANGED <<ledger, revocations>>
        BY <2>2 DEF Begin, SelectForUpdate, UpdateStatus, InsertRevocation, Rollback,
                    StatementFails, sharedVars
      <3>. QED  BY <3>1, <1>4
    <2>. QED
      BY <2>1, <2>2 DEF RevokeStep
  <1>. QED
    BY <1>1, <1>3, <1>4, <1>5, <1>6, <1>7, <1>8 DEF AMNext, SweepStep

(* No step undoes a revocation, revives a grant or expires one early.      *)
THEOREM LedgerOnlyMovesForward == AMSpec => LedgerMovesForward
  <1>1. AMInv /\ [AloneNext]_<<sharedVars, amVars>>
        => [(\A g \in Grants : LedgerStep(g)) /\ revocations \subseteq revocations']_<<sharedVars, amVars>>
    <2>1. AMInv /\ Tick /\ UNCHANGED amVars
          => (\A g \in Grants : LedgerStep(g)) /\ revocations \subseteq revocations'
      BY DEF Tick, amVars, LedgerStep
    <2>. QED
      BY <2>1, LedgerStepHolds DEF AloneNext
  <1>. QED
    BY <1>1, AMInvariant, PTL DEF AMSpec, LedgerMovesForward
=============================================================================
