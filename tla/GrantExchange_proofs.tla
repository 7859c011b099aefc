------------------------ MODULE GrantExchange_proofs ------------------------
(***************************************************************************)
(* The whole consent gate keeps its promises for any number of grants,     *)
(* revocations, downloads, BPPs and failures, and implements ConsentGate.  *)
(***************************************************************************)
EXTENDS GrantExchange, AccessManager_proofs, FiniteSetTheorems

(* BPPs without downloads satisfy the invariant.                           *)
LEMMA RedemptionInitInv == SharedInit /\ RedemptionInit => RedemptionInv
  BY NoneIsNoReason
  DEF SharedInit, RedemptionInit, RedemptionInv, RedemptionTypeOK, DownloadState, DownloadSteps,
     PresentedIsHeld, BegunRevokedStays, SlotsAreExclusive, RevocationHonoured, WindowHonoured,
     WithinWindow, GrantOf, InFlight, OverCap, Refusals, Verdicts

(* Steps of the Access Manager, and time, as the downloads see them: what  *)
(* is held stays held and keeps its claims, what is revoked stays revoked. *)
SharedMovesOn ==
  /\ held \subseteq held'
  /\ revocations \subseteq revocations'
  /\ \A g \in held : claims'[g] = claims[g]
  /\ UNCHANGED redemptionVars

(* The Access Manager's steps are all of that kind.                        *)
LEMMA AMStepsMoveOn ==
  ASSUME AMInv, AMNext, UNCHANGED redemptionVars
  PROVE  SharedMovesOn
  <1>1. revocations \subseteq revocations'
    BY LedgerStepHolds
  <1>2. \A g \in held : claims'[g] = claims[g]
    <2>1. ASSUME NEW g \in Grants, Sign(g)
          PROVE  \A h \in held : claims'[h] = claims[h]
      BY <2>1 DEF Sign, AMInv, HeldIsRecorded, RowsAreSigned, AMTypes, SharedTypeOK
    <2>2. (\E g \in Grants : Sign(g)) \/ UNCHANGED claims
      BY DEF AMNext, Save, SaveFails, ReplyIssued, ReplyLost, ReadGrant, RequestRevoke, RevokeStep,
         Begin, SelectForUpdate, UpdateStatus, InsertRevocation, Commit, CommitAnswerLost,
         StatementFails, Rollback, SweepStep, SweepTimer, SweepScan, SweepRow, SweepCommit,
         SweepFails, CrashAccessManager, sharedVars
    <2>. QED
      BY <2>1, <2>2
  <1>3. held \subseteq held'
    BY DEF AMNext, Sign, Save, SaveFails, ReplyIssued, ReplyLost, ReadGrant, RequestRevoke, RevokeStep,
       Begin, SelectForUpdate, UpdateStatus, InsertRevocation, Commit, CommitAnswerLost,
       StatementFails, Rollback, SweepStep, SweepTimer, SweepScan, SweepRow, SweepCommit,
       SweepFails, CrashAccessManager, sharedVars
  <1>. QED
    BY <1>1, <1>2, <1>3 DEF SharedMovesOn

(* Nothing of that kind disturbs the downloads.                            *)
LEMMA MovesOnInv ==
  ASSUME RedemptionInv, SharedMovesOn
  PROVE  RedemptionInv'
  <1>. USE DEF RedemptionInv
  <1>1. UNCHANGED <<download, downloadsUsed>>
    BY DEF SharedMovesOn, redemptionVars
  <1>2. \A d \in Downloads : download[d].pc # "idle" => claims'[GrantOf(d)] = claims[GrantOf(d)]
    BY DEF SharedMovesOn, PresentedIsHeld
  <1>3. RedemptionTypeOK' /\ PresentedIsHeld' /\ BegunRevokedStays' /\ RevocationHonoured'
    BY <1>1 DEF SharedMovesOn, RedemptionTypeOK, PresentedIsHeld, BegunRevokedStays, RevocationHonoured, GrantOf
  <1>4. SlotsAreExclusive'
    BY <1>1, <1>2 DEF SlotsAreExclusive, OverCap, CapOf, GrantOf
  <1>5. WindowHonoured'
    <2>. SUFFICES ASSUME NEW d \in Downloads, WithinWindow(d)
                  PROVE  WithinWindow(d)'
      BY DEF WindowHonoured
    <2>1. CASE download[d].pc = "idle"
      BY <1>1, <2>1, NoneIsNoReason DEF PresentedIsHeld, WithinWindow, InFlight, Refusals, Verdicts
    <2>2. CASE download[d].pc # "idle"
      BY <1>1, <1>2, <2>2 DEF WithinWindow, GrantOf
    <2>. QED  BY <2>1, <2>2
  <1>. QED
    BY <1>3, <1>4, <1>5

(* One download takes a step; the shared state, but for the failures, and  *)
(* the other downloads do not.                                             *)
LEMMA DownloadMoves ==
  ASSUME RedemptionTypeOK, NEW d \in Downloads, NEW step \in DownloadSteps,
         download' = [download EXCEPT ![d].pc = step]
  PROVE  /\ download'[d] = [download[d] EXCEPT !.pc = step]
         /\ download'[d].pc = step
         /\ download'[d].grant = download[d].grant
         /\ download'[d].reason = download[d].reason
         /\ download'[d].slot = download[d].slot
         /\ download'[d].begun = download[d].begun
         /\ download'[d].begunRevoked = download[d].begunRevoked
         /\ \A e \in Downloads : e # d => download'[e] = download[e]
         /\ download' \in [Downloads -> DownloadState]
  BY DEF RedemptionTypeOK, DownloadState

(* A refusal ends one download and leaves the others as they are.          *)
LEMMA DownloadRefused ==
  ASSUME RedemptionTypeOK, NEW d \in Downloads, NEW why \in Refusals, Refuse(d, why)
  PROVE  /\ download'[d].pc = "refused"
         /\ download'[d].grant = download[d].grant
         /\ download'[d].reason = why
         /\ download'[d].slot = download[d].slot
         /\ download'[d].begun = download[d].begun
         /\ download'[d].begunRevoked = download[d].begunRevoked
         /\ \A e \in Downloads : e # d => download'[e] = download[e]
         /\ download' \in [Downloads -> DownloadState]
  <1>1. download'[d] = [download[d] EXCEPT !.pc = "refused", !.reason = why]
    BY DEF RedemptionTypeOK, Refuse
  <1>2. download'[d] \in DownloadState
    BY <1>1 DEF RedemptionTypeOK, DownloadState, DownloadSteps
  <1>3. /\ \A e \in Downloads : e # d => download'[e] = download[e]
        /\ download' \in [Downloads -> DownloadState]
    BY <1>2 DEF RedemptionTypeOK, Refuse
  <1>. QED
    BY <1>1, <1>3 DEF RedemptionTypeOK, DownloadState

(* A grant that verifies offline has not been expired for longer than the  *)
(* skew and the difference of the clocks, and the refusals for the time    *)
(* are justified.                                                          *)
LEMMA VerdictInTime ==
  ASSUME AMInv, NEW g \in held, NEW at \in BppClock, NEW req, MaxDrift <= Skew
  PROVE  /\ VerifyGrant(claims[g], at, req) # "not-yet-valid"
         /\ VerifyGrant(claims[g], at, req) = "expired" => now > claims[g].expiresAt
         /\ VerifyGrant(claims[g], at, req) = "ok" => now <= claims[g].expiresAt + Skew + MaxDrift
  <1>1. claims[g] \in AccessGrantClaims /\ claims[g].notBefore <= now
    BY DEF AMInv, HeldIsRecorded, RowsAreSigned, SignedInThePast, AMTypes, SharedTypeOK
  <1>2. /\ claims[g].notBefore \in Int /\ claims[g].expiresAt \in Int
        /\ now \in Int /\ MaxDrift \in Int /\ Skew \in Int /\ at \in Int
        /\ now - MaxDrift <= at /\ at <= now + MaxDrift
    BY <1>1, BoundsAssumption, SkewAssumption DEF AccessGrantClaims, AMInv, AMTypes, SharedTypeOK, BppClock
  <1>3. ~NotYetValid(claims[g], at)
    BY <1>1, <1>2 DEF NotYetValid
  <1>4. Expired(claims[g], at) => now > claims[g].expiresAt
    BY <1>2 DEF Expired
  <1>5. ~Expired(claims[g], at) => now <= claims[g].expiresAt + Skew + MaxDrift
    BY <1>2 DEF Expired
  <1>. QED
    BY <1>3, <1>4, <1>5 DEF VerifyGrant

(* A step of one download that leaves the shared state and the counts as   *)
(* they are.                                                               *)
OthersKeep(d) == \A e \in Downloads : e # d => download'[e] = download[e]

(* A grant presented is one somebody holds, judged by a clock within the drift.*)
LEMMA PresentInv ==
  ASSUME AMInv, RedemptionInv, NEW d \in Downloads, NEW g \in Grants, NEW req \in DownloadRequests,
         Present(d, g, req)
  PROVE  RedemptionInv'
  <1>. USE DEF RedemptionInv
  <1>1. g \in held /\ download[d].pc = "idle" /\ UNCHANGED <<sharedVars, downloadsUsed>>
    BY DEF Present
  <1>2. PICK at \in BppClock :
          LET verdict == VerifyGrant(claims[g], at, req) IN
          download' = [download EXCEPT ![d] =
            [grant |-> g, req |-> req, slot |-> 0,
             pc |-> IF verdict = "ok" THEN "verified" ELSE "refused",
             reason |-> IF verdict = "ok" THEN None ELSE verdict,
             begun |-> now, begunRevoked |-> g \in revocations]]
    BY DEF Present
  <1>. DEFINE verdict == VerifyGrant(claims[g], at, req)
  <1>3. /\ download'[d].grant = g
        /\ download'[d].req = req
        /\ download'[d].slot = 0
        /\ download'[d].pc = IF verdict = "ok" THEN "verified" ELSE "refused"
        /\ download'[d].reason = IF verdict = "ok" THEN None ELSE verdict
        /\ download'[d].begun = now
        /\ download'[d].begunRevoked = (g \in revocations)
        /\ OthersKeep(d)
    BY <1>2 DEF RedemptionTypeOK, OthersKeep
  <1>4. verdict \in Verdicts
    BY DEF VerifyGrant, Verdicts
  <1>. HIDE DEF verdict
  <1>5. RedemptionTypeOK'
    <2>1. now \in Nat
      BY BoundsAssumption DEF AMInv, AMTypes, SharedTypeOK
    <2>2. download'[d] \in DownloadState
      BY <1>2, <1>4, <2>1 DEF RedemptionTypeOK, DownloadState, DownloadSteps, Refusals, verdict
    <2>. QED
      BY <1>1, <1>2, <2>2 DEF RedemptionTypeOK
  <1>6. PresentedIsHeld'
    BY <1>1, <1>3 DEF PresentedIsHeld, GrantOf, OthersKeep, sharedVars
  <1>7. BegunRevokedStays'
    BY <1>1, <1>3 DEF BegunRevokedStays, GrantOf, OthersKeep, sharedVars
  <1>8. RevocationHonoured'
    BY <1>1, <1>3 DEF RevocationHonoured, GrantOf, OthersKeep, sharedVars
  <1>9. SlotsAreExclusive'
    BY <1>1, <1>3 DEF SlotsAreExclusive, OverCap, CapOf, GrantOf, OthersKeep, sharedVars, RedemptionTypeOK
  <1>10. WindowHonoured'
    <2>. SUFFICES ASSUME MaxDrift <= Skew, NEW e \in Downloads
                  PROVE  WithinWindow(e)'
      BY DEF WindowHonoured
    <2>1. CASE e # d
      BY <1>1, <1>3, <2>1 DEF WindowHonoured, WithinWindow, GrantOf, OthersKeep, sharedVars
    <2>2. CASE e = d
      <3>1. /\ verdict # "not-yet-valid"
            /\ verdict = "expired" => now > claims[g].expiresAt
            /\ verdict = "ok" => now <= claims[g].expiresAt + Skew + MaxDrift
        BY <1>1, VerdictInTime DEF verdict
      <3>. QED
        BY <1>1, <1>3, <2>2, <3>1, NoneIsNoReason DEF WithinWindow, GrantOf, InFlight, sharedVars, Refusals, Verdicts
    <2>. QED  BY <2>1, <2>2
  <1>. QED
    BY <1>5, <1>6, <1>7, <1>8, <1>9, <1>10

(* A refusal keeps the slots and gives no access.                          *)
LEMMA RefusalInv ==
  ASSUME AMInv, RedemptionInv, NEW d \in Downloads,
         NEW why \in {"revoked", "resource-unavailable", "download-limit-exceeded"},
         download[d].pc # "idle", Refuse(d, why), UNCHANGED <<sharedVars, downloadsUsed>>
  PROVE  RedemptionInv'
  <1>. USE DEF RedemptionInv
  <1>1. why \in Refusals
    BY DEF Refusals
  <1>2. /\ download'[d].pc = "refused"
        /\ download'[d].grant = download[d].grant
        /\ download'[d].reason = why
        /\ download'[d].slot = download[d].slot
        /\ download'[d].begun = download[d].begun
        /\ download'[d].begunRevoked = download[d].begunRevoked
        /\ OthersKeep(d)
        /\ download' \in [Downloads -> DownloadState]
    BY <1>1, DownloadRefused DEF OthersKeep
  <1>3. RedemptionTypeOK'
    BY <1>2 DEF RedemptionTypeOK
  <1>4. PresentedIsHeld'
    BY <1>2 DEF PresentedIsHeld, GrantOf, OthersKeep, sharedVars
  <1>5. BegunRevokedStays' /\ RevocationHonoured'
    BY <1>2 DEF BegunRevokedStays, RevocationHonoured, GrantOf, OthersKeep, sharedVars
  <1>6. SlotsAreExclusive'
    BY <1>2 DEF SlotsAreExclusive, OverCap, CapOf, GrantOf, OthersKeep, sharedVars, RedemptionTypeOK
  <1>7. WindowHonoured'
    BY <1>2 DEF WindowHonoured, WithinWindow, InFlight, GrantOf, OthersKeep, sharedVars
  <1>. QED
    BY <1>3, <1>4, <1>5, <1>6, <1>7

(* Who passes the revocation check did not begin after the revocation.     *)
LEMMA CheckRevocationInv ==
  ASSUME AMInv, RedemptionInv, NEW d \in Downloads, CheckRevocation(d)
  PROVE  RedemptionInv'
  <1>. USE DEF RedemptionInv
  <1>1. download[d].pc = "verified" /\ UNCHANGED <<sharedVars, downloadsUsed>>
    BY DEF CheckRevocation
  <1>2. CASE GrantOf(d) \in revocations
    BY <1>1, <1>2, RefusalInv DEF CheckRevocation
  <1>3. CASE GrantOf(d) \notin revocations
    <2>1. download' = [download EXCEPT ![d].pc = "checked"]
      BY <1>3 DEF CheckRevocation, Continue
    <2>2. /\ download'[d].pc = "checked"
          /\ download'[d].grant = download[d].grant
          /\ download'[d].reason = download[d].reason
          /\ download'[d].slot = download[d].slot
          /\ download'[d].begun = download[d].begun
          /\ download'[d].begunRevoked = download[d].begunRevoked
          /\ OthersKeep(d)
          /\ download' \in [Downloads -> DownloadState]
      BY <2>1, DownloadMoves DEF DownloadSteps, OthersKeep
    <2>3. RedemptionTypeOK'
      BY <1>1, <2>2 DEF RedemptionTypeOK
    <2>4. PresentedIsHeld'
      BY <1>1, <2>2 DEF PresentedIsHeld, GrantOf, OthersKeep, sharedVars
    <2>5. BegunRevokedStays' /\ RevocationHonoured'
      BY <1>1, <1>3, <2>2 DEF BegunRevokedStays, RevocationHonoured, GrantOf, OthersKeep, sharedVars
    <2>6. SlotsAreExclusive'
      BY <1>1, <2>2 DEF SlotsAreExclusive, OverCap, CapOf, GrantOf, OthersKeep, sharedVars, RedemptionTypeOK
    <2>7. WindowHonoured'
      BY <1>1, <2>2 DEF WindowHonoured, WithinWindow, InFlight, GrantOf, OthersKeep, sharedVars
    <2>. QED
      BY <2>3, <2>4, <2>5, <2>6, <2>7
  <1>. QED
    BY <1>2, <1>3

(* The upsert returns a count nobody has been given before.                *)
LEMMA RecordRedemptionInv ==
  ASSUME AMInv, RedemptionInv, NEW d \in Downloads, RecordRedemption(d)
  PROVE  RedemptionInv'
  <1>. USE DEF RedemptionInv
  <1>. DEFINE g == GrantOf(d)
  <1>1. download[d].pc = "checked" /\ UNCHANGED sharedVars
    BY DEF RecordRedemption
  <1>2. g \in Grants
    BY <1>1 DEF PresentedIsHeld, AMInv, AMTypes, SharedTypeOK
  <1>3. /\ downloadsUsed' \in [Grants -> Nat]
        /\ downloadsUsed'[g] = downloadsUsed[g] + 1
        /\ \A h \in Grants : h # g => downloadsUsed'[h] = downloadsUsed[h]
    BY <1>2 DEF RecordRedemption, CountDownload, RedemptionTypeOK
  <1>4. download'[d] = [download[d] EXCEPT !.pc = "reserved", !.slot = downloadsUsed'[g]]
    BY DEF RecordRedemption, RedemptionTypeOK
  <1>5. OthersKeep(d)
    BY DEF RecordRedemption, RedemptionTypeOK, OthersKeep
  <1>6. download'[d] \in DownloadState
    BY <1>2, <1>3, <1>4 DEF RedemptionTypeOK, DownloadState, DownloadSteps
  <1>7. /\ download'[d].pc = "reserved"
        /\ download'[d].grant = download[d].grant
        /\ download'[d].reason = download[d].reason
        /\ download'[d].slot = downloadsUsed[g] + 1
        /\ download'[d].begun = download[d].begun
        /\ download'[d].begunRevoked = download[d].begunRevoked
    BY <1>3, <1>4 DEF RedemptionTypeOK, DownloadState
  <1>8. RedemptionTypeOK'
    BY <1>3, <1>6 DEF RecordRedemption, RedemptionTypeOK
  <1>9. PresentedIsHeld'
    BY <1>1, <1>5, <1>7 DEF PresentedIsHeld, GrantOf, OthersKeep, sharedVars
  <1>10. BegunRevokedStays' /\ RevocationHonoured'
    BY <1>1, <1>5, <1>7 DEF BegunRevokedStays, RevocationHonoured, GrantOf, OthersKeep, sharedVars
  <1>11. WindowHonoured'
    BY <1>1, <1>5, <1>7 DEF WindowHonoured, WithinWindow, InFlight, GrantOf, OthersKeep, sharedVars
  <1>12. SlotsAreExclusive'
    <2>1. \A e \in Downloads : e # d => GrantOf(e)' = GrantOf(e) /\ download'[e] = download[e]
      BY <1>5 DEF OthersKeep, GrantOf
    <2>2. GrantOf(d)' = g
      BY <1>7 DEF GrantOf
    <2>3. \A e \in Downloads : /\ download[e].slot \in Nat
                               /\ GrantOf(e) # None => GrantOf(e) \in Grants
      BY DEF RedemptionTypeOK, DownloadState, GrantOf
    <2>4. \A e \in Downloads : g = GrantOf(e) => download[e].slot <= downloadsUsed[g]
      BY <1>2, <2>3 DEF SlotsAreExclusive, PresentedIsHeld, RedemptionTypeOK
    <2>. SUFFICES ASSUME NEW e \in Downloads
                  PROVE (LET h == GrantOf(e)
                             slot == download[e].slot
                         IN
                         /\ download[e].pc # "idle" => slot <= downloadsUsed[h]
                         /\ download[e].pc \in {"verified", "checked"} => slot = 0
                         /\ download[e].pc \in {"reserved", "served"} => slot > 0
                         /\ download[e].pc = "served" => ~OverCap(e)
                         /\ \A f \in Downloads \ {e} : slot > 0 /\ GrantOf(f) = h => download[f].slot # slot)'
      BY DEF SlotsAreExclusive
    <2>5. CASE e = d
      BY <1>2, <1>3, <1>7, <2>1, <2>2, <2>3, <2>4, <2>5 DEF RedemptionTypeOK
    <2>6. CASE e # d
      <3>1. /\ download'[e] = download[e] /\ GrantOf(e)' = GrantOf(e)
            /\ download[e].pc # "idle" => GrantOf(e) \in Grants
        BY <2>1, <2>6 DEF PresentedIsHeld, AMInv, AMTypes, SharedTypeOK
      <3>2. download[e].pc # "idle" => download[e].slot <= downloadsUsed'[GrantOf(e)]
        BY <1>2, <1>3, <2>3, <3>1 DEF RedemptionTypeOK, SlotsAreExclusive
      <3>3. /\ download[e].pc \in {"verified", "checked"} => download[e].slot = 0
            /\ download[e].pc \in {"reserved", "served"} => download[e].slot > 0
            /\ download[e].pc = "served" => ~OverCap(e)'
        BY <1>1, <2>1, <2>6 DEF SlotsAreExclusive, OverCap, CapOf, sharedVars
      <3>4. \A f \in Downloads \ {e} : download[e].slot > 0 /\ GrantOf(f)' = GrantOf(e)
              => download'[f].slot # download[e].slot
        <4>. SUFFICES ASSUME NEW f \in Downloads \ {e}, download[e].slot > 0, GrantOf(f)' = GrantOf(e)
                      PROVE  download'[f].slot # download[e].slot
          OBVIOUS
        <4>1. CASE f = d
          BY <1>2, <1>3, <1>7, <2>2, <2>3, <2>4, <3>1, <4>1 DEF RedemptionTypeOK, GrantOf
        <4>2. CASE f # d
          BY <2>1, <4>2 DEF SlotsAreExclusive
        <4>. QED  BY <4>1, <4>2
      <3>. QED
        BY <3>1, <3>2, <3>3, <3>4
    <2>. QED  BY <2>5, <2>6
  <1>. QED
    BY <1>8, <1>9, <1>10, <1>11, <1>12

(* Who is served has a slot within the cap.                                *)
LEMMA AnswerInv ==
  ASSUME AMInv, RedemptionInv, NEW d \in Downloads, Answer(d)
  PROVE  RedemptionInv'
  <1>. USE DEF RedemptionInv
  <1>1. download[d].pc = "reserved" /\ UNCHANGED <<sharedVars, downloadsUsed>>
    BY DEF Answer
  <1>2. CASE OverCap(d)
    BY <1>1, <1>2, RefusalInv DEF Answer
  <1>3. CASE ~OverCap(d)
    <2>1. download' = [download EXCEPT ![d].pc = "served"]
      BY <1>3 DEF Answer, Continue
    <2>2. /\ download'[d].pc = "served"
          /\ download'[d].grant = download[d].grant
          /\ download'[d].reason = download[d].reason
          /\ download'[d].slot = download[d].slot
          /\ download'[d].begun = download[d].begun
          /\ download'[d].begunRevoked = download[d].begunRevoked
          /\ OthersKeep(d)
          /\ download' \in [Downloads -> DownloadState]
      BY <2>1, DownloadMoves DEF DownloadSteps, OthersKeep
    <2>3. RedemptionTypeOK'
      BY <1>1, <2>2 DEF RedemptionTypeOK
    <2>4. PresentedIsHeld'
      BY <1>1, <2>2 DEF PresentedIsHeld, GrantOf, OthersKeep, sharedVars
    <2>5. BegunRevokedStays' /\ RevocationHonoured'
      BY <1>1, <2>2 DEF BegunRevokedStays, RevocationHonoured, GrantOf, OthersKeep, sharedVars
    <2>6. SlotsAreExclusive'
      BY <1>1, <1>3, <2>2 DEF SlotsAreExclusive, OverCap, CapOf, GrantOf, OthersKeep, sharedVars, RedemptionTypeOK
    <2>7. WindowHonoured'
      BY <1>1, <2>2 DEF WindowHonoured, WithinWindow, InFlight, GrantOf, OthersKeep, sharedVars
    <2>. QED
      BY <2>3, <2>4, <2>5, <2>6, <2>7
  <1>. QED
    BY <1>2, <1>3

(* The counts grow and a download under way fails: the slots stay apart.   *)
LEMMA MoreUsedInv ==
  ASSUME RedemptionTypeOK, PresentedIsHeld, held \subseteq Grants, SlotsAreExclusive,
         NEW d \in Downloads, download'[d].pc = "error", download[d].pc # "idle",
         download'[d].grant = download[d].grant, download'[d].slot = download[d].slot,
         OthersKeep(d), claims' = claims,
         downloadsUsed' \in [Grants -> Nat],
         \A g \in Grants : downloadsUsed[g] <= downloadsUsed'[g]
  PROVE  SlotsAreExclusive'
  <1>1. \A e \in Downloads :
          /\ GrantOf(e)' = GrantOf(e) /\ download'[e].slot = download[e].slot
          /\ download[e].slot \in Nat
          /\ e # d => download'[e].pc = download[e].pc
          /\ download[e].pc # "idle" => GrantOf(e) \in Grants
    BY DEF RedemptionTypeOK, DownloadState, PresentedIsHeld, OthersKeep, GrantOf
  <1>. SUFFICES ASSUME NEW e \in Downloads
                PROVE (LET h == GrantOf(e)
                           slot == download[e].slot
                       IN
                       /\ download[e].pc # "idle" => slot <= downloadsUsed[h]
                       /\ download[e].pc \in {"verified", "checked"} => slot = 0
                       /\ download[e].pc \in {"reserved", "served"} => slot > 0
                       /\ download[e].pc = "served" => ~OverCap(e)
                       /\ \A f \in Downloads \ {e} : slot > 0 /\ GrantOf(f) = h => download[f].slot # slot)'
    BY DEF SlotsAreExclusive
  <1>2. download[e].pc # "idle" => download[e].slot <= downloadsUsed'[GrantOf(e)]
    BY <1>1 DEF SlotsAreExclusive, RedemptionTypeOK
  <1>3. OverCap(e)' = OverCap(e)
    BY <1>1 DEF OverCap, CapOf
  <1>. QED
    BY <1>1, <1>2, <1>3 DEF SlotsAreExclusive

(* A failed download takes at most one slot with it.                       *)
LEMMA DownloadFailsInv ==
  ASSUME AMInv, RedemptionInv, NEW d \in Downloads, DownloadFails(d)
  PROVE  RedemptionInv'
  <1>. USE DEF RedemptionInv
  <1>1. download[d].pc \in InFlight /\ download[d].pc # "idle" /\ UNCHANGED <<now, claims, held, revocations>>
    BY DEF DownloadFails, InFlight
  <1>2. download' = [download EXCEPT ![d].pc = "error"]
    BY DEF DownloadFails, Continue
  <1>3. /\ download'[d].pc = "error"
        /\ download'[d].grant = download[d].grant
        /\ download'[d].reason = download[d].reason
        /\ download'[d].slot = download[d].slot
        /\ download'[d].begun = download[d].begun
        /\ download'[d].begunRevoked = download[d].begunRevoked
        /\ OthersKeep(d)
        /\ download' \in [Downloads -> DownloadState]
    BY <1>2, DownloadMoves DEF DownloadSteps, OthersKeep
  <1>4. GrantOf(d) \in Grants
    BY <1>1 DEF PresentedIsHeld, AMInv, AMTypes, SharedTypeOK
  <1>5. /\ downloadsUsed' \in [Grants -> Nat]
        /\ \A g \in Grants : downloadsUsed[g] <= downloadsUsed'[g]
    BY <1>4 DEF DownloadFails, CountDownload, RedemptionTypeOK
  <1>6. RedemptionTypeOK'
    BY <1>3, <1>5 DEF RedemptionTypeOK
  <1>7. PresentedIsHeld'
    BY <1>1, <1>3 DEF PresentedIsHeld, GrantOf, OthersKeep
  <1>8. BegunRevokedStays' /\ RevocationHonoured'
    BY <1>1, <1>3 DEF BegunRevokedStays, RevocationHonoured, GrantOf, OthersKeep
  <1>9. SlotsAreExclusive'
    BY <1>1, <1>3, <1>5, MoreUsedInv DEF AMInv, AMTypes, SharedTypeOK
  <1>10. WindowHonoured'
    BY <1>1, <1>3 DEF WindowHonoured, WithinWindow, InFlight, GrantOf, OthersKeep
  <1>. QED
    BY <1>6, <1>7, <1>8, <1>9, <1>10

(* A crash ends the downloads of one BPP and changes no count.             *)
LEMMA CrashBppInv ==
  ASSUME AMInv, RedemptionInv, NEW b \in BPPs, CrashBpp(b)
  PROVE  RedemptionInv'
  <1>. USE DEF RedemptionInv
  <1>1. UNCHANGED <<now, claims, held, revocations, downloadsUsed>>
    BY DEF CrashBpp
  <1>2. \A d \in Downloads :
          \/ download'[d] = download[d]
          \/ download[d].pc \in InFlight /\ download'[d] = [download[d] EXCEPT !.pc = "error"]
    BY DEF CrashBpp
  <1>3. \A d \in Downloads :
          /\ \/ download'[d].pc = download[d].pc
             \/ download[d].pc \in InFlight /\ download'[d].pc = "error"
          /\ download'[d].grant = download[d].grant
          /\ download'[d].reason = download[d].reason
          /\ download'[d].slot = download[d].slot
          /\ download'[d].begun = download[d].begun
          /\ download'[d].begunRevoked = download[d].begunRevoked
          /\ download'[d] \in DownloadState
    <2>. SUFFICES ASSUME NEW d \in Downloads
                  PROVE  /\ \/ download'[d].pc = download[d].pc
                            \/ download[d].pc \in InFlight /\ download'[d].pc = "error"
                         /\ download'[d].grant = download[d].grant
                         /\ download'[d].reason = download[d].reason
                         /\ download'[d].slot = download[d].slot
                         /\ download'[d].begun = download[d].begun
                         /\ download'[d].begunRevoked = download[d].begunRevoked
                         /\ download'[d] \in DownloadState
      OBVIOUS
    <2>1. download[d] \in DownloadState
      BY DEF RedemptionTypeOK
    <2>2. CASE download'[d] = download[d]
      BY <2>1, <2>2
    <2>3. CASE download[d].pc \in InFlight /\ download'[d] = [download[d] EXCEPT !.pc = "error"]
      BY <2>1, <2>3 DEF DownloadState, DownloadSteps
    <2>. QED  BY <1>2, <2>2, <2>3
  <1>4. RedemptionTypeOK'
    BY <1>1, <1>3 DEF CrashBpp, RedemptionTypeOK
  <1>5. PresentedIsHeld'
    BY <1>1, <1>3 DEF PresentedIsHeld, GrantOf, InFlight
  <1>6. BegunRevokedStays' /\ RevocationHonoured'
    BY <1>1, <1>3 DEF BegunRevokedStays, RevocationHonoured, GrantOf
  <1>7. SlotsAreExclusive'
    BY <1>1, <1>3 DEF SlotsAreExclusive, OverCap, CapOf, GrantOf, InFlight
  <1>8. WindowHonoured'
    BY <1>1, <1>3 DEF WindowHonoured, WithinWindow, InFlight, GrantOf
  <1>. QED
    BY <1>4, <1>5, <1>6, <1>7, <1>8

(* A step of the BPPs leaves the Access Manager's invariant alone.         *)
LEMMA RedemptionStepsAside ==
  ASSUME AMInv, RedemptionNext, UNCHANGED amVars
  PROVE  AMInv'
  <1>1. UNCHANGED <<now, claims, held, revocations>> /\ (Fault \/ UNCHANGED faults)
    BY DEF RedemptionNext, Present, DownloadStep, CheckRevocation, FileMissing, RecordRedemption, Answer,
           DownloadFails, CrashBpp, sharedVars
  <1>2. OthersStep
    BY <1>1, BoundsAssumption DEF Fault, OthersStep, AMInv, AMTypes, SharedTypeOK
  <1>. QED
    BY <1>2, OthersInv

(* Every step of the BPPs preserves the invariant.                         *)
LEMMA RedemptionNextInv ==
  ASSUME AMInv, RedemptionInv, RedemptionNext
  PROVE  RedemptionInv'
  <1>1. ASSUME NEW d \in Downloads, NEW g \in Grants, NEW req \in DownloadRequests, Present(d, g, req)
        PROVE  RedemptionInv'
    BY <1>1, PresentInv
  <1>2. ASSUME NEW d \in Downloads, DownloadStep(d)
        PROVE  RedemptionInv'
    <2>1. CASE CheckRevocation(d)
      BY <2>1, CheckRevocationInv
    <2>2. CASE FileMissing(d)
      BY <2>2, RefusalInv DEF FileMissing
    <2>3. CASE RecordRedemption(d)
      BY <2>3, RecordRedemptionInv
    <2>4. CASE Answer(d)
      BY <2>4, AnswerInv
    <2>. QED
      BY <1>2, <2>1, <2>2, <2>3, <2>4 DEF DownloadStep
  <1>3. ASSUME NEW d \in Downloads, DownloadFails(d)
        PROVE  RedemptionInv'
    BY <1>3, DownloadFailsInv
  <1>4. ASSUME NEW b \in BPPs, CrashBpp(b)
        PROVE  RedemptionInv'
    BY <1>4, CrashBppInv
  <1>. QED
    BY <1>1, <1>2, <1>3, <1>4 DEF RedemptionNext

(* Time preserves both invariants.                                         *)
LEMMA TickInv ==
  ASSUME ExchangeInv, Tick, UNCHANGED <<amVars, redemptionVars>>
  PROVE  ExchangeInv'
  <1>1. AMInv'
    <2>1. OthersStep
      BY BoundsAssumption DEF Tick, OthersStep, amVars, ExchangeInv, AMInv, AMTypes, SharedTypeOK
    <2>. QED
      BY <2>1, OthersInv DEF ExchangeInv
  <1>2. SharedMovesOn
    BY DEF Tick, SharedMovesOn
  <1>. QED
    BY <1>1, <1>2, MovesOnInv DEF ExchangeInv

(* Every step of the whole gate preserves the inductive invariant.         *)
LEMMA ExchangeNextInv ==
  ASSUME ExchangeInv, [Next]_vars
  PROVE  ExchangeInv'
  <1>1. CASE AMNext /\ UNCHANGED redemptionVars
    BY <1>1, AMNextInv, AMStepsMoveOn, MovesOnInv DEF ExchangeInv
  <1>2. CASE RedemptionNext /\ UNCHANGED amVars
    BY <1>2, RedemptionStepsAside, RedemptionNextInv DEF ExchangeInv
  <1>3. CASE Tick /\ UNCHANGED <<amVars, redemptionVars>>
    BY <1>3, TickInv
  <1>4. CASE UNCHANGED vars
    <2>1. OthersStep
      BY <1>4 DEF OthersStep, vars, sharedVars, ExchangeInv, AMInv, AMTypes, SharedTypeOK
    <2>2. SharedMovesOn
      BY <1>4 DEF SharedMovesOn, vars, sharedVars
    <2>. QED
      BY <2>1, <2>2, OthersInv, MovesOnInv DEF ExchangeInv
  <1>. QED
    BY <1>1, <1>2, <1>3, <1>4 DEF Next

(* The inductive invariant of the whole consent gate holds in every        *)
(* reachable state.                                                        *)
THEOREM ExchangeInvariant == Spec => []ExchangeInv
  <1>1. Init => ExchangeInv
    BY AMInitInv, RedemptionInitInv DEF Init, ExchangeInv
  <1>2. ExchangeInv /\ [Next]_vars => ExchangeInv'
    BY ExchangeNextInv
  <1>. QED
    BY <1>1, <1>2, PTL DEF Spec

(* Every variable of the deployed gate keeps its type.                     *)
THEOREM ExchangeTypeCorrect == Spec => []TypeOK
  <1>1. ExchangeInv => TypeOK
    BY DEF ExchangeInv, AMInv, AMTypes, RedemptionInv, TypeOK
  <1>. QED
    BY <1>1, ExchangeInvariant, PTL

(* A download that begins after the revocation of its grant is committed   *)
(* never gets past the revocation check, whatever runs beside it.          *)
THEOREM RevocationIsImmediate == Spec => []RevocationHonoured
  <1>1. ExchangeInv => RevocationHonoured
    BY DEF ExchangeInv, RedemptionInv
  <1>. QED
    BY <1>1, ExchangeInvariant, PTL

(* While the clocks differ by no more than the skew, no fresh grant is     *)
(* refused, none is refused as expired early, and none is honoured longer  *)
(* than skew and difference after its expiry.                              *)
THEOREM SkewAbsorbsDrift == Spec => []WindowHonoured
  <1>1. ExchangeInv => WindowHonoured
    BY DEF ExchangeInv, RedemptionInv
  <1>. QED
    BY <1>1, ExchangeInvariant, PTL

(* The slots of the downloads served under a capped grant are distinct     *)
(* numbers between 1 and the cap, so there are no more than the cap.       *)
LEMMA ServedWithinCap == ExchangeInv => CapRespected
  <1>. SUFFICES ASSUME ExchangeInv, NEW g \in Grants, claims[g] # None, CapOf(g) # None
                PROVE  Cardinality(ServedOf(g)) <= CapOf(g)
    BY DEF CapRespected
  <1>. DEFINE cap == CapOf(g)
              slotOf == [d \in ServedOf(g) |-> download[d].slot]
  <1>1. cap \in Nat
    BY DEF ExchangeInv, AMInv, AMTypes, SharedTypeOK, AccessGrantClaims, GrantScope, CapOf
  <1>2. \A d \in ServedOf(g) : download[d].slot \in 1..cap
    BY <1>1 DEF ServedOf, DownloadsOf, ExchangeInv, RedemptionInv, SlotsAreExclusive, OverCap, CapOf,
                GrantOf, RedemptionTypeOK, DownloadState
  <1>3. \A d, e \in ServedOf(g) : d # e => download[d].slot # download[e].slot
    BY <1>2 DEF ServedOf, DownloadsOf, ExchangeInv, RedemptionInv, SlotsAreExclusive, GrantOf
  <1>4. slotOf \in Injection(ServedOf(g), 1..cap)
    BY <1>2, <1>3 DEF Injection, IsInjective
  <1>5. IsFiniteSet(1..cap) /\ Cardinality(1..cap) = cap
    BY <1>1, FS_Interval
  <1>. HIDE DEF cap, slotOf
  <1>6. Cardinality(ServedOf(g)) <= Cardinality(1..cap)
    BY <1>4, <1>5, FS_Injection
  <1>. QED
    BY <1>1, <1>5, <1>6 DEF cap

(* A grant's file is sent at most maxDownloads times, whatever the         *)
(* interleaving of the downloads and the failures.                         *)
THEOREM CapIsNeverExceeded == Spec => []CapRespected
  BY ServedWithinCap, ExchangeInvariant, PTL

-----------------------------------------------------------------------------
(* Downloads the count of a grant may have been raised for: those that     *)
(* were told a slot, and those that failed, perhaps after the upsert.      *)
CountedFor(g) ==
  { d \in DownloadsOf(g) : download[d].slot > 0 \/ download[d].pc = "error" }

CountsAreTaken == \A g \in Grants : downloadsUsed[g] <= Cardinality(CountedFor(g))

(* A refused download with a slot, or refused for the cap, was over it.    *)
RefusedOverCap ==
  \A d \in Downloads :
    /\ download[d].pc = "refused" /\ download[d].slot > 0 => OverCap(d)
    /\ download[d].reason = "download-limit-exceeded" => download[d].pc = "refused" /\ OverCap(d)

SlotsInv == CountsAreTaken /\ RefusedOverCap

(* What counts a download once counts it for ever.                         *)
LEMMA CountedStay ==
  ASSUME RedemptionTypeOK, RedemptionTypeOK', NEW g \in Grants,
         \A d \in CountedFor(g) : /\ download'[d].grant = download[d].grant
                                  /\ \/ download'[d].slot = download[d].slot
                                     \/ download'[d].pc = "error"
                                  /\ download[d].pc = "error" => download'[d].pc = "error"
  PROVE  /\ CountedFor(g) \subseteq CountedFor(g)'
         /\ IsFiniteSet(CountedFor(g)) /\ IsFiniteSet(CountedFor(g)')
         /\ Cardinality(CountedFor(g)) \in Nat /\ Cardinality(CountedFor(g)') \in Nat
         /\ Cardinality(CountedFor(g)) <= Cardinality(CountedFor(g)')
  <1>1. CountedFor(g) \in SUBSET Downloads /\ CountedFor(g)' \in SUBSET Downloads
    BY DEF CountedFor, DownloadsOf
  <1>2. CountedFor(g) \subseteq CountedFor(g)'
    BY DEF CountedFor, DownloadsOf
  <1>3. IsFiniteSet(CountedFor(g)) /\ IsFiniteSet(CountedFor(g)')
    BY <1>1, DownloadsAssumption, FS_Subset
  <1>. QED
    BY <1>2, <1>3, FS_Subset, FS_CardinalityType

(* A step that raises no count: downloads that are counted stay counted.   *)
LEMMA SameCounts ==
  ASSUME RedemptionTypeOK, RedemptionTypeOK', CountsAreTaken, UNCHANGED downloadsUsed,
         \A d \in Downloads : download[d].slot > 0 \/ download[d].pc = "error" =>
           /\ download'[d].grant = download[d].grant
           /\ download'[d].slot = download[d].slot \/ download'[d].pc = "error"
           /\ download[d].pc = "error" => download'[d].pc = "error"
  PROVE  CountsAreTaken'
  <1>. SUFFICES ASSUME NEW g \in Grants
                PROVE  downloadsUsed[g] <= Cardinality(CountedFor(g)')
    BY DEF CountsAreTaken
  <1>1. /\ Cardinality(CountedFor(g)) \in Nat /\ Cardinality(CountedFor(g)') \in Nat
        /\ Cardinality(CountedFor(g)) <= Cardinality(CountedFor(g)')
    BY CountedStay DEF CountedFor, DownloadsOf
  <1>. QED
    BY <1>1 DEF CountsAreTaken, RedemptionTypeOK

(* The upsert counts one download that was not counted before.             *)
LEMMA OneMoreCounted ==
  ASSUME RedemptionTypeOK, RedemptionTypeOK', CountsAreTaken, NEW d \in Downloads,
         GrantOf(d) \in Grants, download[d].slot = 0, download[d].pc # "error",
         downloadsUsed' = [downloadsUsed EXCEPT ![GrantOf(d)] = @ + 1],
         download'[d].grant = download[d].grant,
         download'[d].slot > 0 \/ download'[d].pc = "error",
         OthersKeep(d)
  PROVE  CountsAreTaken'
  <1>. SUFFICES ASSUME NEW g \in Grants
                PROVE  downloadsUsed'[g] <= Cardinality(CountedFor(g)')
    BY DEF CountsAreTaken
  <1>1. d \notin CountedFor(g)
    BY DEF CountedFor
  <1>2. /\ CountedFor(g) \subseteq CountedFor(g)'
        /\ IsFiniteSet(CountedFor(g)) /\ IsFiniteSet(CountedFor(g)')
        /\ Cardinality(CountedFor(g)) \in Nat /\ Cardinality(CountedFor(g)') \in Nat
        /\ Cardinality(CountedFor(g)) <= Cardinality(CountedFor(g)')
    BY <1>1, CountedStay DEF CountedFor, DownloadsOf, OthersKeep
  <1>3. downloadsUsed[g] <= Cardinality(CountedFor(g)) /\ downloadsUsed[g] \in Nat
    BY DEF CountsAreTaken, RedemptionTypeOK
  <1>4. CASE g # GrantOf(d)
    BY <1>2, <1>3, <1>4 DEF RedemptionTypeOK
  <1>5. CASE g = GrantOf(d)
    <2>1. CountedFor(g) \cup {d} \in SUBSET CountedFor(g)'
      BY <1>2, <1>5 DEF CountedFor, DownloadsOf, GrantOf
    <2>2. Cardinality(CountedFor(g) \cup {d}) = Cardinality(CountedFor(g)) + 1
      BY <1>1, <1>2, FS_AddElement
    <2>3. Cardinality(CountedFor(g)) + 1 <= Cardinality(CountedFor(g)')
      BY <1>2, <2>1, <2>2, FS_Subset
    <2>4. downloadsUsed'[g] = downloadsUsed[g] + 1
      BY <1>5 DEF RedemptionTypeOK
    <2>. QED
      BY <1>2, <1>3, <2>3, <2>4
  <1>. QED
    BY <1>4, <1>5

(* Only downloads change the counts; what the others do keeps them.        *)
LEMMA SlotsMovesOn ==
  ASSUME RedemptionInv, RedemptionTypeOK', SlotsInv, SharedMovesOn
  PROVE  SlotsInv'
  <1>. USE DEF RedemptionInv
  <1>1. UNCHANGED <<download, downloadsUsed>>
    BY DEF SharedMovesOn, redemptionVars
  <1>2. CountsAreTaken'
    BY <1>1, SameCounts DEF SlotsInv
  <1>3. \A d \in Downloads : download[d].pc # "idle" => OverCap(d)' = OverCap(d)
    BY <1>1 DEF SharedMovesOn, PresentedIsHeld, OverCap, CapOf, GrantOf
  <1>4. \A d \in Downloads : download[d].pc = "idle" => download[d].reason # "download-limit-exceeded"
    BY NoneIsNoReason DEF PresentedIsHeld, Refusals
  <1>5. RefusedOverCap'
    BY <1>1, <1>3, <1>4 DEF SlotsInv, RefusedOverCap
  <1>. QED
    BY <1>2, <1>5 DEF SlotsInv

(* A download that ends without having asked for a slot, or starts.        *)
LEMMA RefusedWithoutSlot ==
  ASSUME RedemptionInv, RedemptionTypeOK', SlotsInv, NEW d \in Downloads,
         download[d].slot = 0, download[d].pc # "error", download'[d].slot = 0,
         download'[d].reason # "download-limit-exceeded",
         OthersKeep(d), UNCHANGED <<claims, downloadsUsed>>
  PROVE  SlotsInv'
  <1>1. CountsAreTaken'
    <2>1. \A e \in Downloads : download[e].slot > 0 \/ download[e].pc = "error" =>
            download'[e] = download[e]
      BY DEF OthersKeep
    <2>. QED
      BY <2>1, SameCounts DEF RedemptionInv, SlotsInv
  <1>2. RefusedOverCap'
    BY DEF SlotsInv, RefusedOverCap, OthersKeep, OverCap, CapOf, GrantOf
  <1>. QED
    BY <1>1, <1>2 DEF SlotsInv

(* A download begins without a slot.                                      *)
LEMMA SlotsPresent ==
  ASSUME RedemptionInv, RedemptionTypeOK', SlotsInv, NEW d \in Downloads, NEW g \in Grants,
         NEW req \in DownloadRequests, Present(d, g, req)
  PROVE  SlotsInv'
  <1>1. /\ download[d].pc = "idle" /\ download[d].slot = 0 /\ UNCHANGED <<claims, downloadsUsed>>
    BY DEF Present, RedemptionInv, PresentedIsHeld, sharedVars
  <1>2. PICK at \in BppClock :
          LET verdict == VerifyGrant(claims[g], at, req) IN
          download' = [download EXCEPT ![d] =
            [grant |-> g, req |-> req, slot |-> 0,
             pc |-> IF verdict = "ok" THEN "verified" ELSE "refused",
             reason |-> IF verdict = "ok" THEN None ELSE verdict,
             begun |-> now, begunRevoked |-> g \in revocations]]
    BY DEF Present
  <1>3. VerifyGrant(claims[g], at, req) \in Verdicts
    BY DEF VerifyGrant, Verdicts
  <1>4. /\ download'[d].slot = 0
        /\ download'[d].reason \in {None, VerifyGrant(claims[g], at, req)}
        /\ OthersKeep(d)
    BY <1>2 DEF RedemptionInv, RedemptionTypeOK, OthersKeep
  <1>5. download'[d].reason # "download-limit-exceeded"
    BY <1>3, <1>4, NoneIsNoReason DEF Verdicts, Refusals
  <1>. QED
    BY <1>1, <1>4, <1>5, RefusedWithoutSlot

(* Until the upsert a download has no slot to lose.                        *)
LEMMA SlotsBeforeUpsert ==
  ASSUME RedemptionInv, RedemptionTypeOK', SlotsInv, NEW d \in Downloads,
         CheckRevocation(d) \/ FileMissing(d)
  PROVE  SlotsInv'
  <1>1. /\ download[d].pc \in {"verified", "checked"} /\ download[d].slot = 0
        /\ UNCHANGED <<claims, downloadsUsed>>
    BY DEF CheckRevocation, FileMissing, RedemptionInv, SlotsAreExclusive, sharedVars
  <1>2. \/ \E why \in {"revoked", "resource-unavailable"} : Refuse(d, why)
        \/ Continue(d, "checked")
    BY DEF CheckRevocation, FileMissing
  <1>3. CASE Continue(d, "checked")
    <2>1. /\ download'[d].slot = 0 /\ download'[d].reason = download[d].reason /\ OthersKeep(d)
      BY <1>1, <1>3, DownloadMoves DEF Continue, RedemptionInv, DownloadSteps, OthersKeep
    <2>2. download[d].reason # "download-limit-exceeded"
      BY <1>1 DEF SlotsInv, RefusedOverCap
    <2>. QED
      BY <1>1, <2>1, <2>2, RefusedWithoutSlot
  <1>4. ASSUME NEW why \in {"revoked", "resource-unavailable"}, Refuse(d, why)
        PROVE  SlotsInv'
    <2>1. why \in Refusals
      BY DEF Refusals
    <2>2. download'[d].slot = 0 /\ download'[d].reason = why /\ OthersKeep(d)
      BY <1>1, <1>4, <2>1, DownloadRefused DEF RedemptionInv, OthersKeep
    <2>. QED
      BY <1>1, <2>2, RefusedWithoutSlot
  <1>. QED
    BY <1>2, <1>3, <1>4

(* The upsert counts a download and tells it its slot.                     *)
LEMMA SlotsUpsert ==
  ASSUME AMInv, RedemptionInv, RedemptionTypeOK', SlotsInv, NEW d \in Downloads, RecordRedemption(d)
  PROVE  SlotsInv'
  <1>1. /\ download[d].pc = "checked" /\ download[d].slot = 0 /\ GrantOf(d) \in Grants
        /\ downloadsUsed' = [downloadsUsed EXCEPT ![GrantOf(d)] = @ + 1] /\ claims' = claims
    BY DEF RecordRedemption, CountDownload, RedemptionInv, SlotsAreExclusive, PresentedIsHeld,
       AMInv, AMTypes, SharedTypeOK, sharedVars
  <1>2. downloadsUsed'[GrantOf(d)] \in Nat /\ downloadsUsed'[GrantOf(d)] > 0
    BY <1>1 DEF RedemptionInv, RedemptionTypeOK
  <1>3. download'[d] = [download[d] EXCEPT !.pc = "reserved", !.slot = downloadsUsed'[GrantOf(d)]]
    BY DEF RecordRedemption, RedemptionInv, RedemptionTypeOK
  <1>4. /\ download'[d].pc = "reserved" /\ download'[d].slot > 0
        /\ download'[d].grant = download[d].grant /\ download'[d].reason = download[d].reason
        /\ OthersKeep(d)
    BY <1>2, <1>3 DEF RecordRedemption, RedemptionInv, RedemptionTypeOK, DownloadState, OthersKeep
  <1>5. CountsAreTaken'
    BY <1>1, <1>4, OneMoreCounted DEF RedemptionInv, SlotsInv
  <1>6. RefusedOverCap'
    BY <1>1, <1>4 DEF SlotsInv, RefusedOverCap, OthersKeep, OverCap, CapOf, GrantOf
  <1>. QED
    BY <1>5, <1>6 DEF SlotsInv

(* Only who is over the cap is refused for it.                             *)
LEMMA SlotsAnswer ==
  ASSUME RedemptionInv, RedemptionTypeOK', SlotsInv, NEW d \in Downloads, Answer(d)
  PROVE  SlotsInv'
  <1>1. download[d].pc = "reserved" /\ UNCHANGED <<claims, downloadsUsed>>
    BY DEF Answer, sharedVars
  <1>2. /\ download'[d].grant = download[d].grant /\ download'[d].slot = download[d].slot
        /\ OthersKeep(d)
        /\ \/ download'[d].pc = "refused" /\ OverCap(d)
           \/ download'[d].pc = "served" /\ download'[d].reason = download[d].reason
    <2>1. CASE OverCap(d)
      BY <2>1, DownloadRefused DEF Answer, Refusals, RedemptionInv, OthersKeep
    <2>2. CASE ~OverCap(d)
      BY <2>2, DownloadMoves DEF Answer, Continue, RedemptionInv, DownloadSteps, OthersKeep
    <2>. QED  BY <2>1, <2>2
  <1>3. CountsAreTaken'
    <2>1. \A e \in Downloads : /\ download'[e].grant = download[e].grant
                               /\ download'[e].slot = download[e].slot
                               /\ download[e].pc = "error" => download'[e].pc = "error"
      BY <1>1, <1>2 DEF OthersKeep
    <2>. QED
      BY <1>1, <2>1, SameCounts DEF RedemptionInv, SlotsInv
  <1>4. download[d].reason # "download-limit-exceeded"
    BY <1>1 DEF SlotsInv, RefusedOverCap
  <1>5. RefusedOverCap'
    BY <1>1, <1>2, <1>4 DEF SlotsInv, RefusedOverCap, OthersKeep, OverCap, CapOf, GrantOf
  <1>. QED
    BY <1>3, <1>5 DEF SlotsInv

(* A failed download is counted at most once, and stands for its slot.     *)
LEMMA SlotsFail ==
  ASSUME AMInv, RedemptionInv, RedemptionTypeOK', SlotsInv, NEW d \in Downloads, DownloadFails(d)
  PROVE  SlotsInv'
  <1>1. download[d].pc \in InFlight /\ claims' = claims
    BY DEF DownloadFails
  <1>2. /\ download'[d].pc = "error" /\ download'[d].grant = download[d].grant
        /\ download'[d].reason = download[d].reason /\ OthersKeep(d)
    BY DownloadMoves DEF DownloadFails, Continue, RedemptionInv, DownloadSteps, OthersKeep
  <1>3. CountsAreTaken'
    <2>1. CASE UNCHANGED downloadsUsed
      <3>1. \A e \in Downloads : /\ download'[e].grant = download[e].grant
                                 /\ download'[e].slot = download[e].slot \/ download'[e].pc = "error"
                                 /\ download[e].pc = "error" => download'[e].pc = "error"
        BY <1>2 DEF OthersKeep
      <3>. QED
        BY <2>1, <3>1, SameCounts DEF RedemptionInv, SlotsInv
    <2>2. CASE download[d].pc = "checked" /\ CountDownload(GrantOf(d))
      <3>1. download[d].slot = 0 /\ GrantOf(d) \in Grants
        BY <2>2 DEF RedemptionInv, SlotsAreExclusive, PresentedIsHeld, AMInv, AMTypes, SharedTypeOK
      <3>. QED
        BY <1>2, <2>2, <3>1, OneMoreCounted DEF CountDownload, RedemptionInv, SlotsInv
    <2>. QED
      BY <2>1, <2>2 DEF DownloadFails
  <1>4. download[d].reason # "download-limit-exceeded"
    BY <1>1 DEF SlotsInv, RefusedOverCap, InFlight
  <1>5. RefusedOverCap'
    BY <1>1, <1>2, <1>4 DEF SlotsInv, RefusedOverCap, OthersKeep, OverCap, CapOf, GrantOf
  <1>. QED
    BY <1>3, <1>5 DEF SlotsInv

(* So do the downloads that die with their BPP.                            *)
LEMMA SlotsCrash ==
  ASSUME RedemptionInv, RedemptionTypeOK', SlotsInv, NEW b \in BPPs, CrashBpp(b)
  PROVE  SlotsInv'
  <1>1. UNCHANGED <<claims, downloadsUsed>>
    BY DEF CrashBpp
  <1>2. \A d \in Downloads :
          /\ download'[d].grant = download[d].grant /\ download'[d].reason = download[d].reason
          /\ download'[d].slot = download[d].slot
          /\ \/ download'[d].pc = download[d].pc
             \/ download[d].pc \in InFlight /\ download'[d].pc = "error"
    BY DEF CrashBpp, RedemptionInv, RedemptionTypeOK, DownloadState
  <1>3. CountsAreTaken'
    <2>1. \A e \in Downloads : download[e].pc = "error" => download'[e].pc = "error"
      BY <1>2 DEF InFlight
    <2>. QED
      BY <1>1, <1>2, <2>1, SameCounts DEF RedemptionInv, SlotsInv
  <1>4. RefusedOverCap'
    BY <1>1, <1>2 DEF SlotsInv, RefusedOverCap, OverCap, CapOf, GrantOf, InFlight
  <1>. QED
    BY <1>3, <1>4 DEF SlotsInv

(* Every step of the gate keeps the account of the slots.                  *)
LEMMA SlotsNextInv ==
  ASSUME ExchangeInv, ExchangeInv', SlotsInv, [Next]_vars
  PROVE  SlotsInv'
  <1>1. AMInv /\ RedemptionInv /\ RedemptionTypeOK'
    BY DEF ExchangeInv, RedemptionInv
  <1>2. CASE RedemptionNext
    <2>1. ASSUME NEW d \in Downloads, NEW g \in Grants, NEW req \in DownloadRequests, Present(d, g, req)
          PROVE  SlotsInv'
      BY <1>1, <2>1, SlotsPresent
    <2>2. ASSUME NEW d \in Downloads, DownloadStep(d)
          PROVE  SlotsInv'
      BY <1>1, <2>2, SlotsBeforeUpsert, SlotsUpsert, SlotsAnswer DEF DownloadStep
    <2>3. ASSUME NEW d \in Downloads, DownloadFails(d)
          PROVE  SlotsInv'
      BY <1>1, <2>3, SlotsFail
    <2>4. ASSUME NEW b \in BPPs, CrashBpp(b)
          PROVE  SlotsInv'
      BY <1>1, <2>4, SlotsCrash
    <2>. QED
      BY <1>2, <2>1, <2>2, <2>3, <2>4 DEF RedemptionNext
  <1>3. CASE SharedMovesOn
    BY <1>1, <1>3, SlotsMovesOn
  <1>4. AMNext /\ UNCHANGED redemptionVars => SharedMovesOn
    BY <1>1, AMStepsMoveOn
  <1>5. Tick /\ UNCHANGED redemptionVars => SharedMovesOn
    BY DEF Tick, SharedMovesOn
  <1>6. UNCHANGED vars => SharedMovesOn
    BY DEF vars, sharedVars, SharedMovesOn
  <1>. QED
    BY <1>2, <1>3, <1>4, <1>5, <1>6 DEF Next

(* Of the downloads a grant was counted for, those over the cap have       *)
(* distinct slots above it; as many as the cap are left.                   *)
LEMMA HoldersFillTheCap ==
  ASSUME ExchangeInv, SlotsInv
  PROVE  NoSlotWasted
  <1>. SUFFICES ASSUME NEW d \in Downloads, download[d].reason = "download-limit-exceeded"
                PROVE  Cardinality(SlotHolders(GrantOf(d)) \ {d}) >= CapOf(GrantOf(d))
    BY DEF NoSlotWasted
  <1>. DEFINE g == GrantOf(d)
              cap == CapOf(g)
              used == downloadsUsed[g]
              holders == SlotHolders(g) \ {d}
              over == { e \in DownloadsOf(g) : download[e].slot > cap }
              slotOf == [e \in over |-> download[e].slot]
  <1>1. download[d].pc = "refused" /\ OverCap(d)
    BY DEF SlotsInv, RefusedOverCap
  <1>2. g \in Grants /\ claims[g] # None
    BY <1>1 DEF ExchangeInv, RedemptionInv, PresentedIsHeld, AMInv, AMTypes, SharedTypeOK,
       HeldIsRecorded, RowsAreSigned
  <1>3. cap \in Nat /\ download[d].slot > cap
    BY <1>1, <1>2 DEF ExchangeInv, AMInv, AMTypes, SharedTypeOK, AccessGrantClaims, GrantScope, CapOf,
       OverCap
  <1>4. used \in Nat /\ \A e \in Downloads : download[e].slot \in Nat
    BY <1>2 DEF ExchangeInv, RedemptionInv, RedemptionTypeOK, DownloadState
  <1>5. \A e \in over : download[e].slot \in (cap + 1)..used
    BY <1>3, <1>4 DEF ExchangeInv, RedemptionInv, SlotsAreExclusive, PresentedIsHeld, DownloadsOf, GrantOf
  <1>6. \A e, f \in over : e # f => download[e].slot # download[f].slot
    BY <1>3, <1>4 DEF ExchangeInv, RedemptionInv, SlotsAreExclusive, DownloadsOf, GrantOf
  <1>7. CountedFor(g) \subseteq holders \cup over
    <2>. SUFFICES ASSUME NEW e \in CountedFor(g), e \notin over
                  PROVE  e \in holders
      OBVIOUS
    <2>1. /\ e \in Downloads /\ GrantOf(e) = g /\ download[e].slot <= cap /\ e # d
          /\ download[e].slot > 0 \/ download[e].pc = "error"
      BY <1>3, <1>4 DEF CountedFor, DownloadsOf, GrantOf
    <2>2. ~OverCap(e)
      BY <1>3, <1>4, <2>1 DEF OverCap
    <2>3. CASE download[e].pc = "error"
      BY <2>1, <2>3 DEF SlotHolders, DownloadsOf, GrantOf
    <2>4. CASE download[e].pc # "error"
      <3>1. download[e].pc \in {"reserved", "served"}
        <4>1. download[e].pc \in DownloadSteps
          BY <2>1 DEF ExchangeInv, RedemptionInv, RedemptionTypeOK, DownloadState
        <4>2. download[e].pc # "idle" /\ download[e].pc \notin {"verified", "checked"}
          BY <2>1, <2>4 DEF ExchangeInv, RedemptionInv, PresentedIsHeld, SlotsAreExclusive
        <4>3. download[e].pc # "refused"
          BY <2>1, <2>2, <2>4 DEF SlotsInv, RefusedOverCap
        <4>. QED  BY <2>4, <4>1, <4>2, <4>3 DEF DownloadSteps
      <3>. QED
        BY <2>1, <2>2, <3>1 DEF SlotHolders, DownloadsOf, GrantOf
    <2>. QED  BY <2>3, <2>4
  <1>8. /\ IsFiniteSet(holders) /\ IsFiniteSet(over) /\ IsFiniteSet(CountedFor(g))
        /\ holders \in SUBSET Downloads /\ over \in SUBSET Downloads
    <2>1. /\ holders \in SUBSET Downloads /\ over \in SUBSET Downloads
          /\ CountedFor(g) \in SUBSET Downloads
      BY DEF SlotHolders, DownloadsOf, CountedFor
    <2>. QED
      BY <2>1, DownloadsAssumption, FS_Subset
  <1>9. used <= Cardinality(CountedFor(g))
    BY <1>2 DEF SlotsInv, CountsAreTaken
  <1>10. slotOf \in Injection(over, (cap + 1)..used)
    BY <1>5, <1>6 DEF Injection, IsInjective
  <1>11. used >= cap + 1
    BY <1>1, <1>3, <1>4 DEF ExchangeInv, RedemptionInv, SlotsAreExclusive
  <1>. HIDE DEF cap, used, holders, over, slotOf, g
  <1>12. Cardinality(over) <= used - cap
    <2>1. IsFiniteSet((cap + 1)..used) /\ Cardinality((cap + 1)..used) = used - cap
      <3>1. cap + 1 \in Int /\ used \in Int /\ ~(cap + 1 > used) /\ used - (cap + 1) + 1 = used - cap
        BY <1>3, <1>4, <1>11
      <3>. QED  BY <3>1, FS_Interval
    <2>2. Cardinality(over) <= Cardinality((cap + 1)..used)
      BY <1>10, <2>1, FS_Injection
    <2>. QED  BY <2>1, <2>2
  <1>13. Cardinality(CountedFor(g)) <= Cardinality(holders) + Cardinality(over)
    <2>1. /\ IsFiniteSet(holders \cup over)
          /\ Cardinality(holders \cup over) =
               Cardinality(holders) + Cardinality(over) - Cardinality(holders \cap over)
      BY <1>8, FS_Union
    <2>2. IsFiniteSet(holders \cap over)
      BY <1>8, FS_Subset
    <2>3. Cardinality(CountedFor(g)) <= Cardinality(holders \cup over)
      BY <1>7, <2>1, FS_Subset
    <2>4. /\ Cardinality(holders) \in Nat /\ Cardinality(over) \in Nat
          /\ Cardinality(holders \cap over) \in Nat /\ Cardinality(CountedFor(g)) \in Nat
      BY <1>8, <2>2, FS_CardinalityType
    <2>. QED  BY <2>1, <2>3, <2>4
  <1>14. /\ Cardinality(holders) \in Nat /\ Cardinality(over) \in Nat
         /\ Cardinality(CountedFor(g)) \in Nat
    BY <1>8, FS_CardinalityType
  <1>15. Cardinality(holders) >= cap
    BY <1>3, <1>4, <1>9, <1>12, <1>13, <1>14
  <1>. QED
    BY <1>15 DEF holders, cap, g

(* A download is refused for the cap only when as many others as the cap   *)
(* allows were served, are about to be, or failed: refusals and 404s use   *)
(* up no slot, whatever interleaves (download.ts, recordRedemption).       *)
THEOREM NoSlotIsWasted == Spec => []NoSlotWasted
  <1>1. Init => SlotsInv
    <2>. SUFFICES ASSUME Init PROVE SlotsInv
      OBVIOUS
    <2>1. RedemptionTypeOK
      BY RedemptionInitInv DEF Init, RedemptionInv
    <2>2. /\ \A g \in Grants : downloadsUsed[g] = 0
          /\ \A d \in Downloads : download[d].pc = "idle" /\ download[d].reason = None
      BY DEF Init, RedemptionInit
    <2>3. \A g \in Grants : Cardinality(CountedFor(g)) \in Nat
      <3>1. \A g \in Grants : CountedFor(g) \in SUBSET Downloads
        BY DEF CountedFor, DownloadsOf
      <3>. QED
        BY <3>1, DownloadsAssumption, FS_Subset, FS_CardinalityType
    <2>. QED
      BY <2>2, <2>3, NoneIsNoReason DEF SlotsInv, CountsAreTaken, RefusedOverCap, Refusals
  <1>2. ExchangeInv /\ ExchangeInv' /\ SlotsInv /\ [Next]_vars => SlotsInv'
    BY SlotsNextInv
  <1>. QED
    BY <1>1, <1>2, HoldersFillTheCap, ExchangeInvariant, PTL DEF Spec
-----------------------------------------------------------------------------
(* The deployed gate, with its transactions, locks, sweeps, clocks and     *)
(* failures, implements ConsentGate: every step gives or withdraws one     *)
(* consent, moves a visitor as the gate allows, or changes nothing.        *)

(* What is signed is what a request asked for.                             *)
ClaimsAreRequested ==
  \A g \in Grants : claims[g] # None => \E req \in Requests : claims[g].scope = req.scope

(* Only the signing writes claims, from a request.                         *)
LEMMA RequestedStay ==
  ASSUME ExchangeInv, ClaimsAreRequested, [Next]_vars
  PROVE  ClaimsAreRequested'
  <1>1. CASE UNCHANGED claims
    BY <1>1 DEF ClaimsAreRequested
  <1>2. ASSUME NEW g \in Grants, Sign(g)
        PROVE  ClaimsAreRequested'
    BY <1>2 DEF Sign, ClaimsFor, ClaimsAreRequested, ExchangeInv, AMInv, AMTypes, SharedTypeOK
  <1>3. UNCHANGED claims \/ \E g \in Grants : Sign(g)
    <2>1. AMNext => UNCHANGED claims \/ \E g \in Grants : Sign(g)
      BY DEF AMNext, Save, SaveFails, ReplyIssued, ReplyLost, ReadGrant, RequestRevoke, RevokeStep,
         Begin, SelectForUpdate, UpdateStatus, InsertRevocation, Commit, CommitAnswerLost,
         StatementFails, Rollback, SweepStep, SweepTimer, SweepScan, SweepRow, SweepCommit,
         SweepFails, CrashAccessManager, sharedVars
    <2>2. RedemptionNext => UNCHANGED claims
      BY DEF RedemptionNext, Present, DownloadStep, CheckRevocation, FileMissing, RecordRedemption,
         Answer, DownloadFails, CrashBpp, sharedVars
    <2>. QED
      BY <2>1, <2>2 DEF Next, Tick, vars, sharedVars
  <1>. QED
    BY <1>1, <1>2, <1>3

-----------------------------------------------------------------------------
(* The consumer's consent as the ledger and the table tell it.             *)
LEMMA ConsentStands ==
  ASSUME ExchangeInv, NEW g \in Grants
  PROVE  /\ GateConsent[g] = "none" <=> ledger[g] = "ABSENT"
         /\ GateConsent[g] = "given" <=> ledger[g] \in {"ISSUED", "EXPIRED"}
         /\ GateConsent[g] = "withdrawn" <=> ledger[g] = "REVOKED"
         /\ g \in revocations <=> ledger[g] = "REVOKED"
  BY DEF GateConsent, ExchangeInv, AMInv, AMTypes, AMTypeOK, LedgerMatchesTable, Statuses

(* As long as no row moves, the gate sees nothing of the Access Manager.   *)
LEMMA NothingSeen ==
  ASSUME UNCHANGED <<ledger, revocations, download>>,
         \A g \in Grants : ledger[g] # "ABSENT" => claims'[g] = claims[g]
  PROVE  UNCHANGED <<GateConsent, GateLimit, GateVisit>>
  BY DEF GateConsent, GateLimit, GateVisit, CapOf

(* The row of a grant appears: consent is given, for what was signed.      *)
LEMMA RowGivesConsent ==
  ASSUME ExchangeInv, ClaimsAreRequested, NEW g \in Grants, issue[g] = "signed", InsertRow(g),
         UNCHANGED <<claims, revocations, download>>
  PROVE  Gate!Give(g) \/ UNCHANGED <<GateConsent, GateLimit, GateVisit>>
  <1>1. CASE ledger[g] # "ABSENT"
    <2>1. UNCHANGED ledger
      BY <1>1 DEF InsertRow, ExchangeInv, AMInv, AMTypes, AMTypeOK
    <2>. QED  BY <2>1, NothingSeen
  <1>2. CASE ledger[g] = "ABSENT"
    <2>1. /\ ledger'[g] = "ISSUED" /\ \A h \in Grants \ {g} : ledger'[h] = ledger[h]
          /\ g \notin revocations /\ claims[g] # None
      BY <1>2 DEF InsertRow, ExchangeInv, AMInv, AMTypes, AMTypeOK, LedgerMatchesTable, RowsAreSigned
    <2>2. PICK req \in Requests : CapOf(g) = req.scope.maxDownloads
      BY <2>1 DEF ClaimsAreRequested, CapOf
    <2>3. GateConsent[g] = "none" /\ GateConsent' = [GateConsent EXCEPT ![g] = "given"]
      BY <1>2, <2>1 DEF GateConsent
    <2>4. GateLimit' = [GateLimit EXCEPT ![g] = CapOf(g)]
      BY <2>1 DEF GateLimit, CapOf
    <2>5. GateVisit' = GateVisit
      BY DEF GateVisit
    <2>. QED
      BY <2>2, <2>3, <2>4, <2>5 DEF Gate!Give
  <1>. QED
    BY <1>1, <1>2

(* The COMMIT of a revocation withdraws consent, its two writes at once.   *)
LEMMA CommitWithdraws ==
  ASSUME ExchangeInv, NEW r \in Revokers, revoker[r].pc = "inserted", ApplyWrites(r),
         UNCHANGED <<claims, download>>
  PROVE  Gate!Withdraw(Target(r))
  <1>. DEFINE g == Target(r)
  <1>1. /\ g \in Grants /\ ledger[g] \in {"ISSUED", "EXPIRED"}
        /\ ledger' = [ledger EXCEPT ![g] = "REVOKED"] /\ revocations' = revocations \cup {g}
    <2>1. AMInv
      BY DEF ExchangeInv
    <2>2. g \in Grants /\ ledger[g] \in {"ISSUED", "EXPIRED"}
      BY <2>1, CommitEffect
    <2>3. writes[r] = {"status", "revocation"}
      BY <2>1 DEF AMInv, TransactionHolds, Holds
    <2>. QED
      BY <2>2, <2>3 DEF ApplyWrites
  <1>2. GateConsent[g] = "given"
    BY <1>1, ConsentStands
  <1>. HIDE DEF g
  <1>3. ledger'[g] = "REVOKED" /\ \A h \in Grants \ {g} : ledger'[h] = ledger[h]
    BY <1>1 DEF ExchangeInv, AMInv, AMTypes, AMTypeOK
  <1>4. GateConsent' = [GateConsent EXCEPT ![g] = "withdrawn"]
    BY <1>1, <1>3 DEF GateConsent
  <1>5. UNCHANGED <<GateLimit, GateVisit>>
    BY <1>1, <1>3 DEF GateLimit, GateVisit, CapOf
  <1>. QED
    BY <1>2, <1>4, <1>5 DEF Gate!Withdraw, g

(* The sweep changes a status, not the consent.                            *)
LEMMA SweepUnseen ==
  ASSUME ExchangeInv, SweepCommit, UNCHANGED download
  PROVE  UNCHANGED <<GateConsent, GateLimit, GateVisit>>
  <1>1. /\ \A g \in Grants : ledger'[g] = ledger[g] \/ (ledger[g] = "ISSUED" /\ ledger'[g] = "EXPIRED")
        /\ UNCHANGED <<claims, revocations>>
    <2>1. /\ ledger' = [g \in Grants |-> IF g \in sweep.marked THEN "EXPIRED" ELSE ledger[g]]
          /\ UNCHANGED <<claims, revocations>>
      BY DEF SweepCommit, sharedVars
    <2>2. \A g \in sweep.marked : ledger[g] = "ISSUED"
      BY DEF ExchangeInv, AMInv, SweepHolds
    <2>3. ASSUME NEW g \in Grants
          PROVE  ledger'[g] = ledger[g] \/ (ledger[g] = "ISSUED" /\ ledger'[g] = "EXPIRED")
      <3>1. CASE g \in sweep.marked
        BY <2>1, <2>2, <3>1
      <3>2. CASE g \notin sweep.marked
        BY <2>1, <3>2
      <3>. QED  BY <3>1, <3>2
    <2>. QED  BY <2>1, <2>3
  <1>. QED
    BY <1>1 DEF GateConsent, GateLimit, GateVisit, CapOf

(* The Access Manager gives and withdraws consent, each at one instant.    *)
LEMMA AMStepsAllowed ==
  ASSUME ExchangeInv, ClaimsAreRequested, AMNext, UNCHANGED redemptionVars
  PROVE  Gate!GateNext \/ UNCHANGED <<GateConsent, GateLimit, GateVisit>>
  <1>1. UNCHANGED download
    BY DEF redemptionVars
  <1>2. ASSUME NEW g \in Grants, Sign(g)
        PROVE  UNCHANGED <<GateConsent, GateLimit, GateVisit>>
    <2>1. /\ UNCHANGED <<ledger, revocations>> /\ ledger[g] = "ABSENT"
          /\ \A h \in Grants \ {g} : claims'[h] = claims[h]
      BY <1>2 DEF Sign, ExchangeInv, AMInv, RowsAreSigned, AMTypes, SharedTypeOK
    <2>. QED  BY <1>1, <2>1, NothingSeen
  <1>3. ASSUME NEW g \in Grants, Save(g) \/ SaveFails(g)
        PROVE  Gate!Give(g) \/ UNCHANGED <<GateConsent, GateLimit, GateVisit>>
    <2>1. /\ issue[g] = "signed" /\ UNCHANGED <<claims, revocations, download>>
          /\ InsertRow(g) \/ UNCHANGED ledger
      BY <1>1, <1>3 DEF Save, SaveFails, sharedVars
    <2>. QED  BY <2>1, RowGivesConsent, NothingSeen
  <1>4. ASSUME NEW r \in Revokers, Commit(r) \/ CommitAnswerLost(r)
        PROVE  \E g \in Grants : Gate!Withdraw(g)
    <2>1. /\ revoker[r].pc = "inserted" /\ ApplyWrites(r) /\ UNCHANGED <<claims, download>>
          /\ Target(r) \in Grants
      BY <1>1, <1>4 DEF Commit, CommitAnswerLost, ExchangeInv, AMInv, TransactionHolds, Holds
    <2>. QED  BY <2>1, CommitWithdraws
  <1>5. CASE SweepCommit
    BY <1>1, <1>5, SweepUnseen
  <1>6. \/ \E g \in Grants : Sign(g) \/ Save(g) \/ SaveFails(g)
        \/ \E r \in Revokers : Commit(r) \/ CommitAnswerLost(r)
        \/ SweepCommit
        \/ UNCHANGED <<ledger, revocations, claims>>
    BY DEF AMNext, ReplyIssued, ReplyLost, ReadGrant, RequestRevoke, RevokeStep, Begin,
       SelectForUpdate, UpdateStatus, InsertRevocation, StatementFails, Rollback, SweepStep,
       SweepTimer, SweepScan, SweepRow, SweepFails, CrashAccessManager, sharedVars, amVars
  <1>7. CASE UNCHANGED <<ledger, revocations, claims>>
    BY <1>1, <1>7, NothingSeen
  <1>. QED
    BY <1>2, <1>3, <1>4, <1>5, <1>6, <1>7 DEF Gate!GateNext

-----------------------------------------------------------------------------
(* One download moves: its visitor moves from one stage to another.        *)
LEMMA VisitorMoves ==
  ASSUME ExchangeInv, NEW d \in Downloads, OthersKeep(d), download' \in [Downloads -> DownloadState]
  PROVE  GateVisit' = [GateVisit EXCEPT ![d] =
           [grant |-> download'[d].grant, stage |-> Stage(download'[d].pc)]]
  BY DEF GateVisit, OthersKeep

(* When the grant stays, only the stage does.                              *)
LEMMA StageMoves ==
  ASSUME ExchangeInv, NEW d \in Downloads, OthersKeep(d), download' \in [Downloads -> DownloadState],
         download'[d].grant = download[d].grant
  PROVE  GateVisit' = [GateVisit EXCEPT ![d].stage = Stage(download'[d].pc)]
  BY VisitorMoves DEF GateVisit

(* Any of those inside may leave.                                          *)
LEMMA Leaving ==
  ASSUME ExchangeInv, UNCHANGED <<GateConsent, GateLimit>>,
         NEW leaving \in SUBSET Downloads,
         \A d \in leaving : /\ download[d].pc \in InFlight /\ download'[d].grant = download[d].grant
                            /\ download'[d].pc \in {"refused", "error"},
         \A d \in Downloads \ leaving : download'[d] = download[d]
  PROVE  Gate!TurnAway
  <1>1. /\ \A d \in leaving : /\ GateVisit[d].stage \in {"waiting", "admitted"}
                              /\ GateVisit'[d] = [GateVisit[d] EXCEPT !.stage = "away"]
        /\ \A d \in Downloads \ leaving : GateVisit'[d] = GateVisit[d]
    <2>1. ASSUME NEW d \in leaving
          PROVE  /\ GateVisit[d].stage \in {"waiting", "admitted"}
                 /\ GateVisit'[d] = [GateVisit[d] EXCEPT !.stage = "away"]
      <3>1. d \in Downloads /\ download[d].pc \in {"verified", "checked", "reserved"}
        BY DEF InFlight
      <3>2. GateVisit[d] = [grant |-> download[d].grant, stage |-> Stage(download[d].pc)]
        BY <3>1 DEF GateVisit
      <3>3. GateVisit'[d] = [grant |-> download[d].grant, stage |-> Stage(download'[d].pc)]
        BY <3>1 DEF GateVisit
      <3>4. Stage(download[d].pc) \in {"waiting", "admitted"} /\ Stage(download'[d].pc) = "away"
        BY <3>1 DEF Stage
      <3>. QED
        BY <3>2, <3>3, <3>4
    <2>2. \A d \in Downloads \ leaving : GateVisit'[d] = GateVisit[d]
      BY DEF GateVisit
    <2>. QED  BY <2>1, <2>2
  <1>2. leaving \in SUBSET { v \in Downloads : GateVisit[v].stage \in {"waiting", "admitted"} }
    BY <1>1
  <1>3. GateVisit' = [v \in Downloads |->
           IF v \in leaving THEN [GateVisit[v] EXCEPT !.stage = "away"] ELSE GateVisit[v]]
    BY <1>1 DEF GateVisit
  <1>. QED
    BY <1>2, <1>3 DEF Gate!TurnAway

(* Serving within the cap: those served and the one to be served have      *)
(* distinct slots up to the cap.                                           *)
LEMMA RoomForOneMore ==
  ASSUME ExchangeInv, NEW d \in Downloads, download[d].pc = "reserved", ~OverCap(d),
         CapOf(GrantOf(d)) # None
  PROVE  Cardinality(ServedOf(GrantOf(d))) < CapOf(GrantOf(d))
  <1>. DEFINE g == GrantOf(d)
              cap == CapOf(g)
              taken == ServedOf(g) \cup {d}
              slotOf == [e \in taken |-> download[e].slot]
  <1>1. g \in Grants /\ claims[g] # None
    BY DEF ExchangeInv, RedemptionInv, PresentedIsHeld, AMInv, AMTypes, SharedTypeOK,
       HeldIsRecorded, RowsAreSigned
  <1>2. cap \in Nat
    BY <1>1 DEF ExchangeInv, AMInv, AMTypes, SharedTypeOK, AccessGrantClaims, GrantScope, CapOf
  <1>3. \A e \in taken : /\ e \in Downloads /\ GrantOf(e) = g /\ download[e].slot \in Nat
                         /\ download[e].slot > 0 /\ ~OverCap(e)
    BY DEF ServedOf, DownloadsOf, GrantOf, ExchangeInv, RedemptionInv, SlotsAreExclusive,
       RedemptionTypeOK, DownloadState
  <1>4. \A e \in taken : download[e].slot \in 1..cap
    BY <1>2, <1>3 DEF OverCap
  <1>5. \A e, f \in taken : e # f => download[e].slot # download[f].slot
    BY <1>3 DEF ExchangeInv, RedemptionInv, SlotsAreExclusive
  <1>6. slotOf \in Injection(taken, 1..cap)
    BY <1>4, <1>5 DEF Injection, IsInjective
  <1>7. d \notin ServedOf(g) /\ ServedOf(g) \in SUBSET taken
    BY DEF ServedOf
  <1>. HIDE DEF g, cap, taken, slotOf
  <1>8. IsFiniteSet(1..cap) /\ Cardinality(1..cap) = cap
    BY <1>2, FS_Interval
  <1>9. IsFiniteSet(taken) /\ Cardinality(taken) <= cap
    BY <1>6, <1>8, FS_Injection
  <1>10. IsFiniteSet(ServedOf(g)) /\ Cardinality(ServedOf(g)) \in Nat
    BY <1>7, <1>9, FS_Subset, FS_CardinalityType
  <1>11. Cardinality(taken) = Cardinality(ServedOf(g)) + 1
    BY <1>7, <1>10, FS_AddElement DEF taken
  <1>. QED
    BY <1>2, <1>9, <1>10, <1>11 DEF g, cap

(* The gate counts as the model does.                                      *)
LEMMA GateCounts == \A S : Gate!Cardinality(S) = Cardinality(S)
  BY DEF Gate!Cardinality, Cardinality

(* The BPPs move visitors as the gate allows.                              *)
LEMMA RedemptionStepsAllowed ==
  ASSUME ExchangeInv, ExchangeInv', RedemptionNext, UNCHANGED amVars
  PROVE  Gate!GateNext \/ UNCHANGED <<GateConsent, GateLimit, GateVisit>>
  <1>1. UNCHANGED <<ledger, claims, revocations>>
    BY DEF amVars, RedemptionNext, Present, DownloadStep, CheckRevocation, FileMissing,
       RecordRedemption, Answer, DownloadFails, CrashBpp, sharedVars
  <1>2. UNCHANGED <<GateConsent, GateLimit>>
    BY <1>1 DEF GateConsent, GateLimit, CapOf
  <1>3. download \in [Downloads -> DownloadState] /\ download' \in [Downloads -> DownloadState]
    BY DEF ExchangeInv, RedemptionInv, RedemptionTypeOK
  <1>4. ASSUME NEW d \in Downloads, NEW g \in Grants, NEW req \in DownloadRequests, Present(d, g, req)
        PROVE  Gate!Enter(d, g)
    <2>1. /\ download[d].pc = "idle" /\ g \in held /\ OthersKeep(d)
          /\ download'[d].grant = g /\ download'[d].pc \in {"verified", "refused"}
      BY <1>3, <1>4 DEF Present, OthersKeep
    <2>2. GateVisit' = [GateVisit EXCEPT ![d] = [grant |-> g, stage |-> Stage(download'[d].pc)]]
      BY <1>3, <2>1, VisitorMoves
    <2>3. Stage(download'[d].pc) \in {"waiting", "away"}
      BY <2>1 DEF Stage
    <2>4. GateVisit[d].stage = "outside"
      BY <2>1 DEF GateVisit, Stage
    <2>5. GateConsent[g] # "none"
      BY <2>1, ConsentStands DEF ExchangeInv, AMInv, HeldIsRecorded
    <2>. QED
      BY <1>2, <2>2, <2>3, <2>4, <2>5 DEF Gate!Enter
  <1>5. ASSUME NEW d \in Downloads, NEW why \in Refusals, Refuse(d, why), download[d].pc \in InFlight
        PROVE  Gate!TurnAway
    <2>1. /\ download'[d].pc = "refused" /\ download'[d].grant = download[d].grant
          /\ \A e \in Downloads \ {d} : download'[e] = download[e]
      BY <1>5, DownloadRefused DEF ExchangeInv, RedemptionInv
    <2>2. {d} \in SUBSET Downloads
      OBVIOUS
    <2>3. \A e \in {d} : /\ download[e].pc \in InFlight /\ download'[e].grant = download[e].grant
                         /\ download'[e].pc \in {"refused", "error"}
      BY <1>5, <2>1
    <2>. QED
      BY <1>2, <2>1, <2>2, <2>3, Leaving
  <1>6. ASSUME NEW d \in Downloads, CheckRevocation(d)
        PROVE  Gate!Admit(d) \/ Gate!TurnAway
    <2>1. download[d].pc = "verified" /\ GrantOf(d) \in held /\ GrantOf(d) \in Grants
      BY <1>6 DEF CheckRevocation, ExchangeInv, RedemptionInv, PresentedIsHeld, AMInv, AMTypes,
         SharedTypeOK
    <2>2. CASE GrantOf(d) \in revocations
      BY <1>5, <1>6, <2>1, <2>2 DEF CheckRevocation, Refusals, InFlight
    <2>3. CASE GrantOf(d) \notin revocations
      <3>1. /\ download'[d].pc = "checked" /\ download'[d].grant = download[d].grant
            /\ OthersKeep(d)
        BY <1>6, <2>3, DownloadMoves DEF CheckRevocation, Continue, DownloadSteps, OthersKeep,
           ExchangeInv, RedemptionInv
      <3>2. GateVisit' = [GateVisit EXCEPT ![d].stage = "admitted"]
        BY <1>3, <3>1, StageMoves DEF Stage
      <3>3. GateVisit[d].stage = "waiting" /\ GateVisit[d].grant = GrantOf(d)
        BY <2>1 DEF GateVisit, Stage, GrantOf
      <3>4. GateConsent[GrantOf(d)] = "given"
        BY <2>1, <2>3 DEF GateConsent, ExchangeInv, AMInv, HeldIsRecorded
      <3>. QED
        BY <1>2, <3>2, <3>3, <3>4 DEF Gate!Admit
    <2>. QED  BY <2>2, <2>3
  <1>7. ASSUME NEW d \in Downloads, Answer(d)
        PROVE  Gate!Serve(d) \/ Gate!TurnAway
    <2>1. download[d].pc = "reserved" /\ GrantOf(d) \in Grants
      BY <1>7 DEF Answer, ExchangeInv, RedemptionInv, PresentedIsHeld, AMInv, AMTypes, SharedTypeOK
    <2>2. CASE OverCap(d)
      BY <1>5, <1>7, <2>1, <2>2 DEF Answer, Refusals, InFlight
    <2>3. CASE ~OverCap(d)
      <3>1. /\ download'[d].pc = "served" /\ download'[d].grant = download[d].grant
            /\ OthersKeep(d)
        BY <1>7, <2>3, DownloadMoves DEF Answer, Continue, DownloadSteps, OthersKeep,
           ExchangeInv, RedemptionInv
      <3>2. GateVisit' = [GateVisit EXCEPT ![d].stage = "served"]
        BY <1>3, <3>1, StageMoves DEF Stage
      <3>3. GateVisit[d].stage = "admitted" /\ GateVisit[d].grant = GrantOf(d)
        BY <2>1 DEF GateVisit, Stage, GrantOf
      <3>4. Gate!ServedVisitors(GrantOf(d)) = ServedOf(GrantOf(d))
        <4>1. \A e \in Downloads : GateVisit[e].grant = download[e].grant
                                   /\ (GateVisit[e].stage = "served" <=> download[e].pc = "served")
          BY <1>3 DEF GateVisit, Stage, DownloadState, DownloadSteps
        <4>. QED
          BY <4>1 DEF Gate!ServedVisitors, ServedOf, DownloadsOf
      <3>5. GateLimit[GrantOf(d)] # None =>
              Cardinality(ServedOf(GrantOf(d))) < GateLimit[GrantOf(d)]
        BY <2>1, <2>3, RoomForOneMore DEF GateLimit
      <3>. QED
        BY <1>2, <3>2, <3>3, <3>4, <3>5, GateCounts DEF Gate!Serve
    <2>. QED  BY <2>2, <2>3
  <1>8. ASSUME NEW d \in Downloads, FileMissing(d)
        PROVE  Gate!TurnAway
    BY <1>5, <1>8 DEF FileMissing, Refusals, InFlight
  <1>9. ASSUME NEW d \in Downloads, RecordRedemption(d)
        PROVE  UNCHANGED <<GateConsent, GateLimit, GateVisit>>
    <2>1. /\ download[d].pc = "checked"
          /\ download'[d] = [download[d] EXCEPT !.pc = "reserved", !.slot = downloadsUsed'[GrantOf(d)]]
          /\ \A e \in Downloads \ {d} : download'[e] = download[e]
      BY <1>3, <1>9 DEF RecordRedemption
    <2>2. download'[d].pc = "reserved" /\ download'[d].grant = download[d].grant
      BY <1>3, <2>1 DEF DownloadState
    <2>. QED
      BY <1>2, <2>1, <2>2 DEF GateVisit, Stage
  <1>10. ASSUME NEW d \in Downloads, DownloadFails(d)
         PROVE  Gate!TurnAway
    <2>1. download[d].pc \in InFlight
      BY <1>10 DEF DownloadFails
    <2>2. /\ download'[d].pc = "error" /\ download'[d].grant = download[d].grant
          /\ \A e \in Downloads \ {d} : download'[e] = download[e]
      BY <1>10, DownloadMoves DEF DownloadFails, Continue, DownloadSteps, ExchangeInv, RedemptionInv
    <2>3. {d} \in SUBSET Downloads
      OBVIOUS
    <2>4. \A e \in {d} : /\ download[e].pc \in InFlight /\ download'[e].grant = download[e].grant
                         /\ download'[e].pc \in {"refused", "error"}
      BY <2>1, <2>2
    <2>. QED
      BY <1>2, <2>2, <2>3, <2>4, Leaving
  <1>11. ASSUME NEW b \in BPPs, CrashBpp(b)
         PROVE  Gate!TurnAway
    <2>. DEFINE dying == { d \in Downloads : download[d].pc \in InFlight /\ download[d].req.bpp = b }
    <2>1. /\ \A d \in dying : download'[d] = [download[d] EXCEPT !.pc = "error"]
          /\ \A d \in Downloads \ dying : download'[d] = download[d]
      BY <1>11 DEF CrashBpp
    <2>2. \A d \in dying : /\ download[d].pc \in InFlight /\ download'[d].grant = download[d].grant
                           /\ download'[d].pc = "error"
      BY <1>3, <2>1 DEF DownloadState
    <2>. HIDE DEF dying
    <2>3. dying \in SUBSET Downloads
      BY DEF dying
    <2>. QED
      BY <1>2, <2>1, <2>2, <2>3, Leaving
  <1>. QED
    BY <1>4, <1>6, <1>7, <1>8, <1>9, <1>10, <1>11
    DEF RedemptionNext, DownloadStep, Gate!GateNext

(* Initially there is no consent and nobody inside.                        *)
LEMMA GateInitially == Init => Gate!GateInit
  BY DEF Init, SharedInit, AMInit, RedemptionInit, Gate!GateInit, GateConsent, GateLimit, GateVisit,
     Stage

(* The two services on their database implement the gate: the interleaved  *)
(* transactions, downloads, sweeps, crashes and clocks never show a state  *)
(* or a step the gate does not have (access-manager/src/stores/postgres.ts *)
(* and bpp/src/download.ts together).                                      *)
THEOREM GateImplemented == Spec => ImplementsGate
  <1>1. Init => ClaimsAreRequested
    BY DEF Init, SharedInit, ClaimsAreRequested
  <1>2. ExchangeInv /\ ClaimsAreRequested /\ [Next]_vars => ClaimsAreRequested'
    BY RequestedStay
  <1>3. ExchangeInv /\ ExchangeInv' /\ ClaimsAreRequested /\ [Next]_vars
        => [Gate!GateNext]_(Gate!gateVars)
    <2>. SUFFICES ASSUME ExchangeInv, ExchangeInv', ClaimsAreRequested, [Next]_vars
                  PROVE  Gate!GateNext \/ UNCHANGED <<GateConsent, GateLimit, GateVisit>>
      BY DEF Gate!gateVars
    <2>1. CASE AMNext /\ UNCHANGED redemptionVars
      BY <2>1, AMStepsAllowed
    <2>2. CASE RedemptionNext /\ UNCHANGED amVars
      BY <2>2, RedemptionStepsAllowed
    <2>3. CASE UNCHANGED <<ledger, claims, revocations, download>>
      BY <2>3, NothingSeen
    <2>. QED
      BY <2>1, <2>2, <2>3 DEF Next, Tick, vars, sharedVars, amVars, redemptionVars
  <1>. QED
    BY <1>1, <1>2, <1>3, GateInitially, ExchangeInvariant, PTL
    DEF Spec, ImplementsGate, Gate!GateSpec
=============================================================================
