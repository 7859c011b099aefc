----------------------------- MODULE Redemption -----------------------------
(***************************************************************************)
(* GET /download at the BPPs (services/bpp/src/download.ts): offline       *)
(* verification, the online revocation check, the file, the reservation of *)
(* a download slot and the cap.  One step is what happens between two      *)
(* awaits; any number of downloads run at once, in any number of BPP       *)
(* processes, on one Postgres database.                                    *)
(***************************************************************************)
EXTENDS GrantStore

CONSTANTS
  Downloads,         \* requests GET /download
  DownloadRequests,  \* what a caller can ask for
  Sampled            \* offers whose catalog entry has a sample file

ASSUME DownloadRequestsAssumption == DownloadRequests \subseteq DownloadRequest
ASSUME DownloadsAssumption == IsFiniteSet(Downloads)

VARIABLES
  download,        \* download -> its grant, request, step and outcome
  downloadsUsed    \* grant -> downloads_used in bpp_grant_redemptions, 0 if no row

redemptionVars == <<download, downloadsUsed>>

DownloadSteps ==
  {"idle", "verified", "checked", "reserved", "served", "refused", "error"}
InFlight == {"verified", "checked", "reserved"}
Refusals == (Verdicts \ {"ok"}) \cup
            {"revoked", "resource-unavailable", "download-limit-exceeded"}

ASSUME NoneIsNoReason == None \notin Refusals

(* slot is the count recordRedemption returned to this download, 0 if it   *)
(* never asked.  begun and begunRevoked are history: the Access Manager's  *)
(* clock and the revocation table when the grant was presented.            *)
DownloadState ==
  [grant : Grants \cup {None}, req : DownloadRequests \cup {None},
   pc : DownloadSteps, reason : Refusals \cup {None}, slot : Nat,
   begun : Nat, begunRevoked : BOOLEAN]

RedemptionTypeOK ==
  /\ download \in [Downloads -> DownloadState]
  /\ downloadsUsed \in [Grants -> Nat]

RedemptionInit ==
  /\ download = [d \in Downloads |->
       [grant |-> None, req |-> None, pc |-> "idle", reason |-> None, slot |-> 0,
        begun |-> 0, begunRevoked |-> FALSE]]
  /\ downloadsUsed = [g \in Grants |-> 0]

GrantOf(d) == download[d].grant
CapOf(g) == claims[g].scope.maxDownloads

Continue(d, step) == download' = [download EXCEPT ![d].pc = step]
Refuse(d, why) ==
  download' = [download EXCEPT ![d].pc = "refused", ![d].reason = why]

(* The clock is read and the grant is verified offline.                    *)
Present(d, g, req) ==
  /\ download[d].pc = "idle"
  /\ g \in held
  /\ \E at \in BppClock :
       LET verdict == VerifyGrant(claims[g], at, req) IN
       download' = [download EXCEPT ![d] =
         [grant |-> g, req |-> req, slot |-> 0,
          pc |-> IF verdict = "ok" THEN "verified" ELSE "refused",
          reason |-> IF verdict = "ok" THEN None ELSE verdict,
          begun |-> now, begunRevoked |-> g \in revocations]]
  /\ UNCHANGED <<sharedVars, downloadsUsed>>

(* Defect: a grant found good once is not looked up again.                 *)
CheckRevocationDefect(d) ==
  LET known == \E e \in Downloads \ {d} :
                 GrantOf(e) = GrantOf(d) /\ download[e].pc \in {"checked", "reserved", "served"}
  IN
  /\ download[d].pc = "verified"
  /\ IF GrantOf(d) \in revocations /\ ~known THEN Refuse(d, "revoked")
                                              ELSE Continue(d, "checked")
  /\ UNCHANGED <<sharedVars, downloadsUsed>>

(* revocations.isRevoked: one SELECT.                                      *)
CheckRevocation(d) ==
  /\ download[d].pc = "verified"
  /\ IF GrantOf(d) \in revocations THEN Refuse(d, "revoked")
                                   ELSE Continue(d, "checked")
  /\ UNCHANGED <<sharedVars, downloadsUsed>>

(* The file catalog.resolveFile picks: it looks at the offer and at the    *)
(* kind of the scope, never at the fields, and falls back to the full file *)
(* when there is no sample.                                                *)
ResolveFile(c) ==
  IF c.scope.kind = "sample" /\ c.offer \in Sampled THEN "sample" ELSE "full"

CountDownload(g) == downloadsUsed' = [downloadsUsed EXCEPT ![g] = @ + 1]

(* Defect: the slot is taken before the file is looked up.                 *)
FileMissingDefect(d) ==
  /\ download[d].pc = "checked"
  /\ CountDownload(GrantOf(d))
  /\ Refuse(d, "resource-unavailable")
  /\ UNCHANGED sharedVars

(* It is not on disk, or the offer has no entry: no slot is taken.         *)
FileMissing(d) ==
  /\ download[d].pc = "checked"
  /\ Refuse(d, "resource-unavailable")
  /\ UNCHANGED <<sharedVars, downloadsUsed>>

(* Defect: the count is read in one query and written in another.          *)
RecordRedemptionDefect(d) ==
  /\ download[d].pc = "checked"
  /\ IF download[d].slot = 0
     THEN /\ download' = [download EXCEPT ![d].slot = downloadsUsed[GrantOf(d)] + 1]
          /\ UNCHANGED downloadsUsed
     ELSE /\ downloadsUsed' = [downloadsUsed EXCEPT ![GrantOf(d)] = download[d].slot]
          /\ Continue(d, "reserved")
  /\ UNCHANGED sharedVars

(* The file is there; redemptions.recordRedemption: one upsert that        *)
(* returns the new count.                                                  *)
RecordRedemption(d) ==
  /\ download[d].pc = "checked"
  /\ CountDownload(GrantOf(d))
  /\ download' = [download EXCEPT ![d].pc = "reserved",
                                  ![d].slot = downloadsUsed'[GrantOf(d)]]
  /\ UNCHANGED sharedVars

(* Defect: the cap is compared with the count before this download.        *)
OverCapDefect(d) ==
  LET cap == CapOf(GrantOf(d)) IN cap # None /\ download[d].slot - 1 > cap

OverCap(d) ==
  LET cap == CapOf(GrantOf(d)) IN cap # None /\ download[d].slot > cap

(* The cap is compared with the count, and the file is sent.               *)
Answer(d) ==
  /\ download[d].pc = "reserved"
  /\ IF OverCap(d) THEN Refuse(d, "download-limit-exceeded")
                   ELSE Continue(d, "served")
  /\ UNCHANGED <<sharedVars, downloadsUsed>>

(* A query throws, or the stream of the file breaks: a 500.  The upsert    *)
(* may have been executed all the same.                                    *)
DownloadFails(d) ==
  /\ download[d].pc \in InFlight
  /\ Fault
  /\ Continue(d, "error")
  /\ \/ UNCHANGED downloadsUsed
     \/ download[d].pc = "checked" /\ CountDownload(GrantOf(d))
  /\ UNCHANGED <<now, claims, held, revocations>>

(* A BPP process dies with the downloads it was working on.                *)
CrashBpp(b) ==
  /\ Fault
  /\ \E d \in Downloads : download[d].pc \in InFlight /\ download[d].req.bpp = b
  /\ download' = [d \in Downloads |->
       IF download[d].pc \in InFlight /\ download[d].req.bpp = b
       THEN [download[d] EXCEPT !.pc = "error"] ELSE download[d]]
  /\ UNCHANGED <<now, claims, held, revocations, downloadsUsed>>

-----------------------------------------------------------------------------
DownloadStep(d) ==
  \/ CheckRevocation(d)
  \/ FileMissing(d)
  \/ RecordRedemption(d)
  \/ Answer(d)

RedemptionNext ==
  \/ \E d \in Downloads, g \in Grants, req \in DownloadRequests : Present(d, g, req)
  \/ \E d \in Downloads : DownloadStep(d) \/ DownloadFails(d)
  \/ \E b \in BPPs : CrashBpp(b)

-----------------------------------------------------------------------------
DownloadsOf(g) == { d \in Downloads : download[d].grant = g }
ServedOf(g) == { d \in DownloadsOf(g) : download[d].pc = "served" }

(* A grant's file is sent at most maxDownloads times, however many         *)
(* downloads are past the revocation check at once, in however many BPP    *)
(* processes.                                                              *)
CapRespected ==
  \A g \in Grants :
    claims[g] # None /\ CapOf(g) # None => Cardinality(ServedOf(g)) <= CapOf(g)

(* Downloads that hold one of the slots within the cap, or may: one that   *)
(* failed may have been counted by the database.                           *)
SlotHolders(g) ==
  { d \in DownloadsOf(g) :
      \/ download[d].pc = "error"
      \/ download[d].pc \in {"reserved", "served"} /\ ~OverCap(d) }

(* A download is refused for the cap only when as many others as the cap   *)
(* allows were served, are about to be, or failed: refusals, 404s and      *)
(* revoked attempts never use up a slot.                                   *)
NoSlotWasted ==
  \A d \in Downloads :
    download[d].reason = "download-limit-exceeded" =>
      Cardinality(SlotHolders(GrantOf(d)) \ {d}) >= CapOf(GrantOf(d))

(* A download that begins after the revocation of its grant is committed   *)
(* never gets the file: the revocation is immediate for what begins later. *)
RevocationHonoured ==
  \A d \in Downloads :
    download[d].pc \in {"checked", "reserved", "served"} => ~download[d].begunRevoked

(* As long as the clocks differ by no more than the tolerated skew, the    *)
(* BPP neither calls a grant just issued not yet valid nor calls one       *)
(* expired that has not expired for its issuer, and what it serves had     *)
(* expired for the issuer by no more than skew and difference together.    *)
WithinWindow(d) ==
  LET c == claims[GrantOf(d)] IN
  /\ download[d].reason # "not-yet-valid"
  /\ download[d].reason = "expired" => download[d].begun > c.expiresAt
  /\ download[d].pc \in InFlight \cup {"served"} =>
       download[d].begun <= c.expiresAt + Skew + MaxDrift

WindowHonoured == MaxDrift <= Skew => \A d \in Downloads : WithinWindow(d)

(* A `subset` grant never yields fields outside its list.                  *)
SentFields(c) == IF ResolveFile(c) = "full" THEN Fields ELSE {}
SubsetConfined ==
  \A d \in Downloads :
    download[d].pc = "served" /\ claims[GrantOf(d)].scope.kind = "subset" =>
      SentFields(claims[GrantOf(d)]) \subseteq claims[GrantOf(d)].scope.fields

-----------------------------------------------------------------------------
(* Why these hold: what the steps of a download rely on.                   *)

(* A download under way has presented a grant somebody holds.              *)
PresentedIsHeld ==
  \A d \in Downloads :
    IF download[d].pc = "idle"
    THEN GrantOf(d) = None /\ download[d].slot = 0 /\ download[d].reason = None
    ELSE GrantOf(d) \in held

(* What was revoked when a download began still is.                        *)
BegunRevokedStays ==
  \A d \in Downloads : download[d].begunRevoked => GrantOf(d) \in revocations

(* A download has a slot once recordRedemption answered, no slot is given  *)
(* twice, and whoever is served has a slot within the cap.                 *)
SlotsAreExclusive ==
  \A d \in Downloads :
    LET g == GrantOf(d)
        slot == download[d].slot
    IN
    /\ download[d].pc # "idle" => slot <= downloadsUsed[g]
    /\ download[d].pc \in {"verified", "checked"} => slot = 0
    /\ download[d].pc \in {"reserved", "served"} => slot > 0
    /\ download[d].pc = "served" => ~OverCap(d)
    /\ \A e \in Downloads \ {d} : slot > 0 /\ GrantOf(e) = g => download[e].slot # slot

RedemptionInv ==
  /\ RedemptionTypeOK
  /\ PresentedIsHeld
  /\ BegunRevokedStays
  /\ SlotsAreExclusive
  /\ RevocationHonoured
  /\ WindowHonoured
=============================================================================
