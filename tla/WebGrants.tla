------------------------------ MODULE WebGrants ------------------------------
(***************************************************************************)
(* The page of grants of the console (apps/web): it lists what the Access  *)
(* Manager has recorded, and revokes and downloads.  Its handlers overlap. *)
(* What they fetch is read at the backend in one step and arrives at the   *)
(* page in another, so answers overtake each other.                        *)
(***************************************************************************)
EXTENDS Naturals, FiniteSets

CONSTANTS
  Grants,      \* the grants issued to this browser's grantee
  Held,        \* those whose signed artifact localStorage still holds
  Calls,       \* handlers that run
  MaxFaults,   \* bound: failures
  None

VARIABLES
  records,     \* grant -> the status its row shows, or None without a row
  downloads,   \* grant -> the outcome under its row, or None
  busy,        \* the button that is disabled
  call,        \* handler -> what it does, how far it is, what it has fetched
  revoked,     \* grants in the revocation table
  rejected,    \* a fetch of this page was rejected
  faults

pageVars == <<records, downloads, busy>>
grantsVars == <<pageVars, call, revoked, rejected, faults>>

Kinds == {"refresh", "revoke", "download"}
Statuses == {"ISSUED", "REVOKED"}
Table == [Grants -> Statuses \cup {None}]
Outcomes == {"served", "refused"}

(* step: asking (the backend has not acted), asked, listing and listed     *)
(* (the refresh), done.  flipped: the row said REVOKED at the start.       *)
Handler ==
  [kind : Kinds \cup {None}, step : {"idle", "asking", "asked", "listing", "listed", "done"},
   grant : Grants \cup {None}, flipped : BOOLEAN,
   answer : Outcomes \cup {"revoked", "error", None}, listed : Table]

NoRows == [g \in Grants |-> None]

WebGrantsTypeOK ==
  /\ records \in Table
  /\ downloads \in [Grants -> Outcomes \cup {"error", None}]
  /\ busy \in ({"revoke", "download"} \X Grants) \cup {None}
  /\ call \in [Calls -> Handler]
  /\ revoked \subseteq Grants
  /\ rejected \in BOOLEAN
  /\ faults \in 0..MaxFaults

(* The effect of the first render refreshes: the handler of one call.      *)
WebGrantsInit ==
  /\ records = NoRows
  /\ downloads = [g \in Grants |-> None]
  /\ busy = None
  /\ \E first \in Calls : call = [c \in Calls |->
       [kind |-> IF c = first THEN "refresh" ELSE None,
        step |-> IF c = first THEN "listing" ELSE "idle",
        grant |-> None, flipped |-> FALSE, answer |-> None, listed |-> NoRows]]
  /\ revoked = {}
  /\ rejected = FALSE
  /\ faults = 0

Fails == faults < MaxFaults /\ faults' = faults + 1

At(c, step) == call[c].step = step

Press(c, kind, g) ==
  /\ At(c, "idle")
  /\ busy # <<kind, g>>
  /\ busy' = <<kind, g>>
  /\ call' = [call EXCEPT ![c] = [@ EXCEPT !.kind = kind, !.step = "asking", !.grant = g,
                                         !.flipped = (records[g] = "REVOKED")]]
  /\ UNCHANGED <<downloads, revoked, rejected, faults>>

(* Defect: the row flips before anybody has answered.                      *)
RevokeDefect(c, g) ==
  /\ records[g] = "ISSUED"
  /\ Press(c, "revoke", g)
  /\ records' = [records EXCEPT ![g] = "REVOKED"]

(* The Revoke button of a row that is not revoked.                         *)
Revoke(c, g) ==
  /\ records[g] = "ISSUED"
  /\ Press(c, "revoke", g)
  /\ UNCHANGED records

(* The Download button of a row whose artifact is held.                    *)
Download(c, g) ==
  /\ records[g] # None
  /\ g \in Held
  /\ Press(c, "download", g)
  /\ UNCHANGED records

(* The Access Manager revokes, or the BPP decides, and answers.            *)
BackendActs(c) ==
  LET g == call[c].grant IN
  /\ At(c, "asking")
  /\ revoked' = IF call[c].kind = "revoke" THEN revoked \cup {g} ELSE revoked
  /\ call' = [call EXCEPT ![c] = [@ EXCEPT !.step = "asked",
       !.answer = IF call[c].kind = "revoke" THEN "revoked"
                  ELSE IF g \in revoked THEN "refused" ELSE "served"]]
  /\ UNCHANGED <<pageVars, rejected, faults>>

(* An error status instead: what the page made of it is not looked at.     *)
BackendErrs(c) ==
  /\ At(c, "asking")
  /\ Fails
  /\ call' = [call EXCEPT ![c] = [@ EXCEPT !.step = "asked", !.answer = "error"]]
  /\ UNCHANGED <<pageVars, revoked, rejected>>

(* Revoke: res.ok is not looked at, the page refreshes.                    *)
RevokeAnswered(c) ==
  /\ At(c, "asked") /\ call[c].kind = "revoke"
  /\ call' = [call EXCEPT ![c].step = "listing"]
  /\ UNCHANGED <<pageVars, revoked, rejected, faults>>

(* Defect: the slot is kept.                                               *)
DownloadAnsweredDefect(c) ==
  /\ At(c, "asked") /\ call[c].kind = "download"
  /\ downloads' = [downloads EXCEPT ![call[c].grant] = call[c].answer]
  /\ call' = [call EXCEPT ![c].step = "done"]
  /\ UNCHANGED <<records, busy, revoked, rejected, faults>>

DownloadAnswered(c) ==
  /\ At(c, "asked") /\ call[c].kind = "download"
  /\ downloads' = [downloads EXCEPT ![call[c].grant] = call[c].answer]
  /\ busy' = None
  /\ call' = [call EXCEPT ![c].step = "done"]
  /\ UNCHANGED <<records, revoked, rejected, faults>>

(* GET /api/grants: the Access Manager reads its records.                  *)
List(c) ==
  /\ At(c, "listing")
  /\ call' = [call EXCEPT ![c] = [@ EXCEPT !.step = "listed",
       !.listed = [g \in Grants |-> IF g \in revoked THEN "REVOKED" ELSE "ISSUED"]]]
  /\ UNCHANGED <<pageVars, revoked, rejected, faults>>

(* An answer with an error status has no grants in it: no rows.            *)
ListErrs(c) ==
  /\ At(c, "listing")
  /\ Fails
  /\ call' = [call EXCEPT ![c] = [@ EXCEPT !.step = "listed", !.listed = NoRows]]
  /\ UNCHANGED <<pageVars, revoked, rejected>>

(* The rows are replaced, whenever they were read.                         *)
ListAnswered(c) ==
  /\ At(c, "listed")
  /\ records' = call[c].listed
  /\ busy' = IF call[c].kind = "revoke" THEN None ELSE busy
  /\ call' = [call EXCEPT ![c].step = "done"]
  /\ UNCHANGED <<downloads, revoked, rejected, faults>>

(* The connection to the web application is lost: fetch rejects, and       *)
(* nothing after it in the handler runs.                                   *)
FetchRejects(c) ==
  /\ call[c].step \in {"asking", "asked", "listing", "listed"}
  /\ Fails
  /\ rejected' = TRUE
  /\ call' = [call EXCEPT ![c] = [@ EXCEPT !.step = "done", !.answer = "error"]]
  /\ UNCHANGED <<pageVars, revoked>>

HandlerGoesOn(c) ==
  \/ BackendActs(c)
  \/ RevokeAnswered(c)
  \/ DownloadAnswered(c)
  \/ List(c)
  \/ ListAnswered(c)

WebGrantsNext ==
  \E c \in Calls :
    \/ \E g \in Grants : Revoke(c, g) \/ Download(c, g)
    \/ HandlerGoesOn(c)
    \/ BackendErrs(c)
    \/ ListErrs(c)
    \/ FetchRejects(c)

WebGrantsSpec == WebGrantsInit /\ [][WebGrantsNext]_grantsVars

-----------------------------------------------------------------------------
(* Watch downloads start failing: a download begun when the row already    *)
(* said REVOKED is not served, and no row says so of a live grant.         *)
FlippedMeansRefused ==
  /\ \A g \in Grants : records[g] = "REVOKED" => g \in revoked
  /\ \A c \in Calls : call[c].flipped => call[c].answer # "served"

(* The page never stays busy: a disabled button waits for a handler that   *)
(* will enable it.  Only a fetch that was rejected takes the slot along.   *)
PageIsReleased ==
  busy # None /\ ~rejected =>
    \E c \in Calls :
      call[c].kind \in {"revoke", "download"} /\ call[c].step \notin {"idle", "done"}
=============================================================================
