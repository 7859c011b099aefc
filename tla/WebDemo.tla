------------------------------- MODULE WebDemo -------------------------------
(***************************************************************************)
(* The guided demo (apps/web, demo-flow.tsx): search, confirm, download,   *)
(* revoke, download again.  Each step has a button that is shown until the *)
(* step is done, and a request; a step is taken by what the backend does   *)
(* with the request and, later, by what the page does with the answer.     *)
(***************************************************************************)
EXTENDS Naturals

CONSTANTS
  MaxRuns,     \* bound: requests of the page
  MaxFaults    \* bound: searches no BPP answers, requests and answers lost

(* Requests are numbered in the order the page starts them.                *)
Runs == 1..MaxRuns

VARIABLES
  flow,        \* the fields of FlowState that are set, and the downloads' outcomes
  request,     \* request -> the step it is for and how far it is
  backend,     \* what the Access Manager has recorded: grants minted, revoked
  faults

demoVars == <<flow, request, backend, faults>>

Steps == {"search", "confirm", "firstDownload", "revoke", "secondDownload"}
Outcomes == {"served", "refused", "error"}

(* offers counts the datasets found; the button of the confirm is that of  *)
(* the first.                                                              *)
FlowState ==
  [offers : {"unset", "none", "some"}, grant : 0..MaxRuns,
   firstDownload : Outcomes \cup {"unset"}, revoked : BOOLEAN,
   secondDownload : Outcomes \cup {"unset"}, busy : Steps \cup {"idle"}]

(* grant: the grant the request concerns or got (0 for none).              *)
Request ==
  [step : Steps \cup {"unset"}, pc : {"idle", "asked", "answered", "failed", "done"},
   grant : 0..MaxRuns, answer : Outcomes \cup {"unset", "none", "some", "ok"}]

WebDemoTypeOK ==
  /\ flow \in FlowState
  /\ request \in [Runs -> Request]
  /\ backend \in [minted : 0..MaxRuns, revoked : SUBSET Runs]
  /\ faults \in 0..MaxFaults

WebDemoInit ==
  /\ flow = [offers |-> "unset", grant |-> 0, firstDownload |-> "unset",
             revoked |-> FALSE, secondDownload |-> "unset", busy |-> "idle"]
  /\ request = [r \in Runs |->
       [step |-> "unset", pc |-> "idle", grant |-> 0, answer |-> "unset"]]
  /\ backend = [minted |-> 0, revoked |-> {}]
  /\ faults = 0

(* Which buttons the page shows.                                           *)
Shown(step) ==
  CASE step = "search"         -> flow.offers = "unset"
    [] step = "confirm"        -> flow.offers = "some" /\ flow.grant = 0
    [] step = "firstDownload"  -> flow.grant # 0 /\ flow.firstDownload = "unset"
    [] step = "revoke"         -> flow.firstDownload = "served" /\ ~flow.revoked
    [] step = "secondDownload" -> flow.revoked /\ flow.secondDownload = "unset"

(* Both downloads show the same label.                                     *)
Label(step) == IF step = "secondDownload" THEN "firstDownload" ELSE step

Press(r, step) ==
  /\ Shown(step)
  /\ flow.busy # Label(step)
  /\ \A q \in Runs : request[q].pc = "idle" <=> q >= r
  /\ flow' = [flow EXCEPT !.busy = Label(step)]
  /\ request' = [request EXCEPT ![r] =
       [step |-> step, pc |-> "asked", grant |-> flow.grant, answer |-> "unset"]]
  /\ UNCHANGED <<backend, faults>>

Fails == faults < MaxFaults /\ faults' = faults + 1

Answer(r, grant, answer) ==
  request' = [request EXCEPT ![r] =
    [@ EXCEPT !.pc = "answered", !.grant = grant, !.answer = answer]]

(* The BPPs answer the search, or none does in time.                       *)
SearchServed(r) ==
  /\ request[r].pc = "asked" /\ request[r].step = "search"
  /\ \/ Answer(r, 0, "some") /\ UNCHANGED faults
     \/ Answer(r, 0, "none") /\ Fails
  /\ UNCHANGED <<flow, backend>>

ConfirmServed(r) ==
  /\ request[r].pc = "asked" /\ request[r].step = "confirm"
  /\ backend' = [backend EXCEPT !.minted = @ + 1]
  /\ Answer(r, backend.minted + 1, "ok")
  /\ UNCHANGED <<flow, faults>>

(* The BPP serves or refuses, or it fails: all of them inside a 200.       *)
DownloadServed(r) ==
  /\ request[r].pc = "asked" /\ request[r].step \in {"firstDownload", "secondDownload"}
  /\ \/ /\ Answer(r, request[r].grant,
             IF request[r].grant \in backend.revoked THEN "refused" ELSE "served")
        /\ UNCHANGED faults
     \/ Answer(r, request[r].grant, "error") /\ Fails
  /\ UNCHANGED <<flow, backend>>

(* The Access Manager revokes; what is revoked already gets a 409, which   *)
(* the page takes for a failure.                                           *)
RevokeServed(r) ==
  /\ request[r].pc = "asked" /\ request[r].step = "revoke"
  /\ backend' = [backend EXCEPT !.revoked = @ \cup {request[r].grant}]
  /\ IF request[r].grant \in backend.revoked
       THEN request' = [request EXCEPT ![r].pc = "failed"]
       ELSE Answer(r, request[r].grant, "ok")
  /\ UNCHANGED <<flow, faults>>

(* The request, or the answer to it, is lost.                              *)
Lost(r) ==
  /\ request[r].pc \in {"asked", "answered"}
  /\ Fails
  /\ request' = [request EXCEPT ![r].pc = "failed"]
  /\ UNCHANGED <<flow, backend>>

(* Defect: the revocation is taken for granted when the request fails.     *)
PatchFailureDefect(r) ==
  /\ request[r].pc = "failed"
  /\ flow' = [flow EXCEPT !.busy = "idle", !.revoked = @ \/ request[r].step = "revoke"]
  /\ request' = [request EXCEPT ![r].pc = "done"]
  /\ UNCHANGED <<backend, faults>>

(* Defect: the label stays.                                                *)
PatchFailureStuck(r) ==
  /\ request[r].pc = "failed"
  /\ request' = [request EXCEPT ![r].pc = "done"]
  /\ UNCHANGED <<flow, backend, faults>>

(* run: a failure shows its error and leaves the step to be tried again.   *)
PatchFailure(r) ==
  /\ request[r].pc = "failed"
  /\ flow' = [flow EXCEPT !.busy = "idle"]
  /\ request' = [request EXCEPT ![r].pc = "done"]
  /\ UNCHANGED <<backend, faults>>

(* run: the patch of the step is merged into the state of the page.        *)
Patch(r) ==
  LET answer == request[r].answer
      idle == [flow EXCEPT !.busy = "idle"]
  IN
  /\ request[r].pc = "answered"
  /\ flow' = CASE request[r].step = "search" -> [idle EXCEPT !.offers = answer]
               [] request[r].step = "confirm" -> [idle EXCEPT !.grant = request[r].grant]
               [] request[r].step = "firstDownload" -> [idle EXCEPT !.firstDownload = answer]
               [] request[r].step = "revoke" -> [idle EXCEPT !.revoked = TRUE]
               [] request[r].step = "secondDownload" -> [idle EXCEPT !.secondDownload = answer]
  /\ request' = [request EXCEPT ![r].pc = "done"]
  /\ UNCHANGED <<backend, faults>>

Served(r) == SearchServed(r) \/ ConfirmServed(r) \/ DownloadServed(r) \/ RevokeServed(r)
Patched(r) == Patch(r) \/ PatchFailure(r)

WebDemoNext ==
  \E r \in Runs :
    \/ \E step \in Steps : Press(r, step)
    \/ Served(r)
    \/ Lost(r)
    \/ Patched(r)

WebDemoSpec == WebDemoInit /\ [][WebDemoNext]_demoVars

-----------------------------------------------------------------------------
(* Every grant the page shows was minted for it, and the withdrawal it     *)
(* shows is one the Access Manager has made, of the very grant shown: "the *)
(* same download - refused" is never served.                               *)
ShownIsRecorded ==
  /\ flow.grant <= backend.minted
  /\ flow.revoked => flow.grant \in backend.revoked
  /\ flow.secondDownload # "served"

(* A busy button waits for a request on its way.  While nothing has failed *)
(* the page never leaves the user without a step: until the refusal is     *)
(* shown a request is on its way or a button can be pressed.               *)
DemoGoesOn ==
  LET onItsWay == \E r \in Runs : request[r].pc \in {"asked", "answered", "failed"} IN
  /\ flow.busy # "idle" => onItsWay
  /\ faults = 0 =>
       \/ onItsWay
       \/ flow.secondDownload = "refused"
       \/ \E step \in Steps : Shown(step) /\ flow.busy # Label(step)
=============================================================================
