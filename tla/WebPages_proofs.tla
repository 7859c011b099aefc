--------------------------- MODULE WebPages_proofs ---------------------------
(***************************************************************************)
(* Theorems about the pages of the web application, for any handlers,      *)
(* offers, transactions, grants and failures: what they show is what the   *)
(* services have recorded, and no page is stuck.                           *)
(***************************************************************************)
EXTENDS WebPages, SequenceTheorems, TLAPS

-----------------------------------------------------------------------------
(* The guided demo.                                                        *)

OnItsWay(r) == request[r].pc \in {"asked", "answered", "failed"}

(* The fields of the page are set one after the other.                     *)
FieldsInOrder ==
  /\ flow.offers # "some" => flow.grant = 0
  /\ flow.grant = 0 => flow.firstDownload = "unset"
  /\ flow.firstDownload # "served" => ~flow.revoked /\ backend.revoked = {}
  /\ ~flow.revoked => flow.secondDownload = "unset"

(* The requests are numbered as they start, the last one only may be on    *)
(* its way, and each gets one grant at most.                               *)
OneAtATime(k) ==
  /\ \A r \in Demo!Runs : request[r].pc = "idle" <=> r > k
  /\ \A r \in Demo!Runs : OnItsWay(r) => r = k
  /\ backend.minted <= k
  /\ k > 0 /\ request[k].pc = "asked" => backend.minted < k

(* The button of the step that is on its way is shown, and disabled.       *)
StepOnItsWay(r) ==
  /\ request[r].step \in Demo!Steps
  /\ Demo!Shown(request[r].step)
  /\ flow.busy = Demo!Label(request[r].step)
  /\ request[r].step # "confirm" => request[r].grant = flow.grant

(* What an answer says is so.                                              *)
AnswerIsTrue(r) ==
  /\ request[r].step = "search" =>
       /\ request[r].answer \in {"none", "some"}
       /\ request[r].answer = "none" => losses > 0
  /\ request[r].step = "confirm" => request[r].grant # 0 /\ request[r].grant <= backend.minted
  /\ request[r].step = "firstDownload" =>
       /\ request[r].answer \in {"served", "error"}
       /\ request[r].answer = "error" => losses > 0
  /\ request[r].step = "revoke" => request[r].grant \in backend.revoked
  /\ request[r].step = "secondDownload" =>
       /\ request[r].answer \in {"refused", "error"}
       /\ request[r].answer = "error" => losses > 0

DemoInv ==
  /\ Demo!WebDemoTypeOK
  /\ Demo!ShownIsRecorded
  /\ FieldsInOrder
  /\ \E k \in 0 .. MaxRuns : OneAtATime(k)
  /\ flow.busy # "idle" => \E r \in Demo!Runs : OnItsWay(r)
  /\ \A r \in Demo!Runs : OnItsWay(r) => StepOnItsWay(r)
  /\ \A r \in Demo!Runs : request[r].pc = "answered" => AnswerIsTrue(r)
  /\ losses = 0 =>
       /\ flow.offers # "none" /\ flow.firstDownload \in {"unset", "served"}
       /\ flow.secondDownload \in {"unset", "refused"}


(* At most one step has its button.                                        *)
LEMMA OneIsShown ==
  ASSUME DemoInv, NEW a \in Demo!Steps, NEW b \in Demo!Steps, Demo!Shown(a), Demo!Shown(b)
  PROVE  a = b
  BY DEF DemoInv, FieldsInOrder, Demo!Shown, Demo!Steps

(* A record of the page, field by field.                                   *)
LEMMA FlowUpdated ==
  ASSUME NEW f \in Demo!FlowState
  PROVE  /\ \A busyNow \in Demo!Steps \cup {"idle"} :
              [f EXCEPT !.busy = busyNow] =
                [offers |-> f.offers, grant |-> f.grant, firstDownload |-> f.firstDownload,
                 revoked |-> f.revoked, secondDownload |-> f.secondDownload, busy |-> busyNow]
         /\ f = [offers |-> f.offers, grant |-> f.grant, firstDownload |-> f.firstDownload,
                 revoked |-> f.revoked, secondDownload |-> f.secondDownload, busy |-> f.busy]
  BY DEF Demo!FlowState

(* One request changes.                                                    *)
LEMMA RequestUpdated ==
  ASSUME Demo!WebDemoTypeOK, NEW r \in Demo!Runs, NEW new \in Demo!Request,
         request' = [request EXCEPT ![r] = new]
  PROVE  /\ request' \in [Demo!Runs -> Demo!Request] /\ request'[r] = new
         /\ \A q \in Demo!Runs \ {r} : request'[q] = request[q]
  BY DEF Demo!WebDemoTypeOK

(* Only its step does.                                                     *)
LEMMA RequestMoved ==
  ASSUME Demo!WebDemoTypeOK, NEW r \in Demo!Runs, NEW newPc \in {"failed", "done"},
         request' = [request EXCEPT ![r].pc = newPc]
  PROVE  /\ request' \in [Demo!Runs -> Demo!Request]
         /\ request'[r].step = request[r].step /\ request'[r].pc = newPc
         /\ request'[r].grant = request[r].grant /\ request'[r].answer = request[r].answer
         /\ \A q \in Demo!Runs \ {r} : request'[q] = request[q]
<1>. DEFINE new == [request[r] EXCEPT !.pc = newPc]
<1>1. request' = [request EXCEPT ![r] = new]
  OBVIOUS
<1>2. request[r] \in Demo!Request
  BY DEF Demo!WebDemoTypeOK
<1>3. /\ new \in Demo!Request /\ new.pc = newPc /\ new.step = request[r].step
      /\ new.grant = request[r].grant /\ new.answer = request[r].answer
  BY <1>2 DEF Demo!Request
<1>. HIDE DEF new
<1>4. /\ request' \in [Demo!Runs -> Demo!Request] /\ request'[r] = new
      /\ \A q \in Demo!Runs \ {r} : request'[q] = request[q]
  BY <1>1, <1>3, RequestUpdated
<1>. QED  BY <1>3, <1>4

(* An answer is put into a request.                                        *)
LEMMA RequestAnswered ==
  ASSUME Demo!WebDemoTypeOK, NEW r \in Demo!Runs, NEW grant \in 0 .. MaxRuns,
         NEW answer \in Demo!Outcomes \cup {"unset", "none", "some", "ok"},
         Demo!Answer(r, grant, answer)
  PROVE  /\ request' \in [Demo!Runs -> Demo!Request]
         /\ request'[r].step = request[r].step /\ request'[r].pc = "answered"
         /\ request'[r].grant = grant /\ request'[r].answer = answer
         /\ \A q \in Demo!Runs \ {r} : request'[q] = request[q]
<1>. DEFINE new == [request[r] EXCEPT !.pc = "answered", !.grant = grant, !.answer = answer]
<1>1. request' = [request EXCEPT ![r] = new]
  BY DEF Demo!Answer
<1>2. request[r] \in Demo!Request
  BY DEF Demo!WebDemoTypeOK
<1>3. /\ new \in Demo!Request /\ new.pc = "answered" /\ new.step = request[r].step
      /\ new.grant = grant /\ new.answer = answer
  BY <1>2 DEF Demo!Request
<1>. HIDE DEF new
<1>4. /\ request' \in [Demo!Runs -> Demo!Request] /\ request'[r] = new
      /\ \A q \in Demo!Runs \ {r} : request'[q] = request[q]
  BY <1>1, <1>3, RequestUpdated
<1>. QED  BY <1>3, <1>4

(* A pressed button: no request was on its way, since its button would be  *)
(* the one shown, and disabled.                                            *)
LEMMA PressKeeps ==
  ASSUME DemoInv, NEW r \in Demo!Runs, NEW step \in Demo!Steps, Demo!Press(r, step)
  PROVE  DemoInv'
<1>. USE PagesAssumption
<1>1. PICK k \in 0 .. MaxRuns : OneAtATime(k)
  BY DEF DemoInv
<1>2. k = r - 1
  <2>1. request[r].pc = "idle" /\ r > k
    BY <1>1 DEF Demo!Press, OneAtATime, Demo!Runs
  <2>2. k + 1 \in Demo!Runs
    BY <2>1 DEF Demo!Runs
  <2>3. k + 1 > k
    OBVIOUS
  <2>4. request[k + 1].pc = "idle"
    BY <1>1, <2>2, <2>3 DEF OneAtATime
  <2>5. k + 1 >= r
    BY <2>2, <2>4 DEF Demo!Press
  <2>. QED  BY <2>1, <2>5 DEF Demo!Runs
<1>3. \A q \in Demo!Runs : ~OnItsWay(q)
  <2>. SUFFICES ASSUME NEW q \in Demo!Runs, OnItsWay(q) PROVE FALSE
    OBVIOUS
  <2>1. StepOnItsWay(q)
    BY DEF DemoInv
  <2>2. request[q].step = step
    BY <2>1, OneIsShown DEF StepOnItsWay, Demo!Press
  <2>. QED  BY <2>1, <2>2 DEF StepOnItsWay, Demo!Press
<1>4. /\ request' \in [Demo!Runs -> Demo!Request]
      /\ request'[r].step = step /\ request'[r].pc = "asked" /\ request'[r].grant = flow.grant
      /\ \A q \in Demo!Runs \ {r} : request'[q] = request[q]
  <2>. DEFINE new == [step |-> step, pc |-> "asked", grant |-> flow.grant, answer |-> "unset"]
  <2>1. new \in Demo!Request
    BY DEF DemoInv, Demo!WebDemoTypeOK, Demo!FlowState, Demo!Request
  <2>2. request' = [request EXCEPT ![r] = new]
    BY DEF Demo!Press
  <2>3. new.step = step /\ new.pc = "asked" /\ new.grant = flow.grant
    OBVIOUS
  <2>. HIDE DEF new
  <2>4. request' \in [Demo!Runs -> Demo!Request] /\ request'[r] = new
        /\ \A q \in Demo!Runs \ {r} : request'[q] = request[q]
    BY <2>1, <2>2, RequestUpdated DEF DemoInv
  <2>. QED  BY <2>3, <2>4
<1>5. /\ flow' \in Demo!FlowState /\ flow'.busy = Demo!Label(step)
      /\ flow'.offers = flow.offers /\ flow'.grant = flow.grant
      /\ flow'.firstDownload = flow.firstDownload /\ flow'.revoked = flow.revoked
      /\ flow'.secondDownload = flow.secondDownload
  <2>1. Demo!Label(step) \in Demo!Steps \cup {"idle"}
    BY DEF Demo!Label, Demo!Steps
  <2>. QED  BY <2>1, FlowUpdated DEF Demo!Press, DemoInv, Demo!WebDemoTypeOK, Demo!FlowState
<1>6. UNCHANGED <<backend, losses>>
  BY DEF Demo!Press
<1>7. Demo!WebDemoTypeOK' /\ Demo!ShownIsRecorded' /\ FieldsInOrder'
  BY <1>4, <1>5, <1>6 DEF DemoInv, Demo!WebDemoTypeOK, Demo!ShownIsRecorded, FieldsInOrder
<1>8. OneAtATime(r)'
  <2>1. \A q \in Demo!Runs : request'[q].pc = "idle" <=> q > r
    BY <1>1, <1>2, <1>4 DEF OneAtATime, Demo!Runs
  <2>2. \A q \in Demo!Runs : OnItsWay(q)' => q = r
    BY <1>3, <1>4 DEF OnItsWay
  <2>3. backend'.minted < r /\ backend'.minted <= r
    BY <1>1, <1>2, <1>6 DEF OneAtATime, DemoInv, Demo!WebDemoTypeOK, Demo!Runs
  <2>. QED  BY <2>1, <2>2, <2>3 DEF OneAtATime
<1>9. \A q \in Demo!Runs : (OnItsWay(q) => StepOnItsWay(q))'
  <2>1. Demo!Shown(step)'
    BY <1>5 DEF Demo!Press, Demo!Shown, Demo!Steps
  <2>. QED  BY <1>3, <1>4, <1>5, <2>1 DEF OnItsWay, StepOnItsWay
<1>10. \A q \in Demo!Runs : (request[q].pc = "answered" => AnswerIsTrue(q))'
  BY <1>3, <1>4 DEF OnItsWay
<1>11. r \in 0 .. MaxRuns /\ OnItsWay(r)'
  BY <1>4 DEF Demo!Runs, OnItsWay
<1>. QED  BY <1>5, <1>6, <1>7, <1>8, <1>9, <1>10, <1>11 DEF DemoInv

(* What the backend does with a request, as the page sees it: the request  *)
(* stays on its way, is answered truly or has failed, and nothing recorded *)
(* is undone.                                                              *)
RequestGoesOn(r) ==
  /\ request' \in [Demo!Runs -> Demo!Request]
  /\ \A q \in Demo!Runs \ {r} : request'[q] = request[q]
  /\ request'[r].pc \in {"answered", "failed"} /\ request'[r].step = request[r].step
  /\ request'[r].pc = "answered" => AnswerIsTrue(r)'
  /\ request'[r].step # "confirm" => request'[r].grant = flow.grant
  /\ flow' = flow
  /\ losses' \in losses .. MaxLosses
  /\ backend' \in [minted : 0 .. MaxRuns, revoked : SUBSET Demo!Runs]
  /\ backend.revoked \subseteq backend'.revoked
  /\ backend'.revoked # backend.revoked => flow.firstDownload = "served"
  /\ backend.minted <= backend'.minted
  /\ backend'.minted # backend.minted =>
       request[r].pc = "asked" /\ backend'.minted = backend.minted + 1

LEMMA GoingOnKeeps ==
  ASSUME DemoInv, NEW r \in Demo!Runs, OnItsWay(r), RequestGoesOn(r)
  PROVE  DemoInv'
<1>. USE PagesAssumption
<1>1. PICK k \in 0 .. MaxRuns : OneAtATime(k)
  BY DEF DemoInv
<1>2. r = k /\ \A q \in Demo!Runs \ {r} : ~OnItsWay(q)
  BY <1>1 DEF OneAtATime
<1>3. /\ losses \in 0 .. MaxLosses /\ losses' \in 0 .. MaxLosses /\ (losses' = 0 => losses = 0)
      /\ backend.minted \in 0 .. MaxRuns /\ backend'.minted \in 0 .. MaxRuns
      /\ backend.revoked \subseteq Demo!Runs /\ flow \in Demo!FlowState
  BY DEF DemoInv, Demo!WebDemoTypeOK, RequestGoesOn
<1>4. Demo!WebDemoTypeOK'
  BY <1>3 DEF RequestGoesOn, Demo!WebDemoTypeOK
<1>5. Demo!ShownIsRecorded'
  <2>1. flow.grant <= backend'.minted
    BY <1>3 DEF DemoInv, Demo!ShownIsRecorded, RequestGoesOn, Demo!FlowState
  <2>2. flow.revoked => flow.grant \in backend'.revoked
    BY DEF DemoInv, Demo!ShownIsRecorded, RequestGoesOn
  <2>. QED  BY <2>1, <2>2 DEF DemoInv, Demo!ShownIsRecorded, RequestGoesOn
<1>6. FieldsInOrder'
  BY DEF DemoInv, FieldsInOrder, RequestGoesOn
<1>7. OneAtATime(k)'
  <2>1. \A q \in Demo!Runs : request'[q].pc = "idle" <=> q > k
    BY <1>1, <1>2 DEF OneAtATime, RequestGoesOn, OnItsWay
  <2>2. \A q \in Demo!Runs : OnItsWay(q)' => q = k
    BY <1>2 DEF OnItsWay, RequestGoesOn
  <2>3. k \in Demo!Runs /\ request'[k].pc # "asked"
    BY <1>2 DEF RequestGoesOn
  <2>4. backend'.minted <= k
    BY <1>1, <1>2, <1>3 DEF OneAtATime, RequestGoesOn, Demo!Runs
  <2>. QED  BY <2>1, <2>2, <2>3, <2>4 DEF OneAtATime
<1>8. OnItsWay(r)'
  BY DEF OnItsWay, RequestGoesOn
<1>9. \A q \in Demo!Runs : (OnItsWay(q) => StepOnItsWay(q))'
  <2>1. StepOnItsWay(r)'
    BY DEF DemoInv, StepOnItsWay, RequestGoesOn, Demo!Shown, Demo!Steps
  <2>. QED  BY <1>2, <2>1 DEF OnItsWay, RequestGoesOn
<1>10. \A q \in Demo!Runs : (request[q].pc = "answered" => AnswerIsTrue(q))'
  BY <1>2 DEF OnItsWay, RequestGoesOn
<1>. QED
  BY <1>3, <1>4, <1>5, <1>6, <1>7, <1>8, <1>9, <1>10 DEF DemoInv, RequestGoesOn

(* The types of a request on its way.                                      *)
LEMMA OnItsWayTypes ==
  ASSUME DemoInv, NEW r \in Demo!Runs, OnItsWay(r)
  PROVE  /\ Demo!WebDemoTypeOK /\ StepOnItsWay(r)
         /\ request[r] \in Demo!Request /\ request[r].grant \in 0 .. MaxRuns
         /\ flow \in Demo!FlowState /\ losses \in 0 .. MaxLosses
         /\ backend.minted \in 0 .. MaxRuns /\ backend.revoked \subseteq Demo!Runs
         /\ backend \in [minted : 0 .. MaxRuns, revoked : SUBSET Demo!Runs]
  BY DEF DemoInv, Demo!WebDemoTypeOK, Demo!Request

(* A search is answered with offers or, when the BPPs fail, without.       *)
LEMMA SearchServedKeeps ==
  ASSUME DemoInv, NEW r \in Demo!Runs, Demo!SearchServed(r)
  PROVE  DemoInv'
<1>. USE PagesAssumption
<1>1. OnItsWay(r) /\ request[r].step = "search"
  BY DEF OnItsWay, Demo!SearchServed
<1>2. PICK answer \in {"some", "none"} :
        /\ Demo!Answer(r, 0, answer) /\ UNCHANGED <<flow, backend>>
        /\ losses' \in losses .. MaxLosses /\ (answer = "none" => losses' > 0)
  BY <1>1, OnItsWayTypes DEF Demo!SearchServed, Demo!Fails
<1>3. /\ request' \in [Demo!Runs -> Demo!Request]
      /\ request'[r].step = request[r].step /\ request'[r].pc = "answered"
      /\ request'[r].grant = 0 /\ request'[r].answer = answer
      /\ \A q \in Demo!Runs \ {r} : request'[q] = request[q]
  <2>1. PICK grant \in 0 .. MaxRuns : grant = 0
    OBVIOUS
  <2>2. answer \in Demo!Outcomes \cup {"unset", "none", "some", "ok"}
    OBVIOUS
  <2>. QED  BY <1>1, <1>2, <2>1, <2>2, OnItsWayTypes, RequestAnswered
<1>4. flow.grant = 0
  BY <1>1, OnItsWayTypes DEF StepOnItsWay, Demo!Shown, DemoInv, FieldsInOrder
<1>5. AnswerIsTrue(r)'
  BY <1>1, <1>2, <1>3 DEF AnswerIsTrue
<1>6. RequestGoesOn(r)
  BY <1>1, <1>2, <1>3, <1>4, <1>5, OnItsWayTypes DEF RequestGoesOn
<1>. QED  BY <1>1, <1>6, GoingOnKeeps

(* A confirm mints the grant it returns.                                   *)
LEMMA ConfirmServedKeeps ==
  ASSUME DemoInv, NEW r \in Demo!Runs, Demo!ConfirmServed(r)
  PROVE  DemoInv'
<1>. USE PagesAssumption
<1>1. OnItsWay(r) /\ request[r].step = "confirm" /\ request[r].pc = "asked"
  BY DEF OnItsWay, Demo!ConfirmServed
<1>. DEFINE grant == backend.minted + 1
<1>2. grant \in 0 .. MaxRuns /\ grant # 0
  <2>1. PICK k \in 0 .. MaxRuns : OneAtATime(k)
    BY DEF DemoInv
  <2>2. r = k /\ backend.minted < r
    BY <1>1, <2>1 DEF OneAtATime, Demo!Runs
  <2>. QED  BY <1>1, <2>2, OnItsWayTypes DEF Demo!Runs
<1>3. /\ request' \in [Demo!Runs -> Demo!Request]
      /\ request'[r].step = request[r].step /\ request'[r].pc = "answered"
      /\ request'[r].grant = grant
      /\ \A q \in Demo!Runs \ {r} : request'[q] = request[q]
  <2>1. PICK answer \in Demo!Outcomes \cup {"unset", "none", "some", "ok"} : answer = "ok"
    OBVIOUS
  <2>2. PICK new \in 0 .. MaxRuns : new = grant
    BY <1>2
  <2>. HIDE DEF grant
  <2>3. Demo!Answer(r, new, answer)
    BY <2>1, <2>2 DEF Demo!ConfirmServed, grant
  <2>. QED  BY <1>1, <2>2, <2>3, OnItsWayTypes, RequestAnswered
<1>4. /\ UNCHANGED <<flow, losses>>
      /\ backend' \in [minted : 0 .. MaxRuns, revoked : SUBSET Demo!Runs]
      /\ backend'.minted = grant /\ backend'.revoked = backend.revoked
  BY <1>1, <1>2, OnItsWayTypes DEF Demo!ConfirmServed
<1>5. AnswerIsTrue(r)'
  BY <1>1, <1>2, <1>3, <1>4 DEF AnswerIsTrue
<1>6. RequestGoesOn(r)
  BY <1>1, <1>3, <1>4, <1>5, OnItsWayTypes DEF RequestGoesOn
<1>. QED  BY <1>1, <1>6, GoingOnKeeps

(* A download is decided by what is revoked: nothing yet at the first, the *)
(* grant shown at the second.                                              *)
LEMMA DownloadServedKeeps ==
  ASSUME DemoInv, NEW r \in Demo!Runs, Demo!DownloadServed(r)
  PROVE  DemoInv'
<1>. USE PagesAssumption
<1>1. OnItsWay(r) /\ request[r].step \in {"firstDownload", "secondDownload"}
  BY DEF OnItsWay, Demo!DownloadServed
<1>2. request[r].grant = flow.grant
  BY <1>1, OnItsWayTypes DEF StepOnItsWay
<1>3. PICK answer \in Demo!Outcomes :
        /\ Demo!Answer(r, request[r].grant, answer) /\ UNCHANGED <<flow, backend>>
        /\ losses' \in losses .. MaxLosses
        /\ \/ answer = "error" /\ losses' > 0
           \/ answer = IF request[r].grant \in backend.revoked THEN "refused" ELSE "served"
  BY <1>1, OnItsWayTypes DEF Demo!DownloadServed, Demo!Fails, Demo!Outcomes
<1>4. /\ request' \in [Demo!Runs -> Demo!Request]
      /\ request'[r].step = request[r].step /\ request'[r].pc = "answered"
      /\ request'[r].grant = flow.grant /\ request'[r].answer = answer
      /\ \A q \in Demo!Runs \ {r} : request'[q] = request[q]
  <2>1. answer \in Demo!Outcomes \cup {"unset", "none", "some", "ok"}
    OBVIOUS
  <2>. QED  BY <1>1, <1>2, <1>3, <2>1, OnItsWayTypes, RequestAnswered
<1>5. request[r].step = "firstDownload" => backend.revoked = {}
  BY <1>1, OnItsWayTypes DEF StepOnItsWay, Demo!Shown, DemoInv, FieldsInOrder
<1>6. request[r].step = "secondDownload" => flow.grant \in backend.revoked
  BY <1>1, OnItsWayTypes DEF StepOnItsWay, Demo!Shown, DemoInv, Demo!ShownIsRecorded
<1>7. AnswerIsTrue(r)'
  BY <1>1, <1>2, <1>3, <1>4, <1>5, <1>6 DEF AnswerIsTrue
<1>8. RequestGoesOn(r)
  BY <1>1, <1>3, <1>4, <1>7, OnItsWayTypes DEF RequestGoesOn
<1>. QED  BY <1>1, <1>8, GoingOnKeeps

(* A revocation is recorded, or was before.                                *)
LEMMA RevokeServedKeeps ==
  ASSUME DemoInv, NEW r \in Demo!Runs, Demo!RevokeServed(r)
  PROVE  DemoInv'
<1>. USE PagesAssumption
<1>1. OnItsWay(r) /\ request[r].step = "revoke" /\ UNCHANGED <<flow, losses>>
  BY DEF OnItsWay, Demo!RevokeServed
<1>2. request[r].grant = flow.grant /\ flow.firstDownload = "served"
  BY <1>1, OnItsWayTypes DEF StepOnItsWay, Demo!Shown
<1>3. request[r].grant \in Demo!Runs
  BY <1>1, <1>2, OnItsWayTypes DEF DemoInv, FieldsInOrder, Demo!Runs
<1>4. /\ backend' \in [minted : 0 .. MaxRuns, revoked : SUBSET Demo!Runs]
      /\ backend'.minted = backend.minted
      /\ backend'.revoked = backend.revoked \cup {request[r].grant}
  BY <1>1, <1>3, OnItsWayTypes DEF Demo!RevokeServed
<1>5. /\ request' \in [Demo!Runs -> Demo!Request]
      /\ request'[r].step = request[r].step /\ request'[r].pc \in {"answered", "failed"}
      /\ request'[r].grant = request[r].grant
      /\ \A q \in Demo!Runs \ {r} : request'[q] = request[q]
  <2>1. CASE request[r].grant \in backend.revoked
    <3>1. PICK newPc \in {"failed", "done"} : newPc = "failed"
      OBVIOUS
    <3>2. request' = [request EXCEPT ![r].pc = newPc]
      BY <2>1, <3>1 DEF Demo!RevokeServed
    <3>. QED  BY <1>1, <3>1, <3>2, OnItsWayTypes, RequestMoved
  <2>2. CASE request[r].grant \notin backend.revoked
    <3>1. PICK answer \in Demo!Outcomes \cup {"unset", "none", "some", "ok"} : answer = "ok"
      OBVIOUS
    <3>2. Demo!Answer(r, request[r].grant, answer)
      BY <2>2, <3>1 DEF Demo!RevokeServed
    <3>. QED  BY <1>1, <3>2, OnItsWayTypes, RequestAnswered
  <2>. QED  BY <2>1, <2>2
<1>6. AnswerIsTrue(r)'
  BY <1>1, <1>4, <1>5 DEF AnswerIsTrue
<1>7. RequestGoesOn(r)
  BY <1>1, <1>2, <1>4, <1>5, <1>6, OnItsWayTypes DEF RequestGoesOn
<1>. QED  BY <1>1, <1>7, GoingOnKeeps

(* A lost request or answer is a failure to the page.                      *)
LEMMA LostKeeps ==
  ASSUME DemoInv, NEW r \in Demo!Runs, Demo!Lost(r)
  PROVE  DemoInv'
<1>. USE PagesAssumption
<1>1. OnItsWay(r) /\ UNCHANGED <<flow, backend>>
  BY DEF OnItsWay, Demo!Lost
<1>2. /\ request' \in [Demo!Runs -> Demo!Request]
      /\ request'[r].step = request[r].step /\ request'[r].pc = "failed"
      /\ request'[r].grant = request[r].grant
      /\ \A q \in Demo!Runs \ {r} : request'[q] = request[q]
  <2>1. PICK newPc \in {"failed", "done"} : newPc = "failed"
    OBVIOUS
  <2>2. request' = [request EXCEPT ![r].pc = newPc]
    BY <2>1 DEF Demo!Lost
  <2>. QED  BY <1>1, <2>1, <2>2, OnItsWayTypes, RequestMoved
<1>3. losses' \in losses .. MaxLosses
  BY <1>1, OnItsWayTypes DEF Demo!Lost, Demo!Fails
<1>4. RequestGoesOn(r)
  BY <1>1, <1>2, <1>3, OnItsWayTypes DEF RequestGoesOn, StepOnItsWay
<1>. QED  BY <1>1, <1>4, GoingOnKeeps

(* The page takes an answer or a failure: nothing is on its way any more.  *)
LEMMA EndingKeeps ==
  ASSUME DemoInv, NEW r \in Demo!Runs, OnItsWay(r),
         request' = [request EXCEPT ![r].pc = "done"],
         flow' \in Demo!FlowState, flow'.busy = "idle", FieldsInOrder', Demo!ShownIsRecorded',
         losses = 0 =>
           /\ flow'.offers # "none" /\ flow'.firstDownload \in {"unset", "served"}
           /\ flow'.secondDownload \in {"unset", "refused"},
         UNCHANGED <<backend, losses>>
  PROVE  DemoInv'
<1>1. PICK k \in 0 .. MaxRuns : OneAtATime(k)
  BY DEF DemoInv
<1>2. r = k /\ \A q \in Demo!Runs \ {r} : ~OnItsWay(q)
  BY <1>1 DEF OneAtATime
<1>3. /\ request' \in [Demo!Runs -> Demo!Request] /\ request'[r].pc = "done"
      /\ \A q \in Demo!Runs \ {r} : request'[q] = request[q]
  <2>1. PICK newPc \in {"failed", "done"} : newPc = "done"
    OBVIOUS
  <2>2. request' = [request EXCEPT ![r].pc = newPc]
    BY <2>1
  <2>. QED  BY <2>1, <2>2, OnItsWayTypes, RequestMoved
<1>4. Demo!WebDemoTypeOK'
  BY <1>3 DEF DemoInv, Demo!WebDemoTypeOK
<1>5. OneAtATime(k)'
  <2>1. \A q \in Demo!Runs : request'[q].pc = "idle" <=> q > k
    BY <1>1, <1>2, <1>3 DEF OneAtATime, OnItsWay
  <2>2. \A q \in Demo!Runs : OnItsWay(q)' => q = k
    BY <1>2, <1>3 DEF OnItsWay
  <2>3. k \in Demo!Runs /\ request'[k].pc # "asked" /\ backend'.minted <= k
    BY <1>1, <1>2, <1>3 DEF OneAtATime
  <2>. QED  BY <2>1, <2>2, <2>3 DEF OneAtATime
<1>6. \A q \in Demo!Runs : ~OnItsWay(q)' /\ request'[q].pc # "answered"
  BY <1>2, <1>3 DEF OnItsWay
<1>. QED  BY <1>4, <1>5, <1>6 DEF DemoInv

(* An answer sets the field its step is about, and what it sets is so.     *)
LEMMA PatchKeeps ==
  ASSUME DemoInv, NEW r \in Demo!Runs, Demo!Patch(r)
  PROVE  DemoInv'
<1>. DEFINE answer == request[r].answer
            grant == request[r].grant
            idle == [flow EXCEPT !.busy = "idle"]
<1>1. OnItsWay(r) /\ AnswerIsTrue(r) /\ StepOnItsWay(r)
  BY DEF OnItsWay, Demo!Patch, DemoInv
<1>2. /\ UNCHANGED <<backend, losses>> /\ request' = [request EXCEPT ![r].pc = "done"]
      /\ request[r].step \in Demo!Steps
  BY <1>1 DEF Demo!Patch, StepOnItsWay
<1>3. /\ idle \in Demo!FlowState /\ idle.busy = "idle"
      /\ idle.offers = flow.offers /\ idle.grant = flow.grant
      /\ idle.firstDownload = flow.firstDownload /\ idle.revoked = flow.revoked
      /\ idle.secondDownload = flow.secondDownload
  BY <1>1, OnItsWayTypes DEF Demo!FlowState
<1>4. /\ request[r].step = "search" => flow' = [idle EXCEPT !.offers = answer]
      /\ request[r].step = "confirm" => flow' = [idle EXCEPT !.grant = grant]
      /\ request[r].step = "firstDownload" => flow' = [idle EXCEPT !.firstDownload = answer]
      /\ request[r].step = "revoke" => flow' = [idle EXCEPT !.revoked = TRUE]
      /\ request[r].step = "secondDownload" => flow' = [idle EXCEPT !.secondDownload = answer]
  BY DEF Demo!Patch
<1>. HIDE DEF idle
<1>5. /\ losses = 0 =>
           /\ flow.offers # "none" /\ flow.firstDownload \in {"unset", "served"}
           /\ flow.secondDownload \in {"unset", "refused"}
      /\ FieldsInOrder /\ Demo!ShownIsRecorded
  BY DEF DemoInv
<1>. DEFINE Good ==
       /\ flow' \in Demo!FlowState /\ flow'.busy = "idle" /\ FieldsInOrder' /\ Demo!ShownIsRecorded'
       /\ losses = 0 =>
            /\ flow'.offers # "none" /\ flow'.firstDownload \in {"unset", "served"}
            /\ flow'.secondDownload \in {"unset", "refused"}
<1>6. CASE request[r].step = "search"
  <2>1. flow.offers = "unset" /\ answer \in {"none", "some"} /\ (answer = "none" => losses > 0)
    BY <1>1, <1>6 DEF StepOnItsWay, Demo!Shown, AnswerIsTrue
  <2>2. /\ flow' \in Demo!FlowState /\ flow'.busy = "idle" /\ flow'.offers = answer
        /\ flow'.grant = flow.grant /\ flow'.firstDownload = flow.firstDownload
        /\ flow'.revoked = flow.revoked /\ flow'.secondDownload = flow.secondDownload
    <3>1. flow' = [idle EXCEPT !.offers = answer]
      BY <1>4, <1>6
    <3>. QED  BY <1>3, <3>1, <2>1
              DEF Demo!FlowState
  <2>3. Good
    BY <1>1, <1>2, <1>5, <2>1, <2>2, OnItsWayTypes DEF FieldsInOrder, Demo!ShownIsRecorded
  <2>. QED  BY <1>1, <1>2, <2>3, EndingKeeps
<1>7. CASE request[r].step = "confirm"
  <2>1. flow.offers = "some" /\ flow.grant = 0 /\ grant # 0 /\ grant <= backend.minted
    BY <1>1, <1>7 DEF StepOnItsWay, Demo!Shown, AnswerIsTrue
  <2>2. /\ flow' \in Demo!FlowState /\ flow'.busy = "idle" /\ flow'.offers = flow.offers
        /\ flow'.grant = grant /\ flow'.firstDownload = flow.firstDownload
        /\ flow'.revoked = flow.revoked /\ flow'.secondDownload = flow.secondDownload
    <3>1. flow' = [idle EXCEPT !.grant = grant]
      BY <1>4, <1>7
    <3>. QED  BY <1>3, <3>1, <1>1, OnItsWayTypes
              DEF Demo!FlowState
  <2>3. Good
    BY <1>2, <1>5, <2>1, <2>2 DEF FieldsInOrder, Demo!ShownIsRecorded
  <2>. QED  BY <1>1, <1>2, <2>3, EndingKeeps
<1>8. CASE request[r].step = "firstDownload"
  <2>1. /\ flow.grant # 0 /\ flow.firstDownload = "unset"
        /\ answer \in {"served", "error"} /\ (answer = "error" => losses > 0)
    BY <1>1, <1>8 DEF StepOnItsWay, Demo!Shown, AnswerIsTrue
  <2>2. /\ flow' \in Demo!FlowState /\ flow'.busy = "idle" /\ flow'.offers = flow.offers
        /\ flow'.grant = flow.grant /\ flow'.firstDownload = answer
        /\ flow'.revoked = flow.revoked /\ flow'.secondDownload = flow.secondDownload
    <3>1. flow' = [idle EXCEPT !.firstDownload = answer]
      BY <1>4, <1>8
    <3>. QED  BY <1>3, <3>1, <2>1
              DEF Demo!FlowState, Demo!Outcomes
  <2>3. Good
    BY <1>1, <1>2, <1>5, <2>1, <2>2, OnItsWayTypes DEF FieldsInOrder, Demo!ShownIsRecorded
  <2>. QED  BY <1>1, <1>2, <2>3, EndingKeeps
<1>9. CASE request[r].step = "revoke"
  <2>1. flow.firstDownload = "served" /\ grant = flow.grant /\ grant \in backend.revoked
    BY <1>1, <1>9 DEF StepOnItsWay, Demo!Shown, AnswerIsTrue
  <2>2. /\ flow' \in Demo!FlowState /\ flow'.busy = "idle" /\ flow'.offers = flow.offers
        /\ flow'.grant = flow.grant /\ flow'.firstDownload = flow.firstDownload
        /\ flow'.revoked = TRUE /\ flow'.secondDownload = flow.secondDownload
    <3>1. flow' = [idle EXCEPT !.revoked = TRUE]
      BY <1>4, <1>9
    <3>. QED  BY <1>3, <3>1, <1>1
              DEF Demo!FlowState
  <2>3. Good
    BY <1>2, <1>5, <2>1, <2>2 DEF FieldsInOrder, Demo!ShownIsRecorded
  <2>. QED  BY <1>1, <1>2, <2>3, EndingKeeps
<1>10. CASE request[r].step = "secondDownload"
  <2>1. flow.revoked /\ answer \in {"refused", "error"} /\ (answer = "error" => losses > 0)
    BY <1>1, <1>10 DEF StepOnItsWay, Demo!Shown, AnswerIsTrue
  <2>2. /\ flow' \in Demo!FlowState /\ flow'.busy = "idle" /\ flow'.offers = flow.offers
        /\ flow'.grant = flow.grant /\ flow'.firstDownload = flow.firstDownload
        /\ flow'.revoked = flow.revoked /\ flow'.secondDownload = answer
    <3>1. flow' = [idle EXCEPT !.secondDownload = answer]
      BY <1>4, <1>10
    <3>. QED  BY <1>3, <3>1, <2>1
              DEF Demo!FlowState, Demo!Outcomes
  <2>3. Good
    BY <1>1, <1>2, <1>5, <2>1, <2>2, OnItsWayTypes DEF FieldsInOrder, Demo!ShownIsRecorded
  <2>. QED  BY <1>1, <1>2, <2>3, EndingKeeps
<1>. QED  BY <1>2, <1>6, <1>7, <1>8, <1>9, <1>10 DEF Demo!Steps

(* A failure sets nothing but the label.                                   *)
LEMMA PatchFailureKeeps ==
  ASSUME DemoInv, NEW r \in Demo!Runs, Demo!PatchFailure(r)
  PROVE  DemoInv'
<1>1. /\ OnItsWay(r) /\ UNCHANGED <<backend, losses>>
      /\ request' = [request EXCEPT ![r].pc = "done"] /\ flow' = [flow EXCEPT !.busy = "idle"]
  BY DEF OnItsWay, Demo!PatchFailure
<1>2. /\ flow' \in Demo!FlowState /\ flow'.busy = "idle"
      /\ flow'.offers = flow.offers /\ flow'.grant = flow.grant
      /\ flow'.firstDownload = flow.firstDownload /\ flow'.revoked = flow.revoked
      /\ flow'.secondDownload = flow.secondDownload
  BY <1>1, OnItsWayTypes DEF Demo!FlowState
<1>3. FieldsInOrder' /\ Demo!ShownIsRecorded'
  BY <1>1, <1>2 DEF DemoInv, FieldsInOrder, Demo!ShownIsRecorded
<1>4. losses = 0 =>
        /\ flow'.offers # "none" /\ flow'.firstDownload \in {"unset", "served"}
        /\ flow'.secondDownload \in {"unset", "refused"}
  BY <1>2 DEF DemoInv
<1>. QED  BY <1>1, <1>2, <1>3, <1>4, EndingKeeps

(* The demo presses one button at a time, in order, and shows what the     *)
(* backend has recorded.                                                   *)
THEOREM DemoInvariant == Demo!WebDemoSpec => []DemoInv
<1>1. Demo!WebDemoInit => DemoInv
  <2>. SUFFICES ASSUME Demo!WebDemoInit PROVE DemoInv
    OBVIOUS
  <2>1. Demo!WebDemoTypeOK
    BY PagesAssumption
    DEF Demo!WebDemoInit, Demo!WebDemoTypeOK, Demo!FlowState, Demo!Request
  <2>2. Demo!ShownIsRecorded /\ FieldsInOrder /\ flow.busy = "idle"
    BY DEF Demo!WebDemoInit, Demo!ShownIsRecorded, FieldsInOrder
  <2>3. OneAtATime(0)
    BY DEF Demo!WebDemoInit, OneAtATime, OnItsWay, Demo!Runs
  <2>4. 0 \in 0 .. MaxRuns
    BY PagesAssumption
  <2>5. \A r \in Demo!Runs : ~OnItsWay(r) /\ request[r].pc # "answered"
    BY DEF Demo!WebDemoInit, OnItsWay
  <2>. QED  BY <2>1, <2>2, <2>3, <2>4, <2>5 DEF DemoInv, Demo!WebDemoInit
<1>2. DemoInv /\ [Demo!WebDemoNext]_(Demo!demoVars) => DemoInv'
  <2>. SUFFICES ASSUME DemoInv, [Demo!WebDemoNext]_(Demo!demoVars) PROVE DemoInv'
    OBVIOUS
  <2>1. CASE UNCHANGED Demo!demoVars
    <3>1. flow' = flow /\ request' = request /\ backend' = backend /\ losses' = losses
      BY <2>1 DEF Demo!demoVars
    <3>2. PICK k \in 0 .. MaxRuns : OneAtATime(k)
      BY DEF DemoInv
    <3>3. OneAtATime(k)'
      BY <3>1, <3>2 DEF OneAtATime, OnItsWay
    <3>4. Demo!WebDemoTypeOK' /\ Demo!ShownIsRecorded' /\ FieldsInOrder'
      BY <3>1 DEF DemoInv, Demo!WebDemoTypeOK, Demo!ShownIsRecorded, FieldsInOrder
    <3>5. \A r \in Demo!Runs :
            /\ (OnItsWay(r) <=> OnItsWay(r)') /\ (StepOnItsWay(r) => StepOnItsWay(r)')
            /\ (AnswerIsTrue(r) => AnswerIsTrue(r)')
      BY <3>1 DEF OnItsWay, StepOnItsWay, AnswerIsTrue, Demo!Shown
    <3>. QED  BY <3>1, <3>3, <3>4, <3>5 DEF DemoInv
  <2>. QED
    BY <2>1, PressKeeps, SearchServedKeeps, ConfirmServedKeeps, DownloadServedKeeps,
       RevokeServedKeeps, LostKeeps, PatchKeeps, PatchFailureKeeps
    DEF Demo!WebDemoNext, Demo!Served, Demo!Patched
<1>. QED  BY <1>1, <1>2, PTL DEF Demo!WebDemoSpec

(* When nothing has failed and nothing is on its way, the button of the    *)
(* next step is shown and enabled, until the refusal is shown.             *)
LEMMA DemoIsNotStuck == DemoInv => Demo!DemoGoesOn
<1>. SUFFICES ASSUME DemoInv, losses = 0, flow.busy = "idle", flow.secondDownload # "refused"
              PROVE  \E step \in Demo!Steps : Demo!Shown(step) /\ flow.busy # Demo!Label(step)
  BY DEF DemoInv, Demo!DemoGoesOn, OnItsWay
<1>1. \A step \in Demo!Steps : flow.busy # Demo!Label(step)
  BY DEF Demo!Steps, Demo!Label
<1>2. /\ flow.offers \in {"unset", "some"} /\ flow.firstDownload \in {"unset", "served"}
      /\ flow.secondDownload = "unset"
  BY DEF DemoInv, Demo!WebDemoTypeOK, Demo!FlowState
<1>3. \E step \in Demo!Steps : Demo!Shown(step)
  <2>1. \/ Demo!Shown("search") \/ Demo!Shown("confirm") \/ Demo!Shown("firstDownload")
        \/ Demo!Shown("revoke") \/ Demo!Shown("secondDownload")
    BY <1>2 DEF Demo!Shown, DemoInv, FieldsInOrder
  <2>. QED  BY <2>1 DEF Demo!Steps
<1>. QED  BY <1>1, <1>3
-----------------------------------------------------------------------------
(* The page of grants.                                                     *)

(* What the rows say, or will say when an answer arrives, is so; a row     *)
(* that said REVOKED when its download was begun refuses it.               *)
RowsAreTrue ==
  /\ \A g \in Grants : records[g] = "REVOKED" => g \in revoked
  /\ \A c \in Handlers : \A g \in Grants :
       handler[c].listed[g] = "REVOKED" => g \in revoked

FlippedAreRefused ==
  \A c \in Handlers :
    /\ handler[c].step = "idle" => handler[c].answer = None
    /\ handler[c].flipped => handler[c].grant \in revoked /\ handler[c].answer # "served"

(* Only a refresh, of the page or after a revocation, lists; a button is   *)
(* that of a grant, and a download is answered with an outcome.            *)
HandlersFit ==
  \A c \in Handlers :
    /\ handler[c].step \in {"listing", "listed"} => handler[c].kind # "download"
    /\ handler[c].kind \in {"revoke", "download"} => handler[c].grant \in Grants
    /\ handler[c].kind = "download" /\ handler[c].step = "asked" =>
         handler[c].answer \in GrantsPage!Outcomes \cup {"error"}

GrantsPageInv ==
  /\ GrantsPage!WebGrantsTypeOK
  /\ RowsAreTrue /\ FlippedAreRefused /\ HandlersFit /\ GrantsPage!PageIsReleased


(* One handler changes.                                                    *)
LEMMA HandlerUpdated ==
  ASSUME GrantsPage!WebGrantsTypeOK, NEW c \in Handlers, NEW new \in GrantsPage!Handler,
         handler' = [handler EXCEPT ![c] = new]
  PROVE  /\ handler' \in [Handlers -> GrantsPage!Handler] /\ handler'[c] = new
         /\ \A d \in Handlers \ {c} : handler'[d] = handler[d]
  BY DEF GrantsPage!WebGrantsTypeOK

(* Only its step does.                                                     *)
LEMMA HandlerMoved ==
  ASSUME GrantsPage!WebGrantsTypeOK, NEW c \in Handlers, NEW step \in {"listing", "done"},
         handler' = [handler EXCEPT ![c].step = step]
  PROVE  /\ handler' \in [Handlers -> GrantsPage!Handler]
         /\ \A d \in Handlers \ {c} : handler'[d] = handler[d]
         /\ handler'[c].kind = handler[c].kind /\ handler'[c].step = step
         /\ handler'[c].grant = handler[c].grant /\ handler'[c].flipped = handler[c].flipped
         /\ handler'[c].answer = handler[c].answer /\ handler'[c].listed = handler[c].listed
<1>. DEFINE new == [handler[c] EXCEPT !.step = step]
<1>1. handler' = [handler EXCEPT ![c] = new]
  OBVIOUS
<1>2. /\ new \in GrantsPage!Handler /\ new.kind = handler[c].kind /\ new.step = step
      /\ new.grant = handler[c].grant /\ new.flipped = handler[c].flipped
      /\ new.answer = handler[c].answer /\ new.listed = handler[c].listed
  BY DEF GrantsPage!WebGrantsTypeOK, GrantsPage!Handler
<1>. HIDE DEF new
<1>3. /\ handler' \in [Handlers -> GrantsPage!Handler] /\ handler'[c] = new
      /\ \A d \in Handlers \ {c} : handler'[d] = handler[d]
  BY <1>1, <1>2, HandlerUpdated
<1>. QED  BY <1>2, <1>3

(* A pressed button: it says REVOKED only of a revoked grant.              *)
LEMMA ButtonKeeps ==
  ASSUME GrantsPageInv, NEW c \in Handlers, NEW g \in Grants,
         GrantsPage!Revoke(c, g) \/ GrantsPage!Download(c, g)
  PROVE  GrantsPageInv'
<1>. USE PagesAssumption DEF GrantsPageInv
<1>1. PICK kind \in {"revoke", "download"} :
        GrantsPage!Press(c, kind, g) /\ UNCHANGED records
  BY DEF GrantsPage!Revoke, GrantsPage!Download
<1>. DEFINE new == [handler[c] EXCEPT !.kind = kind, !.step = "asking", !.grant = g,
                                      !.flipped = (records[g] = "REVOKED")]
<1>2. handler[c] \in GrantsPage!Handler /\ handler[c].step = "idle"
  BY <1>1 DEF GrantsPage!WebGrantsTypeOK, GrantsPage!Press, GrantsPage!At
<1>3. /\ new \in GrantsPage!Handler /\ new.kind = kind /\ new.step = "asking" /\ new.grant = g
      /\ new.flipped = (records[g] = "REVOKED")
      /\ new.answer = handler[c].answer /\ new.listed = handler[c].listed
  BY <1>2 DEF GrantsPage!Handler, GrantsPage!Kinds
<1>4. handler' = [handler EXCEPT ![c] = new]
  BY <1>1 DEF GrantsPage!Press
<1>. HIDE DEF new
<1>5. /\ handler' \in [Handlers -> GrantsPage!Handler] /\ handler'[c] = new
      /\ \A d \in Handlers \ {c} : handler'[d] = handler[d]
  BY <1>3, <1>4, HandlerUpdated
<1>6. slot' = <<kind, g>> /\ UNCHANGED <<records, downloads, revoked, rejected, failures>>
  BY <1>1 DEF GrantsPage!Press
<1>7. GrantsPage!WebGrantsTypeOK'
  BY <1>5, <1>6 DEF GrantsPage!WebGrantsTypeOK
<1>8. RowsAreTrue'
  BY <1>3, <1>5, <1>6 DEF RowsAreTrue
<1>9. FlippedAreRefused'
  <2>1. handler[c].answer # "served"
    BY <1>2 DEF FlippedAreRefused, GrantsPage!Outcomes
  <2>2. new.flipped => g \in revoked
    BY <1>3 DEF RowsAreTrue
  <2>3. ASSUME NEW d \in Handlers
        PROVE  /\ handler'[d].step = "idle" => handler'[d].answer = None
               /\ handler'[d].flipped => handler'[d].grant \in revoked /\ handler'[d].answer # "served"
    <3>1. CASE d = c
      BY <1>3, <1>5, <2>1, <2>2, <3>1
    <3>2. CASE d # c
      BY <1>5, <3>2 DEF FlippedAreRefused
    <3>. QED  BY <3>1, <3>2
  <2>. QED  BY <1>6, <2>3 DEF FlippedAreRefused
<1>10. HandlersFit'
  BY <1>3, <1>5 DEF HandlersFit
<1>11. GrantsPage!PageIsReleased'
  BY <1>3, <1>5 DEF GrantsPage!PageIsReleased
<1>. QED  BY <1>7, <1>8, <1>9, <1>10, <1>11

(* The backend decides, and whom a row told that the grant was revoked is  *)
(* not served.                                                             *)
LEMMA BackendKeeps ==
  ASSUME GrantsPageInv, NEW c \in Handlers, GrantsPage!BackendActs(c) \/ GrantsPage!BackendErrs(c)
  PROVE  GrantsPageInv'
<1>. USE PagesAssumption DEF GrantsPageInv
<1>1. /\ handler[c] \in GrantsPage!Handler /\ handler[c].step = "asking"
      /\ UNCHANGED <<records, downloads, slot, rejected>>
  BY DEF GrantsPage!WebGrantsTypeOK, GrantsPage!BackendActs, GrantsPage!BackendErrs, GrantsPage!At,
         GrantsPage!pageVars
<1>2. PICK answer \in {"revoked", "refused", "served", "error"} :
        /\ handler' = [handler EXCEPT ![c] = [@ EXCEPT !.step = "asked", !.answer = answer]]
        /\ handler[c].grant \in revoked => answer # "served"
        /\ handler[c].kind = "download" => answer # "revoked"
  BY DEF GrantsPage!BackendActs, GrantsPage!BackendErrs
<1>3. revoked \subseteq revoked'
  BY DEF GrantsPage!BackendActs, GrantsPage!BackendErrs
<1>4. failures' \in 0 .. MaxFaults
  BY DEF GrantsPage!BackendActs, GrantsPage!BackendErrs, GrantsPage!Fails, GrantsPage!WebGrantsTypeOK
<1>. DEFINE new == [handler[c] EXCEPT !.step = "asked", !.answer = answer]
<1>5. /\ new \in GrantsPage!Handler /\ new.kind = handler[c].kind /\ new.step = "asked"
      /\ new.grant = handler[c].grant /\ new.flipped = handler[c].flipped
      /\ new.answer = answer /\ new.listed = handler[c].listed
  BY <1>1 DEF GrantsPage!Handler, GrantsPage!Outcomes
<1>6. handler' = [handler EXCEPT ![c] = new]
  BY <1>2
<1>. HIDE DEF new
<1>7. /\ handler' \in [Handlers -> GrantsPage!Handler] /\ handler'[c] = new
      /\ \A d \in Handlers \ {c} : handler'[d] = handler[d]
  BY <1>5, <1>6, HandlerUpdated
<1>8. GrantsPage!WebGrantsTypeOK'
  <2>1. revoked' \subseteq Grants
    BY DEF GrantsPage!WebGrantsTypeOK, GrantsPage!BackendActs, GrantsPage!BackendErrs, HandlersFit
  <2>. QED  BY <1>1, <1>4, <1>7, <2>1 DEF GrantsPage!WebGrantsTypeOK
<1>9. RowsAreTrue'
  BY <1>1, <1>3, <1>5, <1>7 DEF RowsAreTrue
<1>10. FlippedAreRefused'
  BY <1>1, <1>2, <1>3, <1>5, <1>7 DEF FlippedAreRefused
<1>11. HandlersFit'
  BY <1>2, <1>5, <1>7 DEF HandlersFit, GrantsPage!Outcomes
<1>12. GrantsPage!PageIsReleased'
  BY <1>1, <1>5, <1>7 DEF GrantsPage!PageIsReleased
<1>. QED  BY <1>8, <1>9, <1>10, <1>11, <1>12

(* The rows the Access Manager, or an error status, gives are true.        *)
LEMMA ListKeeps ==
  ASSUME GrantsPageInv, NEW c \in Handlers, GrantsPage!List(c) \/ GrantsPage!ListErrs(c)
  PROVE  GrantsPageInv'
<1>. USE PagesAssumption DEF GrantsPageInv
<1>1. /\ handler[c] \in GrantsPage!Handler /\ handler[c].step = "listing"
      /\ UNCHANGED <<records, downloads, slot, revoked, rejected>>
  BY DEF GrantsPage!WebGrantsTypeOK, GrantsPage!List, GrantsPage!ListErrs, GrantsPage!At,
         GrantsPage!pageVars
<1>2. PICK rows \in GrantsPage!Table :
        /\ handler' = [handler EXCEPT ![c] = [@ EXCEPT !.step = "listed", !.listed = rows]]
        /\ \A g \in Grants : rows[g] = "REVOKED" => g \in revoked
  <2>1. CASE GrantsPage!List(c)
    <3>. DEFINE rows == [g \in Grants |-> IF g \in revoked THEN "REVOKED" ELSE "ISSUED"]
    <3>1. rows \in GrantsPage!Table /\ \A g \in Grants : rows[g] = "REVOKED" => g \in revoked
      BY DEF GrantsPage!Table, GrantsPage!Statuses
    <3>2. handler' = [handler EXCEPT ![c] = [@ EXCEPT !.step = "listed", !.listed = rows]]
      BY <2>1 DEF GrantsPage!List
    <3>. QED  BY <3>1, <3>2
  <2>2. CASE GrantsPage!ListErrs(c)
    <3>1. /\ GrantsPage!NoRows \in GrantsPage!Table
          /\ \A g \in Grants : GrantsPage!NoRows[g] # "REVOKED"
      BY DEF GrantsPage!Table, GrantsPage!NoRows, GrantsPage!Statuses
    <3>. QED  BY <2>2, <3>1 DEF GrantsPage!ListErrs
  <2>. QED  BY <2>1, <2>2
<1>3. failures' \in 0 .. MaxFaults
  BY DEF GrantsPage!List, GrantsPage!ListErrs, GrantsPage!Fails, GrantsPage!WebGrantsTypeOK
<1>. DEFINE new == [handler[c] EXCEPT !.step = "listed", !.listed = rows]
<1>4. /\ new \in GrantsPage!Handler /\ new.kind = handler[c].kind /\ new.step = "listed"
      /\ new.grant = handler[c].grant /\ new.flipped = handler[c].flipped
      /\ new.answer = handler[c].answer /\ new.listed = rows
  BY <1>1 DEF GrantsPage!Handler
<1>5. handler' = [handler EXCEPT ![c] = new]
  BY <1>2
<1>. HIDE DEF new
<1>6. /\ handler' \in [Handlers -> GrantsPage!Handler] /\ handler'[c] = new
      /\ \A d \in Handlers \ {c} : handler'[d] = handler[d]
  BY <1>4, <1>5, HandlerUpdated
<1>7. GrantsPage!WebGrantsTypeOK'
  BY <1>1, <1>3, <1>6 DEF GrantsPage!WebGrantsTypeOK
<1>8. RowsAreTrue'
  BY <1>1, <1>2, <1>4, <1>6 DEF RowsAreTrue
<1>9. FlippedAreRefused' /\ HandlersFit' /\ GrantsPage!PageIsReleased'
  BY <1>1, <1>4, <1>6 DEF FlippedAreRefused, HandlersFit, GrantsPage!PageIsReleased
<1>. QED  BY <1>7, <1>8, <1>9

(* The page takes an answer: it releases the button of the handler, or the *)
(* handler goes on to a refresh.                                           *)
LEMMA AnswerKeeps ==
  ASSUME GrantsPageInv, NEW c \in Handlers,
         GrantsPage!RevokeAnswered(c) \/ GrantsPage!DownloadAnswered(c) \/ GrantsPage!ListAnswered(c)
  PROVE  GrantsPageInv'
<1>. USE PagesAssumption DEF GrantsPageInv
<1>1. /\ handler[c] \in GrantsPage!Handler /\ handler[c].step \in {"asked", "listed"}
      /\ UNCHANGED <<revoked, rejected, failures>>
  BY DEF GrantsPage!WebGrantsTypeOK, GrantsPage!RevokeAnswered, GrantsPage!DownloadAnswered,
         GrantsPage!ListAnswered, GrantsPage!At
<1>2. PICK step \in {"listing", "done"} :
        /\ handler' = [handler EXCEPT ![c].step = step]
        /\ step = "listing" => handler[c].kind = "revoke" /\ UNCHANGED <<records, downloads, slot>>
        /\ step = "done" /\ handler[c].kind \in {"revoke", "download"} => slot' = None
        /\ slot' \in {slot, None}
  BY <1>1 DEF GrantsPage!RevokeAnswered, GrantsPage!DownloadAnswered, GrantsPage!ListAnswered,
              GrantsPage!pageVars, GrantsPage!At, HandlersFit
<1>3. /\ handler' \in [Handlers -> GrantsPage!Handler]
      /\ \A d \in Handlers \ {c} : handler'[d] = handler[d]
      /\ handler'[c].kind = handler[c].kind /\ handler'[c].step = step
      /\ handler'[c].grant = handler[c].grant /\ handler'[c].flipped = handler[c].flipped
      /\ handler'[c].answer = handler[c].answer /\ handler'[c].listed = handler[c].listed
  BY <1>2, HandlerMoved
<1>4. /\ records' \in GrantsPage!Table
      /\ \A g \in Grants : records'[g] = "REVOKED" => g \in revoked
  BY <1>1 DEF GrantsPage!RevokeAnswered, GrantsPage!DownloadAnswered, GrantsPage!ListAnswered,
              GrantsPage!pageVars, GrantsPage!WebGrantsTypeOK, GrantsPage!Handler, RowsAreTrue
<1>5. downloads' \in [Grants -> GrantsPage!Outcomes \cup {"error", None}]
  <2>1. CASE UNCHANGED downloads
    BY <2>1 DEF GrantsPage!WebGrantsTypeOK
  <2>2. CASE GrantsPage!DownloadAnswered(c)
    <3>1. handler[c].answer \in GrantsPage!Outcomes \cup {"error", None}
      BY <1>1, <2>2 DEF HandlersFit, GrantsPage!DownloadAnswered, GrantsPage!At
    <3>. QED  BY <2>2, <3>1 DEF GrantsPage!DownloadAnswered, GrantsPage!WebGrantsTypeOK
  <2>. QED
    BY <2>1, <2>2 DEF GrantsPage!RevokeAnswered, GrantsPage!ListAnswered, GrantsPage!pageVars
<1>6. GrantsPage!WebGrantsTypeOK'
  BY <1>1, <1>2, <1>3, <1>4, <1>5 DEF GrantsPage!WebGrantsTypeOK
<1>7. RowsAreTrue' /\ FlippedAreRefused'
  BY <1>1, <1>3, <1>4 DEF RowsAreTrue, FlippedAreRefused
<1>8. HandlersFit'
  BY <1>2, <1>3 DEF HandlersFit
<1>9. GrantsPage!PageIsReleased'
  BY <1>1, <1>2, <1>3 DEF GrantsPage!PageIsReleased
<1>. QED  BY <1>6, <1>7, <1>8, <1>9

(* A rejected fetch ends its handler and keeps the button.                 *)
LEMMA RejectionKeeps ==
  ASSUME GrantsPageInv, NEW c \in Handlers, GrantsPage!FetchRejects(c)
  PROVE  GrantsPageInv'
<1>. USE PagesAssumption DEF GrantsPageInv
<1>1. /\ handler[c] \in GrantsPage!Handler
      /\ UNCHANGED <<records, downloads, slot, revoked>> /\ rejected' = TRUE
      /\ failures' \in 0 .. MaxFaults
  BY DEF GrantsPage!WebGrantsTypeOK, GrantsPage!FetchRejects, GrantsPage!Fails, GrantsPage!pageVars
<1>. DEFINE new == [handler[c] EXCEPT !.step = "done", !.answer = "error"]
<1>2. /\ new \in GrantsPage!Handler /\ new.kind = handler[c].kind /\ new.step = "done"
      /\ new.grant = handler[c].grant /\ new.flipped = handler[c].flipped
      /\ new.answer = "error" /\ new.listed = handler[c].listed
  BY <1>1 DEF GrantsPage!Handler
<1>3. handler' = [handler EXCEPT ![c] = new]
  BY DEF GrantsPage!FetchRejects
<1>. HIDE DEF new
<1>4. /\ handler' \in [Handlers -> GrantsPage!Handler] /\ handler'[c] = new
      /\ \A d \in Handlers \ {c} : handler'[d] = handler[d]
  BY <1>2, <1>3, HandlerUpdated
<1>5. GrantsPage!WebGrantsTypeOK'
  BY <1>1, <1>4 DEF GrantsPage!WebGrantsTypeOK
<1>6. RowsAreTrue' /\ FlippedAreRefused' /\ HandlersFit' /\ GrantsPage!PageIsReleased'
  BY <1>1, <1>2, <1>4 DEF RowsAreTrue, FlippedAreRefused, HandlersFit, GrantsPage!PageIsReleased
<1>. QED  BY <1>5, <1>6

(* The rows of the page of grants are true whenever they were read, and    *)
(* whichever of its overlapping handlers answers first.                    *)
THEOREM GrantsPageInvariant == GrantsPage!WebGrantsSpec => []GrantsPageInv
<1>1. GrantsPage!WebGrantsInit => GrantsPageInv
  <2>. SUFFICES ASSUME GrantsPage!WebGrantsInit PROVE GrantsPageInv
    OBVIOUS
  <2>1. GrantsPage!NoRows \in GrantsPage!Table /\ \A g \in Grants : GrantsPage!NoRows[g] # "REVOKED"
    BY PagesAssumption DEF GrantsPage!Table, GrantsPage!NoRows, GrantsPage!Statuses
  <2>2. handler \in [Handlers -> GrantsPage!Handler]
    BY <2>1 DEF GrantsPage!WebGrantsInit, GrantsPage!Handler, GrantsPage!Kinds
  <2>3. /\ records = GrantsPage!NoRows /\ downloads = [g \in Grants |-> None] /\ slot = None
        /\ revoked = {} /\ rejected = FALSE /\ failures \in 0 .. MaxFaults
    BY PagesAssumption DEF GrantsPage!WebGrantsInit
  <2>4. GrantsPage!WebGrantsTypeOK /\ GrantsPage!PageIsReleased
    BY <2>1, <2>2, <2>3 DEF GrantsPage!WebGrantsTypeOK, GrantsPage!PageIsReleased
  <2>5. RowsAreTrue
    BY <2>1 DEF GrantsPage!WebGrantsInit, RowsAreTrue
  <2>6. FlippedAreRefused /\ HandlersFit
    BY PagesAssumption
    DEF GrantsPage!WebGrantsInit, FlippedAreRefused, HandlersFit, GrantsPage!Kinds
  <2>. QED  BY <2>4, <2>5, <2>6 DEF GrantsPageInv
<1>2. GrantsPageInv /\ [GrantsPage!WebGrantsNext]_(GrantsPage!grantsVars) => GrantsPageInv'
  <2>. SUFFICES ASSUME GrantsPageInv, [GrantsPage!WebGrantsNext]_(GrantsPage!grantsVars)
                PROVE  GrantsPageInv'
    OBVIOUS
  <2>1. CASE UNCHANGED GrantsPage!grantsVars
    BY <2>1 DEF GrantsPage!grantsVars, GrantsPage!pageVars, GrantsPageInv,
                GrantsPage!WebGrantsTypeOK, RowsAreTrue, FlippedAreRefused, HandlersFit,
                GrantsPage!PageIsReleased
  <2>. QED
    BY <2>1, ButtonKeeps, BackendKeeps, ListKeeps, AnswerKeeps, RejectionKeeps
    DEF GrantsPage!WebGrantsNext, GrantsPage!HandlerGoesOn
<1>. QED  BY <1>1, <1>2, PTL DEF GrantsPage!WebGrantsSpec
-----------------------------------------------------------------------------
(* The catalog page.                                                       *)

(* The page shows what the search of its transaction found.                *)
PageIsOfItsSearch ==
  /\ transactionId = None => offers = {}
  /\ transactionId # None => found[transactionId] # None /\ offers = found[transactionId]

(* A confirm is answered once.                                             *)
AnsweredAreDone == \A i \in DOMAIN answered : call[answered[i]].pc = "done"

(* Only offers are confirmed.                                              *)
ConfirmsHaveOffers == \A c \in Handlers : call[c].pc = "confirm" => call[c].offer \in Offers

CatalogInv ==
  /\ Catalog!WebCatalogTypeOK /\ ConfirmsHaveOffers
  /\ PageIsOfItsSearch /\ Catalog!GrantOfItsSearch
  /\ AnsweredAreDone /\ Catalog!HeldAreTheLatest /\ Catalog!PageIsReleased

(* A handler of the catalog changes.                                       *)
LEMMA CallUpdated ==
  ASSUME Catalog!WebCatalogTypeOK, NEW c \in Handlers, NEW new \in Catalog!Handler,
         call' = [call EXCEPT ![c] = new]
  PROVE  /\ call' \in [Handlers -> Catalog!Handler] /\ call'[c] = new
         /\ \A d \in Handlers \ {c} : call'[d] = call[d]
  BY DEF Catalog!WebCatalogTypeOK

(* Only how far it is does.                                                *)
LEMMA CallMoved ==
  ASSUME Catalog!WebCatalogTypeOK, NEW c \in Handlers, NEW newPc \in {"minted", "done", "failed"},
         call' = [call EXCEPT ![c].pc = newPc]
  PROVE  /\ call' \in [Handlers -> Catalog!Handler]
         /\ \A d \in Handlers \ {c} : call'[d] = call[d]
         /\ call'[c].pc = newPc /\ call'[c].mount = call[c].mount
         /\ call'[c].offer = call[c].offer /\ call'[c].transaction = call[c].transaction
<1>. DEFINE new == [call[c] EXCEPT !.pc = newPc]
<1>1. call' = [call EXCEPT ![c] = new]
  OBVIOUS
<1>2. /\ new \in Catalog!Handler /\ new.pc = newPc /\ new.mount = call[c].mount
      /\ new.offer = call[c].offer /\ new.transaction = call[c].transaction
  BY DEF Catalog!WebCatalogTypeOK, Catalog!Handler
<1>. HIDE DEF new
<1>3. /\ call' \in [Handlers -> Catalog!Handler] /\ call'[c] = new
      /\ \A d \in Handlers \ {c} : call'[d] = call[d]
  BY <1>1, <1>2, CallUpdated
<1>. QED  BY <1>2, <1>3

(* A handler that starts names offers and the transaction of the page.     *)
LEMMA StartKeeps ==
  ASSUME CatalogInv, NEW c \in Handlers,
         Catalog!DoSearch(c) \/ \E o \in Offers : Catalog!RequestAccess(c, o)
  PROVE  CatalogInv'
<1>. USE PagesAssumption DEF CatalogInv
<1>1. PICK newPc \in {"search", "confirm"}, offer \in Offers \cup {None} :
        /\ Catalog!Start(c, newPc, offer)
        /\ offer # None => offer \in offers
        /\ newPc = "confirm" => offer # None
        /\ busy' \in Offers \cup {"search", None}
  BY DEF Catalog!DoSearch, Catalog!RequestAccess
<1>2. /\ call[c].pc = "idle" /\ ~away
      /\ UNCHANGED <<offers, transactionId, mount, away, found, minted, held, answered, faults>>
  BY <1>1 DEF Catalog!Start
<1>. DEFINE new == [pc |-> newPc, mount |-> mount, offer |-> offer, transaction |-> transactionId]
<1>3. new \in Catalog!Handler
  BY DEF Catalog!WebCatalogTypeOK, Catalog!Handler
<1>4. /\ new.pc = newPc /\ new.mount = mount /\ new.offer = offer
      /\ new.transaction = transactionId /\ call' = [call EXCEPT ![c] = new]
  BY <1>1 DEF Catalog!Start
<1>. HIDE DEF new
<1>5. /\ call' \in [Handlers -> Catalog!Handler] /\ call'[c] = new
      /\ \A d \in Handlers \ {c} : call'[d] = call[d]
  BY <1>3, <1>4, CallUpdated
<1>6. Catalog!WebCatalogTypeOK'
  BY <1>1, <1>2, <1>5 DEF Catalog!WebCatalogTypeOK
<1>7. PageIsOfItsSearch'
  BY <1>2 DEF PageIsOfItsSearch
<1>8. Catalog!GrantOfItsSearch'
  <2>1. offer # None =>
          transactionId # None /\ found[transactionId] # None /\ offer \in found[transactionId]
    BY <1>1 DEF PageIsOfItsSearch
  <2>. QED  BY <1>2, <1>4, <1>5, <2>1 DEF Catalog!GrantOfItsSearch
<1>9. AnsweredAreDone'
  <2>1. ASSUME NEW i \in DOMAIN answered PROVE answered[i] \in Handlers /\ answered[i] # c
    BY <1>2 DEF AnsweredAreDone, Catalog!WebCatalogTypeOK
  <2>. QED  BY <1>2, <1>5, <2>1 DEF AnsweredAreDone
<1>10. Catalog!HeldAreTheLatest' /\ ConfirmsHaveOffers'
  BY <1>1, <1>2, <1>4, <1>5 DEF Catalog!HeldAreTheLatest, ConfirmsHaveOffers
<1>11. Catalog!PageIsReleased'
  BY <1>2, <1>4, <1>5 DEF Catalog!PageIsReleased, Catalog!OnPage
<1>. QED  BY <1>6, <1>7, <1>8, <1>9, <1>10, <1>11

(* An answer brings its offers and its transaction together, and finds     *)
(* what no other search has found.                                         *)
LEMMA SearchAnsweredKeeps ==
  ASSUME CatalogInv, NEW c \in Handlers, NEW t \in Transactions, NEW matches \in SUBSET Offers,
         Catalog!SearchAnswered(c, t, matches)
  PROVE  CatalogInv'
<1>. USE PagesAssumption DEF CatalogInv
<1>1. /\ call[c].pc = "search" /\ found[t] = None /\ found' = [found EXCEPT ![t] = matches]
      /\ UNCHANGED <<mount, away, minted, held, answered, faults>>
      /\ \/ offers' = matches /\ transactionId' = t
         \/ UNCHANGED <<offers, transactionId>>
      /\ busy' = IF Catalog!OnPage(c) THEN None ELSE busy
  BY DEF Catalog!SearchAnswered, Catalog!Released
<1>2. /\ call' \in [Handlers -> Catalog!Handler]
      /\ \A d \in Handlers \ {c} : call'[d] = call[d]
      /\ call'[c].pc = "done" /\ call'[c].mount = call[c].mount
      /\ call'[c].offer = call[c].offer /\ call'[c].transaction = call[c].transaction
  <2>1. PICK newPc \in {"minted", "done", "failed"} : newPc = "done"
    OBVIOUS
  <2>2. call' = [call EXCEPT ![c].pc = newPc]
    BY <2>1 DEF Catalog!SearchAnswered
  <2>. QED  BY <2>1, <2>2, CallMoved
<1>3. /\ \A u \in Transactions : found[u] # None => found'[u] = found[u]
      /\ found'[t] = matches /\ matches # None
      /\ found' \in [Transactions -> (SUBSET Offers) \cup {None}]
  BY <1>1 DEF Catalog!WebCatalogTypeOK
<1>4. Catalog!WebCatalogTypeOK'
  BY <1>1, <1>2, <1>3 DEF Catalog!WebCatalogTypeOK
<1>5. PageIsOfItsSearch'
  BY <1>1, <1>3 DEF PageIsOfItsSearch, Catalog!WebCatalogTypeOK
<1>6. Catalog!GrantOfItsSearch'
  <2>1. ASSUME NEW d \in Handlers
        PROVE  call'[d].offer = call[d].offer /\ call'[d].transaction = call[d].transaction
    BY <1>2
  <2>2. \A d \in Handlers : call[d].transaction \in Transactions \cup {None}
    BY DEF Catalog!WebCatalogTypeOK, Catalog!Handler
  <2>. QED  BY <1>3, <2>1, <2>2 DEF Catalog!GrantOfItsSearch
<1>7. AnsweredAreDone'
  <2>1. ASSUME NEW i \in DOMAIN answered PROVE answered[i] \in Handlers /\ call'[answered[i]].pc = "done"
    BY <1>2 DEF AnsweredAreDone, Catalog!WebCatalogTypeOK
  <2>. QED  BY <1>1, <2>1 DEF AnsweredAreDone
<1>8. Catalog!HeldAreTheLatest' /\ ConfirmsHaveOffers'
  BY <1>1, <1>2 DEF Catalog!HeldAreTheLatest, ConfirmsHaveOffers
<1>9. Catalog!PageIsReleased'
  BY <1>1, <1>2 DEF Catalog!PageIsReleased, Catalog!OnPage
<1>. QED  BY <1>4, <1>5, <1>6, <1>7, <1>8, <1>9

(* The BAP mints; a handler fails.                                         *)
LEMMA MintOrFailKeeps ==
  ASSUME CatalogInv, NEW c \in Handlers, Catalog!MintGrant(c) \/ Catalog!HandlerFails(c)
  PROVE  CatalogInv'
<1>. USE PagesAssumption DEF CatalogInv
<1>1. /\ call[c].pc \in {"search", "confirm", "minted"}
      /\ UNCHANGED <<offers, transactionId, mount, away, found, held, answered>>
      /\ faults' \in 0 .. MaxFaults
  BY DEF Catalog!MintGrant, Catalog!HandlerFails, Catalog!pageVars, Catalog!WebCatalogTypeOK
<1>2. PICK newPc \in {"minted", "failed"} :
        /\ call' = [call EXCEPT ![c].pc = newPc]
        /\ \/ newPc = "minted" /\ busy' = busy
           \/ newPc = "failed" /\ busy' = IF Catalog!OnPage(c) THEN None ELSE busy
  BY DEF Catalog!MintGrant, Catalog!HandlerFails, Catalog!pageVars, Catalog!Released
<1>3. /\ call' \in [Handlers -> Catalog!Handler]
      /\ \A d \in Handlers \ {c} : call'[d] = call[d]
      /\ call'[c].pc = newPc /\ call'[c].mount = call[c].mount
      /\ call'[c].offer = call[c].offer /\ call'[c].transaction = call[c].transaction
  <2>1. newPc \in {"minted", "done", "failed"}
    OBVIOUS
  <2>. QED  BY <1>2, <2>1, CallMoved
<1>4. minted' \in [Handlers -> Catalog!Licenses \cup {None}]
  <2>1. CASE Catalog!MintGrant(c)
    <3>1. call[c].offer \in Offers
      BY <2>1 DEF ConfirmsHaveOffers, Catalog!MintGrant
    <3>2. Catalog!GivenLicense(call[c].offer) \in Catalog!Licenses
      BY <3>1 DEF Catalog!GivenLicense, Catalog!Licenses
    <3>. QED  BY <2>1, <3>2 DEF Catalog!MintGrant, Catalog!WebCatalogTypeOK
  <2>2. CASE Catalog!HandlerFails(c)
    BY <2>2 DEF Catalog!HandlerFails, Catalog!WebCatalogTypeOK
  <2>. QED  BY <2>1, <2>2
<1>5. Catalog!WebCatalogTypeOK'
  BY <1>1, <1>2, <1>3, <1>4 DEF Catalog!WebCatalogTypeOK
<1>6. PageIsOfItsSearch' /\ Catalog!HeldAreTheLatest'
  BY <1>1 DEF PageIsOfItsSearch, Catalog!HeldAreTheLatest
<1>7. Catalog!GrantOfItsSearch'
  <2>1. ASSUME NEW d \in Handlers
        PROVE  call'[d].offer = call[d].offer /\ call'[d].transaction = call[d].transaction
    BY <1>3
  <2>. QED  BY <1>1, <2>1 DEF Catalog!GrantOfItsSearch
<1>8. AnsweredAreDone' /\ ConfirmsHaveOffers'
  <2>1. ASSUME NEW i \in DOMAIN answered PROVE answered[i] \in Handlers /\ answered[i] # c
    BY <1>1 DEF AnsweredAreDone, Catalog!WebCatalogTypeOK
  <2>2. AnsweredAreDone'
    BY <1>1, <1>3, <2>1 DEF AnsweredAreDone
  <2>3. newPc # "confirm"
    OBVIOUS
  <2>. QED  BY <1>3, <2>2, <2>3 DEF ConfirmsHaveOffers
<1>9. Catalog!PageIsReleased'
  BY <1>1, <1>2, <1>3 DEF Catalog!PageIsReleased, Catalog!OnPage
<1>. QED  BY <1>5, <1>6, <1>7, <1>8, <1>9

(* The newest grant comes first, and the oldest leaves when there are      *)
(* MaxHeld: what is kept is again the end of what was answered, reversed.  *)
LEMMA HeldMovesOn ==
  ASSUME CatalogInv, NEW c \in Handlers, call[c].pc = "minted",
         held' = Catalog!AddHeldGrant(c), answered' = Append(answered, c)
  PROVE  held' \in Seq(Handlers) /\ Catalog!HeldAreTheLatest'
<1>. USE PagesAssumption
<1>. DEFINE n == Len(answered)
            k == IF n < MaxHeld THEN n ELSE MaxHeld
            m == IF n + 1 < MaxHeld THEN n + 1 ELSE MaxHeld
            s == <<c>> \o held
<1>1. /\ answered \in Seq(Handlers) /\ held \in Seq(Handlers) /\ n \in Nat
      /\ held = [i \in 1 .. k |-> answered[n + 1 - i]]
  BY DEF CatalogInv, Catalog!WebCatalogTypeOK, Catalog!HeldAreTheLatest
<1>2. k \in Nat /\ Len(held) = k /\ \A i \in 1 .. k : held[i] = answered[n + 1 - i]
  <2>1. k \in Nat /\ DOMAIN held = 1 .. k /\ \A i \in 1 .. k : held[i] = answered[n + 1 - i]
    BY <1>1
  <2>2. Len(held) \in Nat /\ DOMAIN held = 1 .. Len(held)
    BY <1>1
  <2>. QED  BY <2>1, <2>2
<1>3. Catalog!Others(c) = held
  <2>1. ASSUME NEW i \in DOMAIN held PROVE held[i] # c
    <3>1. i \in 1 .. k /\ n + 1 - i \in DOMAIN answered
      BY <1>1, <1>2
    <3>2. call[held[i]].pc = "done"
      BY <1>2, <3>1 DEF CatalogInv, AnsweredAreDone
    <3>. QED  BY <3>2
  <2>2. c \notin Catalog!ToSet(held)
    BY <2>1 DEF Catalog!ToSet
  <2>. QED  BY <2>2 DEF Catalog!Others
<1>4. /\ s \in Seq(Handlers) /\ Len(s) = k + 1 /\ s[1] = c
      /\ \A i \in 2 .. k + 1 : s[i] = held[i - 1]
  BY <1>1, <1>2
<1>5. m \in 0 .. k + 1 /\ held' = SubSeq(s, 1, m)
  <2>1. m = IF k + 1 < MaxHeld THEN k + 1 ELSE MaxHeld
    BY <1>1
  <2>2. held' = SubSeq(s, 1, IF k + 1 < MaxHeld THEN k + 1 ELSE MaxHeld)
    BY <1>3, <1>4 DEF Catalog!AddHeldGrant, Catalog!AtMost
  <2>3. m \in 0 .. k + 1
    BY <1>1
  <2>. QED  BY <2>1, <2>2, <2>3
<1>6. held' \in Seq(Handlers) /\ DOMAIN held' = 1 .. m /\ \A i \in 1 .. m : held'[i] = s[i]
  <2>. HIDE DEF m, s, k
  <2>1. 1 \in Nat /\ m \in Nat /\ k \in Nat /\ m <= Len(s)
    BY <1>2, <1>4, <1>5
  <2>2. \A i \in 1 .. m : i \in 1 .. Len(s)
    BY <2>1, <1>2, <1>4
  <2>3. SubSeq(s, 1, m) \in Seq(Handlers) /\ Len(SubSeq(s, 1, m)) = m
        /\ \A i \in 1 .. m : SubSeq(s, 1, m)[i] = s[i]
    BY <1>4, <2>1, <2>2, SubSeqProperties
  <2>. QED  BY <1>5, <2>1, <2>3
<1>7. /\ Len(answered') = n + 1 /\ answered'[n + 1] = c
      /\ \A i \in 1 .. n : answered'[i] = answered[i]
  BY <1>1
<1>8. ASSUME NEW i \in 1 .. m PROVE held'[i] = answered'[n + 2 - i]
  <2>1. CASE i = 1
    <3>1. n + 2 - i = n + 1
      BY <1>1, <2>1
    <3>. QED  BY <1>4, <1>6, <1>7, <2>1, <3>1
  <2>2. CASE i # 1
    <3>1. i \in 2 .. k + 1 /\ i - 1 \in 1 .. k
      BY <1>2, <1>5, <2>2
    <3>2. n + 1 - (i - 1) = n + 2 - i /\ n + 2 - i \in 1 .. n
      BY <1>1, <1>2, <3>1
    <3>3. held'[i] = held[i - 1] /\ held[i - 1] = answered[n + 1 - (i - 1)]
      BY <1>2, <1>4, <1>6, <3>1
    <3>. QED  BY <1>7, <3>2, <3>3
  <2>. QED  BY <2>1, <2>2
<1>9. held' = [i \in 1 .. m |-> answered'[n + 2 - i]]
  <2>1. held' = [i \in 1 .. m |-> held'[i]]
    BY <1>6
  <2>. QED  BY <1>8, <2>1
<1>10. \A i \in 1 .. m : (n + 1) + 1 - i = n + 2 - i
  BY <1>1
<1>11. held' = [i \in 1 .. (IF n + 1 < MaxHeld THEN n + 1 ELSE MaxHeld) |->
                 answered'[(n + 1) + 1 - i]]
  BY <1>9, <1>10
<1>12. Len(answered)' = n + 1
  BY <1>7
<1>. HIDE DEF n
<1>13. Catalog!HeldAreTheLatest'
  BY <1>11, <1>12 DEF Catalog!HeldAreTheLatest
<1>. QED  BY <1>6, <1>13

(* The answer of a confirm.                                                *)
LEMMA ConfirmAnsweredKeeps ==
  ASSUME CatalogInv, NEW c \in Handlers, Catalog!ConfirmAnswered(c)
  PROVE  CatalogInv'
<1>. USE PagesAssumption DEF CatalogInv
<1>1. /\ call[c].pc = "minted" /\ held' = Catalog!AddHeldGrant(c) /\ answered' = Append(answered, c)
      /\ away' = TRUE /\ busy' \in {None, busy}
      /\ UNCHANGED <<offers, transactionId, mount, found, minted, faults>>
  BY DEF Catalog!ConfirmAnswered, Catalog!Released
<1>2. /\ call' \in [Handlers -> Catalog!Handler]
      /\ \A d \in Handlers \ {c} : call'[d] = call[d]
      /\ call'[c].pc = "done" /\ call'[c].mount = call[c].mount
      /\ call'[c].offer = call[c].offer /\ call'[c].transaction = call[c].transaction
  <2>1. PICK newPc \in {"minted", "done", "failed"} : newPc = "done"
    OBVIOUS
  <2>2. call' = [call EXCEPT ![c].pc = newPc]
    BY <2>1 DEF Catalog!ConfirmAnswered
  <2>. QED  BY <2>1, <2>2, CallMoved
<1>3. held' \in Seq(Handlers) /\ Catalog!HeldAreTheLatest'
  BY <1>1, HeldMovesOn
<1>4. /\ answered' \in Seq(Handlers)
      /\ \A i \in DOMAIN answered' : answered'[i] = c \/ (i \in DOMAIN answered /\ answered'[i] = answered[i])
  BY <1>1 DEF Catalog!WebCatalogTypeOK
<1>5. Catalog!WebCatalogTypeOK'
  BY <1>1, <1>2, <1>3, <1>4 DEF Catalog!WebCatalogTypeOK
<1>6. PageIsOfItsSearch'
  BY <1>1 DEF PageIsOfItsSearch
<1>7. Catalog!GrantOfItsSearch'
  <2>1. ASSUME NEW d \in Handlers
        PROVE  call'[d].offer = call[d].offer /\ call'[d].transaction = call[d].transaction
    BY <1>2
  <2>. QED  BY <1>1, <2>1 DEF Catalog!GrantOfItsSearch
<1>8. AnsweredAreDone' /\ ConfirmsHaveOffers'
  <2>1. ASSUME NEW i \in DOMAIN answered PROVE answered[i] \in Handlers /\ call'[answered[i]].pc = "done"
    BY <1>2 DEF AnsweredAreDone, Catalog!WebCatalogTypeOK
  <2>2. AnsweredAreDone'
    BY <1>2, <1>4, <2>1 DEF AnsweredAreDone
  <2>. QED  BY <1>2, <2>2 DEF ConfirmsHaveOffers
<1>9. Catalog!PageIsReleased'
  BY <1>1 DEF Catalog!PageIsReleased
<1>. QED  BY <1>3, <1>5, <1>6, <1>7, <1>8, <1>9

(* A fresh page waits for nobody.                                          *)
LEMMA OpenCatalogKeeps ==
  ASSUME CatalogInv, Catalog!OpenCatalog
  PROVE  CatalogInv'
<1>. USE PagesAssumption DEF CatalogInv
<1>1. /\ mount' \in 1 .. MaxMounts /\ away' = FALSE
      /\ offers' = {} /\ transactionId' = None /\ busy' = None
      /\ UNCHANGED <<call, found, minted, held, answered, faults>>
  BY DEF Catalog!OpenCatalog, Catalog!WebCatalogTypeOK
<1>2. Catalog!WebCatalogTypeOK'
  BY <1>1 DEF Catalog!WebCatalogTypeOK
<1>3. PageIsOfItsSearch' /\ Catalog!PageIsReleased'
  BY <1>1 DEF PageIsOfItsSearch, Catalog!PageIsReleased
<1>4. /\ Catalog!GrantOfItsSearch' /\ AnsweredAreDone' /\ ConfirmsHaveOffers'
      /\ Catalog!HeldAreTheLatest'
  BY <1>1 DEF Catalog!GrantOfItsSearch, AnsweredAreDone, ConfirmsHaveOffers,
              Catalog!HeldAreTheLatest
<1>. QED  BY <1>2, <1>3, <1>4

(* However searches, confirms and openings of the page overlap, the page   *)
(* confirms under the search it shows and keeps the latest grants.         *)
THEOREM CatalogInvariant == Catalog!WebCatalogSpec => []CatalogInv
<1>1. Catalog!WebCatalogInit => CatalogInv
  <2>. SUFFICES ASSUME Catalog!WebCatalogInit PROVE CatalogInv
    OBVIOUS
  <2>1. /\ offers = {} /\ transactionId = None /\ busy = None /\ mount \in 1 .. MaxMounts /\ away = FALSE
        /\ faults \in 0 .. MaxFaults /\ held = <<>> /\ answered = <<>>
        /\ found = [t \in Transactions |-> None] /\ minted = [c \in Handlers |-> None]
    BY PagesAssumption DEF Catalog!WebCatalogInit
  <2>2. /\ call \in [Handlers -> Catalog!Handler]
        /\ \A c \in Handlers : call[c].pc = "idle" /\ call[c].offer = None
    BY PagesAssumption DEF Catalog!WebCatalogInit, Catalog!Handler
  <2>3. Catalog!WebCatalogTypeOK
    <3>1. /\ found \in [Transactions -> (SUBSET Offers) \cup {None}]
          /\ minted \in [Handlers -> Catalog!Licenses \cup {None}]
      BY <2>1
    <3>2. held \in Seq(Handlers) /\ answered \in Seq(Handlers)
      BY <2>1, EmptySeq
    <3>. QED  BY <2>1, <2>2, <3>1, <3>2 DEF Catalog!WebCatalogTypeOK
  <2>4. Catalog!HeldAreTheLatest
    <3>1. Len(answered) = 0 /\ 0 \in Nat
      BY <2>1
    <3>2. (IF 0 < MaxHeld THEN 0 ELSE MaxHeld) = 0
      BY PagesAssumption
    <3>3. held = [i \in 1 .. 0 |-> answered[0 + 1 - i]]
      BY <2>1
    <3>. QED  BY <3>1, <3>2, <3>3 DEF Catalog!HeldAreTheLatest
  <2>. QED
    BY <2>1, <2>2, <2>3, <2>4
    DEF CatalogInv, PageIsOfItsSearch, Catalog!GrantOfItsSearch, AnsweredAreDone,
        ConfirmsHaveOffers, Catalog!PageIsReleased
<1>2. CatalogInv /\ [Catalog!WebCatalogNext]_(Catalog!catalogVars) => CatalogInv'
  <2>. SUFFICES ASSUME CatalogInv, [Catalog!WebCatalogNext]_(Catalog!catalogVars) PROVE CatalogInv'
    OBVIOUS
  <2>1. CASE UNCHANGED Catalog!catalogVars
    BY <2>1 DEF Catalog!catalogVars, Catalog!pageVars, CatalogInv, Catalog!WebCatalogTypeOK,
                PageIsOfItsSearch, Catalog!GrantOfItsSearch, AnsweredAreDone, ConfirmsHaveOffers,
                Catalog!HeldAreTheLatest, Catalog!PageIsReleased, Catalog!OnPage
  <2>. QED
    BY <2>1, StartKeeps, SearchAnsweredKeeps, MintOrFailKeeps, ConfirmAnsweredKeeps, OpenCatalogKeeps
    DEF Catalog!WebCatalogNext, Catalog!HandlerEnds
<1>. QED  BY <1>1, <1>2, PTL DEF Catalog!WebCatalogSpec

-----------------------------------------------------------------------------
(* The web application.                                                    *)

(* The pages share no state: each does what its own specification allows.  *)
LEMMA PagesImplementEach ==
  PagesSpec => Catalog!WebCatalogSpec /\ GrantsPage!WebGrantsSpec /\ Demo!WebDemoSpec
<1>1. PagesInit => Catalog!WebCatalogInit /\ GrantsPage!WebGrantsInit /\ Demo!WebDemoInit
  BY DEF PagesInit
<1>2. [PagesNext]_<<page, catalogState, grantsState, demoState>> =>
        /\ [Catalog!WebCatalogNext]_(Catalog!catalogVars)
        /\ [GrantsPage!WebGrantsNext]_(GrantsPage!grantsVars)
        /\ [Demo!WebDemoNext]_(Demo!demoVars)
  BY DEF PagesNext, catalogState, grantsState, demoState, Catalog!catalogVars, Catalog!pageVars,
         GrantsPage!grantsVars, GrantsPage!pageVars, Demo!demoVars
<1>. QED
  BY <1>1, <1>2, PTL
  DEF PagesSpec, Catalog!WebCatalogSpec, GrantsPage!WebGrantsSpec, Demo!WebDemoSpec

(* A confirm of the catalog page (catalog/page.tsx) goes out under the     *)
(* transaction whose search has found the offer.                           *)
THEOREM GrantsAreOfTheirSearch == PagesSpec => []GrantOfItsSearch
<1>1. CatalogInv => GrantOfItsSearch
  BY DEF CatalogInv, GrantOfItsSearch
<1>. QED  BY <1>1, PagesImplementEach, CatalogInvariant, PTL

(* localStorage holds the latest grants, each once and in order.           *)
THEOREM LatestAreHeld == PagesSpec => []HeldAreTheLatest
<1>1. CatalogInv => HeldAreTheLatest
  BY DEF CatalogInv, HeldAreTheLatest
<1>. QED  BY <1>1, PagesImplementEach, CatalogInvariant, PTL

(* A row that says REVOKED is right, and a download begun from it is       *)
(* refused.                                                                *)
THEOREM FlippedAreAlwaysRefused == PagesSpec => []FlippedMeansRefused
<1>1. GrantsPageInv => FlippedMeansRefused
  BY DEF GrantsPageInv, RowsAreTrue, FlippedAreRefused, FlippedMeansRefused,
         GrantsPage!FlippedMeansRefused
<1>. QED  BY <1>1, PagesImplementEach, GrantsPageInvariant, PTL

(* The demo shows what the Access Manager has recorded, and never serves   *)
(* its last download.                                                      *)
THEOREM DemoShowsWhatIs == PagesSpec => []ShownIsRecorded
<1>1. DemoInv => ShownIsRecorded
  BY DEF DemoInv, ShownIsRecorded
<1>. QED  BY <1>1, PagesImplementEach, DemoInvariant, PTL

(* A disabled button waits for a handler on its way, and the demo always   *)
(* offers a next step while nothing has failed.                            *)
THEOREM PagesAreNotStuck == PagesSpec => []NoPageIsStuck
<1>1. CatalogInv /\ GrantsPageInv /\ DemoInv => NoPageIsStuck
  BY DemoIsNotStuck DEF CatalogInv, GrantsPageInv, DemoInv, NoPageIsStuck
<1>. QED  BY <1>1, PagesImplementEach, CatalogInvariant, GrantsPageInvariant, DemoInvariant, PTL
=============================================================================
