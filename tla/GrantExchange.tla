--------------------------- MODULE GrantExchange ---------------------------
(***************************************************************************)
(* The consent gate as it is deployed: the Access Manager and the BPPs     *)
(* interleaved on the shared database, and what the gate must guarantee.   *)
(***************************************************************************)
EXTENDS AccessManager, Redemption

vars == <<sharedVars, amVars, redemptionVars>>

Init == SharedInit /\ AMInit /\ RedemptionInit

Next ==
  \/ AMNext /\ UNCHANGED redemptionVars
  \/ RedemptionNext /\ UNCHANGED amVars
  \/ Tick /\ UNCHANGED <<amVars, redemptionVars>>

Spec == Init /\ [][Next]_vars

(* The values of the variables.                                            *)
TypeOK == SharedTypeOK /\ AMTypeOK /\ RedemptionTypeOK

(* The inductive invariant of the whole.                                   *)
ExchangeInv == AMInv /\ RedemptionInv

-----------------------------------------------------------------------------
(* The gate this system implements.  Consent is given when the row of the  *)
(* grant is committed, withdrawn when the row of the revocation table is,  *)
(* and a download is admitted when the SELECT of isRevoked finds nothing.  *)
GateConsent ==
  [g \in Grants |-> IF g \in revocations THEN "withdrawn"
                    ELSE IF ledger[g] = "ABSENT" THEN "none" ELSE "given"]

GateLimit == [g \in Grants |-> IF ledger[g] = "ABSENT" THEN None ELSE CapOf(g)]

Stage(step) ==
  CASE step = "idle" -> "outside"
    [] step = "verified" -> "waiting"
    [] step \in {"checked", "reserved"} -> "admitted"
    [] step = "served" -> "served"
    [] step \in {"refused", "error"} -> "away"

GateVisit ==
  [d \in Downloads |-> [grant |-> download[d].grant, stage |-> Stage(download[d].pc)]]

Gate == INSTANCE ConsentGate WITH
  Visitors <- Downloads, Limits <- { req.scope.maxDownloads : req \in Requests },
  consent <- GateConsent, limit <- GateLimit, visit <- GateVisit

(* The interleaved transactions, sweeps, downloads and failures look like  *)
(* consent given and withdrawn at one instant, and nobody is admitted at   *)
(* an instant without consent or served beyond the cap.                    *)
ImplementsGate == Gate!GateSpec
=============================================================================
