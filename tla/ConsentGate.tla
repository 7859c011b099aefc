---------------------------- MODULE ConsentGate ----------------------------
(***************************************************************************)
(* What the Access Manager and the BPPs promise together, with no          *)
(* database, transaction, lock, connection or clock in sight.              *)
(*                                                                         *)
(* Consent is given once and withdrawn once, at one instant.  A visitor    *)
(* who wants a file is admitted at an instant at which consent stands, and *)
(* is then served at most as often as the consent allows.  A visitor may   *)
(* be turned away at any time.                                             *)
(***************************************************************************)
EXTENDS Integers, FiniteSets

CONSTANTS
  Grants,     \* what a visitor shows
  Visitors,
  Limits,     \* how many visitors a grant may serve: numbers, or None
  None        \* no limit; nothing shown

VARIABLES
  consent,   \* grant -> none, given or withdrawn
  limit,     \* grant -> how many visitors it serves, None for any number
  visit      \* visitor -> the grant it shows and how far it has come

gateVars == <<consent, limit, visit>>

Stages == {"outside", "waiting", "admitted", "served", "away"}

GateTypeOK ==
  /\ consent \in [Grants -> {"none", "given", "withdrawn"}]
  /\ limit \in [Grants -> Limits \cup {None}]
  /\ visit \in [Visitors -> [grant : Grants \cup {None}, stage : Stages]]

GateInit ==
  /\ consent = [g \in Grants |-> "none"]
  /\ limit = [g \in Grants |-> None]
  /\ visit = [v \in Visitors |-> [grant |-> None, stage |-> "outside"]]

ServedVisitors(g) ==
  { v \in Visitors : visit[v].grant = g /\ visit[v].stage = "served" }

Give(g) ==
  /\ consent[g] = "none"
  /\ consent' = [consent EXCEPT ![g] = "given"]
  /\ \E n \in Limits : limit' = [limit EXCEPT ![g] = n]
  /\ UNCHANGED visit

Withdraw(g) ==
  /\ consent[g] = "given"
  /\ consent' = [consent EXCEPT ![g] = "withdrawn"]
  /\ UNCHANGED <<limit, visit>>

(* Only a grant that exists can be shown.                                  *)
Enter(v, g) ==
  /\ visit[v].stage = "outside"
  /\ consent[g] # "none"
  /\ \E stage \in {"waiting", "away"} :
       visit' = [visit EXCEPT ![v] = [grant |-> g, stage |-> stage]]
  /\ UNCHANGED <<consent, limit>>

Admit(v) ==
  /\ visit[v].stage = "waiting"
  /\ consent[visit[v].grant] = "given"
  /\ visit' = [visit EXCEPT ![v].stage = "admitted"]
  /\ UNCHANGED <<consent, limit>>

Serve(v) ==
  LET g == visit[v].grant IN
  /\ visit[v].stage = "admitted"
  /\ limit[g] # None => Cardinality(ServedVisitors(g)) < limit[g]
  /\ visit' = [visit EXCEPT ![v].stage = "served"]
  /\ UNCHANGED <<consent, limit>>

(* Any of those inside leave with nothing.                                 *)
TurnAway ==
  /\ \E leaving \in SUBSET { v \in Visitors : visit[v].stage \in {"waiting", "admitted"} } :
       visit' = [v \in Visitors |->
                   IF v \in leaving THEN [visit[v] EXCEPT !.stage = "away"] ELSE visit[v]]
  /\ UNCHANGED <<consent, limit>>

GateNext ==
  \/ \E g \in Grants : Give(g) \/ Withdraw(g)
  \/ \E v \in Visitors, g \in Grants : Enter(v, g)
  \/ \E v \in Visitors : Admit(v) \/ Serve(v)
  \/ TurnAway

GateSpec == GateInit /\ [][GateNext]_gateVars
=============================================================================
