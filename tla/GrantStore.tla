----------------------------- MODULE GrantStore -----------------------------
(***************************************************************************)
(* What the Access Manager and the BPPs share: time, the grants that were  *)
(* signed, the grants a consumer can present, and the table                *)
(* grant_revocations of the Postgres database both services connect to.    *)
(***************************************************************************)
EXTENDS AccessGrant, FiniteSets

CONSTANTS
  Grants,     \* grant ids; each is minted by at most one request
  Requests,   \* the issue requests the BAP sends
  MaxTime,    \* bound: the clock stops here
  MaxDrift,   \* how far a BPP's clock may be from the Access Manager's
  MaxFaults   \* bound: failures and crashes in one behaviour

ASSUME RequestsAssumption == Requests \subseteq IssueGrantRequest
ASSUME BoundsAssumption ==
  MaxTime \in Nat /\ MaxDrift \in Nat /\ MaxFaults \in Nat

VARIABLES
  now,          \* seconds on the Access Manager's clock
  faults,       \* failures and crashes so far
  claims,       \* grant -> the claims signed under its id, or None
  held,         \* grants whose signed artifact has left the Access Manager
  revocations   \* committed rows of the table grant_revocations

sharedVars == <<now, faults, claims, held, revocations>>

SharedTypeOK ==
  /\ now \in 0..MaxTime
  /\ faults \in 0..MaxFaults
  /\ claims \in [Grants -> AccessGrantClaims \cup {None}]
  /\ held \subseteq Grants
  /\ revocations \subseteq Grants

SharedInit ==
  /\ now = 0
  /\ faults = 0
  /\ claims = [g \in Grants |-> None]
  /\ held = {}
  /\ revocations = {}

(* What the clock of a BPP may show.                                       *)
BppClock == (now - MaxDrift)..(now + MaxDrift)

Tick ==
  /\ now < MaxTime
  /\ now' = now + 1
  /\ UNCHANGED <<faults, claims, held, revocations>>

(* A failure of the environment: a query that throws, a reply that is      *)
(* lost, a process that dies.                                              *)
Fault ==
  /\ faults < MaxFaults
  /\ faults' = faults + 1
=============================================================================
