----------------------------- MODULE DevStores ------------------------------
(***************************************************************************)
(* The Access Manager and a BPP started without DATABASE_URL: both run,    *)
(* each on the in-memory stores of its own process                         *)
(* (services/access-manager/src/stores/memory.ts,                          *)
(* services/bpp/src/stores/memory.ts).  The tables Postgres would share    *)
(* are two maps here, and a restart empties them.                          *)
(***************************************************************************)
EXTENDS Naturals

CONSTANTS
  Grants,      \* grant ids
  Downloads,   \* requests GET /download
  TTL,         \* lifetime of a grant in seconds
  Skew,        \* the BPP's clockSkewSeconds
  Cap,         \* scope.maxDownloads
  MaxClock,    \* bound: the clock stops here
  MaxRestarts, \* bound: how many times a process is restarted
  None

VARIABLES
  now,        \* the clock
  expiresAt,  \* grant -> expiresAt in its signed claims, None before it is issued
  ledger,     \* grant -> status in the Access Manager's map, None if it has no record
  revoked,    \* grants in the BPP's own revocation map
  counts,     \* grant -> counts in the BPP's redemption map, 0 if absent
  download,   \* download -> its grant, step and count
  restarts,   \* restarts so far
  answered,   \* history: grants whose revocation the Access Manager answered
  served      \* history: grant -> files served since the BPP was started

devVars ==
  <<now, expiresAt, ledger, revoked, counts, download, restarts, answered, served>>
amVars == <<expiresAt, ledger, answered>>
bppVars == <<revoked, counts, download, served>>

Statuses == {"ISSUED", "REVOKED", "EXPIRED"}
Idle == [grant |-> None, pc |-> "idle"]

DevTypeOK ==
  /\ now \in 0 .. MaxClock
  /\ expiresAt \in [Grants -> (0 .. (MaxClock + TTL)) \cup {None}]
  /\ ledger \in [Grants -> Statuses \cup {None}]
  /\ revoked \subseteq Grants /\ answered \subseteq Grants
  /\ counts \in [Grants -> Nat] /\ served \in [Grants -> Nat]
  /\ download \in [Downloads ->
       [grant : Grants \cup {None}, pc : {"idle", "verified", "checked", "served", "refused"}]]
  /\ restarts \in 0 .. MaxRestarts

EmptyLedger == [g \in Grants |-> None]
NoCounts == [g \in Grants |-> 0]

DevInit ==
  /\ now = 0 /\ restarts = 0
  /\ expiresAt = [g \in Grants |-> None]
  /\ ledger = EmptyLedger
  /\ revoked = {} /\ answered = {}
  /\ counts = NoCounts /\ served = NoCounts
  /\ download = [d \in Downloads |-> Idle]

Tick ==
  /\ now < MaxClock
  /\ now' = now + 1
  /\ UNCHANGED <<amVars, bppVars, restarts>>

(* POST /grants: the grant is signed, recorded and answered.               *)
Save(g) ==
  /\ expiresAt[g] = None
  /\ expiresAt' = [expiresAt EXCEPT ![g] = now + TTL]
  /\ ledger' = [ledger EXCEPT ![g] = "ISSUED"]
  /\ UNCHANGED <<now, answered, bppVars, restarts>>

(* POST /grants/:id/revoke: 404 without a record; a record is marked, or   *)
(* was already, and the reason is dropped.  Nothing else is written.       *)
Revoke(g) ==
  /\ ledger[g] # None
  /\ ledger' = [ledger EXCEPT ![g] = "REVOKED"]
  /\ answered' = answered \cup {g}
  /\ UNCHANGED <<now, expiresAt, bppVars, restarts>>

(* The expiry sweep.                                                       *)
MarkExpired ==
  /\ ledger' = [g \in Grants |->
       IF ledger[g] = "ISSUED" /\ expiresAt[g] < now THEN "EXPIRED" ELSE ledger[g]]
  /\ UNCHANGED <<now, expiresAt, answered, bppVars, restarts>>

(* GET /download: the signed claims are verified offline.                  *)
Present(d, g) ==
  /\ download[d].pc = "idle"
  /\ expiresAt[g] # None
  /\ download' = [download EXCEPT ![d] =
       [grant |-> g, pc |-> IF now > expiresAt[g] + Skew THEN "refused" ELSE "verified"]]
  /\ UNCHANGED <<now, amVars, revoked, counts, served, restarts>>

(* isRevoked asks the BPP's own map, which nothing in the service writes.  *)
IsRevoked(d) ==
  /\ download[d].pc = "verified"
  /\ download' = [download EXCEPT ![d].pc =
       IF download[d].grant \in revoked THEN "refused" ELSE "checked"]
  /\ UNCHANGED <<now, amVars, revoked, counts, served, restarts>>

(* Defect: the count before this download is compared with the cap.        *)
RecordRedemptionDefect(d) ==
  LET g == download[d].grant
      ok == counts[g] <= Cap
  IN
  /\ download[d].pc = "checked"
  /\ counts' = [counts EXCEPT ![g] = @ + 1]
  /\ download' = [download EXCEPT ![d].pc = IF ok THEN "served" ELSE "refused"]
  /\ served' = IF ok THEN [served EXCEPT ![g] = @ + 1] ELSE served
  /\ UNCHANGED <<now, amVars, revoked, restarts>>

(* recordRedemption: one synchronous read and write of the map, and the    *)
(* comparison of the count it returned with the cap.                       *)
RecordRedemption(d) ==
  LET g == download[d].grant
      next == counts[g] + 1
  IN
  /\ download[d].pc = "checked"
  /\ counts' = [counts EXCEPT ![g] = next]
  /\ download' = [download EXCEPT ![d].pc = IF next > Cap THEN "refused" ELSE "served"]
  /\ served' = IF next > Cap THEN served ELSE [served EXCEPT ![g] = @ + 1]
  /\ UNCHANGED <<now, amVars, revoked, restarts>>

RestartAm ==
  /\ restarts < MaxRestarts
  /\ restarts' = restarts + 1
  /\ ledger' = EmptyLedger
  /\ UNCHANGED <<now, expiresAt, answered, bppVars>>

(* The requests in progress are cut off.                                   *)
RestartBpp ==
  /\ restarts < MaxRestarts
  /\ restarts' = restarts + 1
  /\ revoked' = {} /\ counts' = NoCounts /\ served' = NoCounts
  /\ download' = [d \in Downloads |->
       IF download[d].pc \in {"verified", "checked"}
         THEN [download[d] EXCEPT !.pc = "refused"] ELSE download[d]]
  /\ UNCHANGED <<now, amVars>>

DevNext ==
  \/ Tick \/ MarkExpired \/ RestartAm \/ RestartBpp
  \/ \E g \in Grants : Save(g) \/ Revoke(g)
  \/ \E d \in Downloads : IsRevoked(d) \/ RecordRedemption(d)
  \/ \E d \in Downloads, g \in Grants : Present(d, g)

DevSpec == DevInit /\ [][DevNext]_devVars

-----------------------------------------------------------------------------
(* Between two restarts of the BPP a grant is served at most maxDownloads  *)
(* times, however its downloads interleave and whatever the Access Manager *)
(* forgets.                                                                *)
CapWithinLife == \A g \in Grants : served[g] <= Cap

(* A revocation the Access Manager answered is in its ledger unless it     *)
(* restarted: also one of a grant the sweep had marked EXPIRED.            *)
AnsweredIsRecorded ==
  restarts = 0 => \A g \in answered : ledger[g] = "REVOKED"
=============================================================================
