---------------------------- MODULE AccessGrant ----------------------------
(***************************************************************************)
(* The access grant: the signed claims the Access Manager mints and the    *)
(* offline half of their verification at the data holder                   *)
(* (packages/beckn-schemas/src/grant.ts).                                  *)
(*                                                                         *)
(* A grant that does not parse, or whose signature does not verify, is     *)
(* refused before anything else is looked at and changes no state; what is *)
(* modelled here starts where `claims` are known to be the issuer's own.   *)
(***************************************************************************)
EXTENDS Integers

CONSTANTS
  BPPs,        \* subscriber ids of the data holders (BPPs)
  Resources,   \* resourceIds of the catalogs
  Offers,      \* their offerIds
  Fields,      \* field names a `subset` scope can list
  Skew,        \* clockSkewSeconds of a BPP
  None         \* an absent optional value

ASSUME SkewAssumption == Skew \in Nat
ASSUME NoneIsNoNumber == None \notin Int

Kinds == {"full", "sample", "subset"}

(* maxDownloads is a positive integer or undefined; only `subset` needs a  *)
(* list of fields, and it must not be empty.                               *)
GrantScope ==
  { s \in [kind : Kinds, fields : SUBSET Fields,
           maxDownloads : (Nat \ {0}) \cup {None}] :
      s.kind = "subset" => s.fields # {} }

(* What the BAP asks the Access Manager for.                               *)
IssueGrantRequest ==
  [bpp : BPPs, resource : Resources, offer : Offers, scope : GrantScope,
   ttl : Nat \ {0}]

(* The signed claims the rest of the system reads.                         *)
AccessGrantClaims ==
  { c \in [bpp : BPPs, resource : Resources, offer : Offers,
           scope : GrantScope, notBefore : Nat, expiresAt : Nat] : c.notBefore <= c.expiresAt }

ASSUME NoneIsNoClaims == None \notin AccessGrantClaims

(* What a caller of /download asks one BPP for; the offer and the fields   *)
(* are optional parameters of the query.                                   *)
DownloadRequest ==
  [bpp : BPPs, resource : Resources, offer : Offers \cup {None},
   fields : (SUBSET Fields) \cup {None}]

(* Defect: no tolerance for a clock that is behind.                        *)
NotYetValidDefect(c, at) == at < c.notBefore
NotYetValid(c, at) == at + Skew < c.notBefore
Expired(c, at) == at - Skew > c.expiresAt
WrongProvider(c, req) == c.bpp # req.bpp
WrongResource(c, req) ==
  \/ c.resource # req.resource
  \/ req.offer # None /\ c.offer # req.offer
ScopeInsufficient(c, req) ==
  /\ c.scope.kind = "subset"
  /\ req.fields # None
  /\ ~ req.fields \subseteq c.scope.fields

(* The verdict of verifyGrant on claims c, read at `at` on the clock of    *)
(* the BPP that got the request; the first test that fails names it.       *)
VerifyGrant(c, at, req) ==
  IF NotYetValid(c, at) THEN "not-yet-valid"
  ELSE IF Expired(c, at) THEN "expired"
  ELSE IF WrongProvider(c, req) THEN "wrong-provider"
  ELSE IF WrongResource(c, req) THEN "wrong-resource"
  ELSE IF ScopeInsufficient(c, req) THEN "scope-insufficient"
  ELSE "ok"

Verdicts == {"ok", "not-yet-valid", "expired", "wrong-provider",
             "wrong-resource", "scope-insufficient"}
=============================================================================
