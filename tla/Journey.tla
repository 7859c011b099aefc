------------------------------ MODULE Journey ------------------------------
(***************************************************************************)
(* One consumer's journey through the network, from a search to a file:    *)
(* every part of it is built by another component from what the part       *)
(* before it carried.  The BPPs answer from their catalogs (BppCatalog),   *)
(* the consumer flattens the answers to offers (recordSearch of the MCP    *)
(* server, flattenOffers of the web), the BAP checks what a confirm names, *)
(* the Access Manager mints what the BAP asks for, and the BPP of the      *)
(* access URL verifies the grant (AccessGrant) and resolves the file.      *)
(* What runs concurrently, or fails, is left to the other modules.         *)
(***************************************************************************)
EXTENDS BppCatalog

CONSTANTS
  Messages,   \* discover messages of consumers
  Scopes,     \* scopes they ask for
  Strays      \* pairs of a BPP and an offer id that no search has shown

(* What is absent is no BPP, resource or offer. A catalog names the BPP    *)
(* that serves it or none, as the seed catalogs and the deployment do.     *)
ASSUME JourneyAssumption ==
  /\ \A m \in Messages : m.minRows \in Int \cup {None}
  /\ \A s \in Strays : s[2] \in Offers /\ Resources # {}
  /\ None \notin BPPs /\ None \notin Resources /\ None \notin Offers
  /\ \A b \in BPPs : CatalogOf[b].bppId \in {b, None}

VARIABLES
  stage,      \* how far the journey is
  message,    \* the discover message
  offered,    \* BPP -> the offers in its on_discover callback
  params,     \* what the consumer confirms
  contract,   \* what the BPP has answered
  grant,      \* the claims the Access Manager has signed
  file        \* what the BPP of the access URL has served

journeyVars == <<stage, message, offered, params, contract, grant, file>>

Now == 0
Hour == 3600

(* The provider is the one the catalog names.                              *)
OfferRef(b, o) ==
  [bppId |-> CatalogOf[b].bppId, offer |-> o, resource |-> FirstResource(b, o),
   licenseClass |-> GetOffer(b, o).licenseClass]

StrayRef(b, o) ==
  [bppId |-> b, offer |-> o, resource |-> CHOOSE r \in Resources : TRUE,
   licenseClass |-> "permissive"]

Stages == {"searching", "offered", "confirming", "refused", "confirmed", "ended"}

JourneyTypeOK ==
  /\ stage \in Stages
  /\ message \in Messages
  /\ \A b \in BPPs : offered[b] \subseteq DOMAIN CatalogOf[b].offers
  /\ stage \in {"confirmed", "ended"} => grant \in AccessGrantClaims

JourneyInit ==
  /\ stage = "searching"
  /\ message \in Messages
  /\ offered = [b \in BPPs |-> {}]
  /\ params = None /\ contract = None /\ grant = None /\ file = None

Discover ==
  /\ stage = "searching"
  /\ offered' = [b \in BPPs |-> OnDiscover(b, message)]
  /\ stage' = "offered"
  /\ UNCHANGED <<message, params, contract, grant, file>>

(* The consumer takes an offer it was shown, with the license class it     *)
(* gives it, or names one of its own.                                      *)
Choose ==
  /\ stage = "offered"
  /\ \E scope \in Scopes :
       \/ \E b \in BPPs : \E o \in offered[b] :
            params' = [ref |-> OfferRef(b, o), scope |-> scope, from |-> b]
       \/ \E s \in Strays :
            params' = [ref |-> StrayRef(s[1], s[2]), scope |-> scope, from |-> None]
  /\ stage' = "confirming"
  /\ UNCHANGED <<message, offered, contract, grant, file>>

(* POST /confirm: what is missing or unknown is a 400.                     *)
Acceptable(p) ==
  /\ p.ref.bppId \in BPPs
  /\ p.ref.resource # None
  /\ p.ref.licenseClass \in Enum.licenseClass
  /\ p.scope \in GrantScope

Refuse ==
  /\ stage = "confirming"
  /\ ~Acceptable(params)
  /\ stage' = "refused"
  /\ UNCHANGED <<message, offered, params, contract, grant, file>>

(* The BAP asks the BPP for select, init and confirm in this form.         *)
ContractMessage(o) == [contract |-> o, order |-> None, offerId |-> None]

(* select and init, which a consumer may call, also again, or leave out.   *)
Negotiate ==
  LET ref == params.ref IN
  /\ stage = "confirming"
  /\ ref.bppId \in BPPs
  /\ contract' \in {OnSelect(ref.bppId, ContractMessage(ref.offer)),
                    OnInit(ref.bppId, ContractMessage(ref.offer))}
  /\ UNCHANGED <<stage, message, offered, params, grant, file>>

(* The BAP confirms with the BPP named and has the grant minted.           *)
Confirm ==
  LET ref == params.ref IN
  /\ stage = "confirming"
  /\ Acceptable(params)
  /\ contract' = OnConfirm(ref.bppId, ContractMessage(ref.offer))
  /\ grant' = [bpp |-> ref.bppId, resource |-> ref.resource, offer |-> ref.offer,
               scope |-> params.scope, notBefore |-> Now, expiresAt |-> Now + Hour]
  /\ stage' = "confirmed"
  /\ UNCHANGED <<message, offered, params, file>>

(* The grant is presented at the access URL of the contract; no resource   *)
(* in it is a 400.                                                         *)
Download ==
  LET url == contract.accessUrl
      request == [bpp |-> url.bpp, resource |-> url.resource, offer |-> url.offer,
                  fields |-> None]
  IN
  /\ stage = "confirmed"
  /\ file' = IF url.resource # None /\ VerifyGrant(grant, Now, request) = "ok"
             THEN ResolveFile(url.bpp, grant.offer, grant.scope.kind) ELSE None
  /\ stage' = "ended"
  /\ UNCHANGED <<message, offered, params, contract, grant>>

JourneyNext == Discover \/ Choose \/ Refuse \/ Negotiate \/ Confirm \/ Download

JourneySpec == JourneyInit /\ [][JourneyNext]_journeyVars

-----------------------------------------------------------------------------
Given(field) == message[field] # None

Satisfies(offer, field) ==
  CASE field = "minRows" -> offer.rows # None /\ offer.rows >= message.minRows
    [] field = "query"   -> message.query \in offer.text
    [] OTHER             -> offer[field] = message[field]

WellFormed(field) ==
  CASE field = "minRows" -> message.minRows > 0
    [] field = "query"   -> TRUE
    [] OTHER             -> message[field] \in Enum[field]

GivenFields == { f \in DOMAIN NoIntent : Given(f) }

(* A search whose every field is well formed shows exactly the offers of   *)
(* the whole network that satisfy all of them.                             *)
SearchHonoursIntent ==
  stage = "offered" /\ message.name = None /\ (\A f \in GivenFields : WellFormed(f)) =>
    \A b \in BPPs : offered[b] =
      { o \in DOMAIN CatalogOf[b].offers :
          \A f \in GivenFields : Satisfies(GetOffer(b, o), f) }

(* An offer is complete when its catalog names its BPP, and it has a       *)
(* resource, a license class and a file.                                   *)
Complete(b, o) ==
  /\ CatalogOf[b].bppId = b
  /\ GetOffer(b, o).resources # <<>>
  /\ GetOffer(b, o).licenseClass # None
  /\ GetOffer(b, o).full # None

(* A complete offer that a search shows can be obtained under every scope  *)
(* there is: the grant minted for it passes the verification at the access *)
(* URL of its contract, and its file is there.                             *)
OfferedIsObtainable ==
  (stage \in {"refused", "ended"} /\ params.from # None) =>
    (Complete(params.from, params.ref.offer) /\ params.scope \in GrantScope => file # None)

(* Every variable keeps its type, and what is served is a file of the very *)
(* offer that was shown, at the BPP that showed it; an offer that no       *)
(* catalog has is granted, but nothing is ever served for it.              *)
ServedIsOffered ==
  /\ JourneyTypeOK
  /\ file # None =>
       /\ Known(grant.bpp, grant.offer)
       /\ LET offer == GetOffer(grant.bpp, grant.offer) IN file \in {offer.full, offer.sample}
       /\ params.from # None => params.from = grant.bpp
=============================================================================
