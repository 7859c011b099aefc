----------------------------- MODULE BppCatalog -----------------------------
(***************************************************************************)
(* The catalog of a BPP and the callbacks it builds from it                *)
(* (services/bpp/src/catalog.ts, beckn/builders.ts): pure functions of the *)
(* catalog and the message.  Text is what a query can tell of it: the set  *)
(* of queries it contains.                                                 *)
(***************************************************************************)
EXTENDS AccessGrant, Sequences

CONSTANTS
  CatalogOf,   \* BPP -> its catalog
  Queries      \* free-text queries

(* packages/beckn-schemas/src/domain.ts                                    *)
Enum ==
  [kind |-> {"dataset", "model"},
   licenseClass |-> {"permissive", "research-only", "no-redistribution"},
   modality |-> {"tabular", "text", "image", "audio", "timeseries", "geospatial",
                 "multimodal"},
   taskType |-> {"classification", "regression", "forecasting", "clustering",
                 "generation", "detection", "segmentation", "recommendation", "other"}]

(* An offer as Catalog.parse lets it pass: the overlay attributes and the  *)
(* row count may be missing (None), the file may be (its name is None).    *)
Offer ==
  [resources : Seq(Resources), kind : Enum.kind \cup {None},
   modality : Enum.modality \cup {None}, taskType : Enum.taskType \cup {None},
   licenseClass : Enum.licenseClass \cup {None}, rows : Nat \cup {None},
   text : SUBSET Queries, full : STRING \cup {None}, sample : STRING \cup {None}]

(* offers is a function on the ids of the catalog's own offers.            *)
Catalog(c) ==
  /\ c.bppId \in BPPs \cup {None}
  /\ DOMAIN c.offers \subseteq Offers
  /\ \A o \in DOMAIN c.offers : c.offers[o] \in Offer

ASSUME CatalogAssumption == \A b \in BPPs : Catalog(CatalogOf[b])

GetOffer(b, o) == CatalogOf[b].offers[o]
Known(b, o) == o \in DOMAIN CatalogOf[b].offers

NoIntent ==
  [kind |-> None, modality |-> None, taskType |-> None, licenseClass |-> None,
   minRows |-> None, query |-> None]

(* SearchIntent.safeParse                                                  *)
Parses(intent) ==
  /\ \A field \in DOMAIN Enum : intent[field] \in Enum[field] \cup {None}
  /\ intent.minRows = None \/ intent.minRows > 0

(* What a discover message asks for; descriptor.name stands in for query.  *)
ExtractIntent(message) ==
  LET candidate ==
        [f \in DOMAIN NoIntent |->
           IF f = "query" /\ message.query = None THEN message.name ELSE message[f]]
  IN IF Parses(candidate) THEN candidate ELSE NoIntent

(* Defect: a data set of exactly minRows rows is left out.                 *)
MatchesDefect(offer, intent) ==
  /\ \A field \in DOMAIN Enum : intent[field] \in {None, offer[field]}
  /\ intent.minRows # None =>
       intent.minRows < IF offer.rows = None THEN 0 ELSE offer.rows
  /\ intent.query \in offer.text \cup {None}

Matches(offer, intent) ==
  /\ \A field \in DOMAIN Enum : intent[field] \in {None, offer[field]}
  /\ intent.minRows # None =>
       intent.minRows <= IF offer.rows = None THEN 0 ELSE offer.rows
  /\ intent.query \in offer.text \cup {None}

(* search and buildOnDiscover: the offers of the callback.                 *)
OnDiscover(b, message) ==
  { o \in DOMAIN CatalogOf[b].offers : Matches(GetOffer(b, o), ExtractIntent(message)) }

(* The first id the message has, in the contract, the order or by itself.  *)
ExtractOfferId(message) ==
  CASE message.contract # None -> message.contract
    [] message.contract = None /\ message.order # None -> message.order
    [] OTHER -> message.offerId

FirstResource(b, o) ==
  IF Known(b, o) /\ GetOffer(b, o).resources # <<>> THEN GetOffer(b, o).resources[1]
  ELSE None

(* A contract comes back for an unknown offer as well, committing to none. *)
BaseContract(b, o, status) ==
  [status |-> status, commitments |-> IF Known(b, o) THEN {o} ELSE {}, accessUrl |-> None]

OnSelect(b, message) == BaseContract(b, ExtractOfferId(message), "DRAFT")
OnInit(b, message) == BaseContract(b, ExtractOfferId(message), "ACTIVE")

(* Defect: the resource in the URL is the last of the offer.               *)
OnConfirmDefect(b, message) ==
  LET o == ExtractOfferId(message) IN
  [BaseContract(b, o, "ACTIVE") EXCEPT !.accessUrl =
     [bpp |-> b, offer |-> o,
      resource |-> IF FirstResource(b, o) = None THEN None
                   ELSE GetOffer(b, o).resources[Len(GetOffer(b, o).resources)]]]

(* The access URL names the download endpoint of this BPP, the offer, and  *)
(* its first resource.                                                     *)
OnConfirm(b, message) ==
  LET o == ExtractOfferId(message) IN
  [BaseContract(b, o, "ACTIVE") EXCEPT !.accessUrl =
     [bpp |-> b, offer |-> o, resource |-> FirstResource(b, o)]]

(* Defect: an offer without files gets those of another.                   *)
ResolveFileDefect(b, o, scopeKind) ==
  IF Known(b, o) /\ GetOffer(b, o).full # None THEN GetOffer(b, o).full
  ELSE GetOffer(b, CHOOSE p \in DOMAIN CatalogOf[b].offers : TRUE).full

(* The file of an offer, or None; a sample falls back to the full file.    *)
ResolveFile(b, o, scopeKind) ==
  IF ~Known(b, o) THEN None
  ELSE IF scopeKind = "sample" /\ GetOffer(b, o).sample # None THEN GetOffer(b, o).sample
  ELSE GetOffer(b, o).full
=============================================================================
