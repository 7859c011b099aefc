--------------------------- MODULE Journey_proofs ---------------------------
(***************************************************************************)
(* Proofs about Journey: for any catalogs that parse, any messages and any *)
(* offers somebody names, a search shows what was asked for, and what it   *)
(* shows can be granted and downloaded, and nothing else.                  *)
(***************************************************************************)
EXTENDS Journey, TLAPS

-----------------------------------------------------------------------------
(* What the catalogs' schema says of one offer.                            *)
LEMMA OffersParse ==
  ASSUME NEW b \in BPPs, NEW o \in DOMAIN CatalogOf[b].offers
  PROVE  /\ o \in Offers
         /\ GetOffer(b, o) \in Offer
         /\ Known(b, o)
BY CatalogAssumption DEF Catalog, GetOffer, Known

(* The first resource of an offer is one of the network's, if there is one.*)
LEMMA FirstResourceType ==
  ASSUME NEW b \in BPPs, NEW o
  PROVE  /\ FirstResource(b, o) \in Resources \cup {None}
         /\ Known(b, o) /\ GetOffer(b, o).resources # <<>> => FirstResource(b, o) \in Resources
<1>1. CASE Known(b, o) /\ GetOffer(b, o).resources # <<>>
  <2>1. GetOffer(b, o).resources \in Seq(Resources)
    BY <1>1, OffersParse DEF Known, Offer
  <2>2. GetOffer(b, o).resources[1] \in Resources
    BY <1>1, <2>1
  <2>. QED  BY <1>1, <2>2 DEF FirstResource
<1>2. CASE ~(Known(b, o) /\ GetOffer(b, o).resources # <<>>)
  BY <1>2 DEF FirstResource
<1>. QED  BY <1>1, <1>2

(* A message with an intent in order: the BPPs look for what it says.      *)
LEMMA IntentIsUnderstood ==
  ASSUME NEW m \in Messages, m.name = None,
         \A f \in DOMAIN Enum : m[f] \in Enum[f] \cup {None},
         m.minRows = None \/ m.minRows > 0
  PROVE  ExtractIntent(m) = [f \in DOMAIN NoIntent |-> m[f]]
<1>. DEFINE candidate == [f \in DOMAIN NoIntent |->
                IF f = "query" /\ m.query = None THEN m.name ELSE m[f]]
<1>1. candidate = [f \in DOMAIN NoIntent |-> m[f]]
  OBVIOUS
<1>2. Parses(candidate)
  <2>1. DOMAIN Enum \subseteq DOMAIN NoIntent /\ "minRows" \in DOMAIN NoIntent
    BY DEF Enum, NoIntent
  <2>. QED  BY <1>1, <2>1 DEF Parses
<1>3. ExtractIntent(m) = candidate
  BY <1>2 DEF ExtractIntent
<1>. QED  BY <1>1, <1>3

(* What a minimum of rows asks of an offer, given and positive.            *)
LEMMA RowsCompared ==
  ASSUME NEW rows \in Nat \cup {None}, NEW minimum \in Int, minimum > 0
  PROVE  minimum <= (IF rows = None THEN 0 ELSE rows) <=> rows # None /\ rows >= minimum
BY NoneIsNoNumber

(* The BPPs look an intent up field by field: the offers found are those   *)
(* that satisfy every field that is given.                                 *)
LEMMA MatchesAreSatisfied ==
  ASSUME message \in Messages, NEW b \in BPPs, NEW o \in DOMAIN CatalogOf[b].offers,
         \A f \in GivenFields : WellFormed(f)
  PROVE  Matches(GetOffer(b, o), [f \in DOMAIN NoIntent |-> message[f]])
           <=> \A f \in GivenFields : Satisfies(GetOffer(b, o), f)
<1>. DEFINE offer == GetOffer(b, o)
            intent == [f \in DOMAIN NoIntent |-> message[f]]
            Intended == {"kind", "modality", "taskType", "licenseClass"}
<1>1. offer \in Offer
  BY OffersParse
<1>2. DOMAIN NoIntent = Intended \cup {"minRows", "query"} /\ DOMAIN Enum = Intended
  BY DEF NoIntent, Enum
<1>3. \A f \in DOMAIN NoIntent : intent[f] = message[f]
  OBVIOUS
<1>4. (\A f \in DOMAIN Enum : intent[f] \in {None, offer[f]})
        <=> \A f \in Intended : f \in GivenFields => Satisfies(offer, f)
  BY <1>2, <1>3 DEF GivenFields, Given, Satisfies
<1>5. (intent.minRows # None =>
         intent.minRows <= IF offer.rows = None THEN 0 ELSE offer.rows)
        <=> ("minRows" \in GivenFields => Satisfies(offer, "minRows"))
  <2>1. intent.minRows = message.minRows /\ message.minRows \in Int \cup {None}
    BY <1>2, <1>3, JourneyAssumption
  <2>2. CASE message.minRows = None
    BY <2>1, <2>2 DEF GivenFields, Given
  <2>3. CASE message.minRows # None
    <3>1. "minRows" \in GivenFields
      BY <1>2, <2>3 DEF GivenFields, Given
    <3>2. message.minRows > 0
      BY <3>1 DEF WellFormed
    <3>3. offer.rows \in Nat \cup {None}
      BY <1>1 DEF Offer
    <3>4. Satisfies(offer, "minRows") <=> offer.rows # None /\ offer.rows >= message.minRows
      BY DEF Satisfies
    <3>. QED  BY <2>1, <2>3, <3>1, <3>2, <3>3, <3>4, RowsCompared
  <2>. QED  BY <2>2, <2>3
<1>6. intent.query \in offer.text \cup {None}
        <=> ("query" \in GivenFields => Satisfies(offer, "query"))
  BY <1>2, <1>3 DEF GivenFields, Given, Satisfies
<1>7. GivenFields \subseteq Intended \cup {"minRows", "query"}
  BY <1>2 DEF GivenFields
<1>. QED  BY <1>4, <1>5, <1>6, <1>7 DEF Matches

-----------------------------------------------------------------------------
(* The inductive invariant.                                                *)

(* What is offered is what the BPPs found in their catalogs.               *)
FoundIsOffered ==
  stage # "searching" => \A b \in BPPs : offered[b] = OnDiscover(b, message)

Picked(p) ==
  \E scope \in Scopes, b \in BPPs : \E o \in offered[b] :
    p = [ref |-> OfferRef(b, o), scope |-> scope, from |-> b]

Strayed(p) ==
  \E scope \in Scopes, s \in Strays :
    p = [ref |-> StrayRef(s[1], s[2]), scope |-> scope, from |-> None]

(* A consumer confirms an offer it was shown or one it has made up.        *)
ParamsAreChosen ==
  stage \in Stages \ {"searching", "offered"} => Picked(params) \/ Strayed(params)

RefusedIsUnacceptable == stage = "refused" => ~Acceptable(params)

(* What was confirmed was acceptable, and contract and grant are both made *)
(* of the offer that was confirmed.                                        *)
GrantFitsContract ==
  LET ref == params.ref IN
  stage \in {"confirmed", "ended"} =>
    /\ Acceptable(params)
    /\ contract = OnConfirm(ref.bppId, ContractMessage(ref.offer))
    /\ grant = [bpp |-> ref.bppId, resource |-> ref.resource, offer |-> ref.offer,
                scope |-> params.scope, notBefore |-> Now, expiresAt |-> Now + Hour]

(* The request that the access URL of the contract stands for.             *)
RequestOf(url) ==
  [bpp |-> url.bpp, resource |-> url.resource, offer |-> url.offer, fields |-> None]

FileIsResolved ==
  LET url == contract.accessUrl IN
  IF stage # "ended" THEN file = None
  ELSE file = IF url.resource # None /\ VerifyGrant(grant, Now, RequestOf(url)) = "ok"
              THEN ResolveFile(url.bpp, grant.offer, grant.scope.kind) ELSE None

JourneyInv ==
  /\ JourneyTypeOK
  /\ FoundIsOffered
  /\ ParamsAreChosen
  /\ RefusedIsUnacceptable
  /\ GrantFitsContract
  /\ FileIsResolved

-----------------------------------------------------------------------------
(* A BPP answers a search with offers of its own.                          *)
LEMMA FoundAreOwn ==
  ASSUME NEW b, NEW m
  PROVE  OnDiscover(b, m) \subseteq DOMAIN CatalogOf[b].offers
BY DEF OnDiscover

(* Whatever is confirmed, and accepted, is granted for an offer and a      *)
(* resource there are.                                                     *)
LEMMA AcceptedIsTyped ==
  ASSUME JourneyTypeOK, Picked(params) \/ Strayed(params), Acceptable(params)
  PROVE  /\ params.ref.bppId \in BPPs
         /\ params.ref.resource \in Resources
         /\ params.ref.offer \in Offers
         /\ params.scope \in GrantScope
<1>1. CASE Picked(params)
  <2>1. PICK scope \in Scopes, b \in BPPs :
               \E o \in offered[b] :
                 params = [ref |-> OfferRef(b, o), scope |-> scope, from |-> b]
    BY <1>1 DEF Picked
  <2>2. PICK o \in offered[b] :
               params = [ref |-> OfferRef(b, o), scope |-> scope, from |-> b]
    BY <2>1
  <2>3. o \in Offers
    BY OffersParse DEF JourneyTypeOK
  <2>4. FirstResource(b, o) \in Resources \cup {None}
    BY FirstResourceType
  <2>. QED  BY <2>2, <2>3, <2>4 DEF Acceptable, OfferRef
<1>2. CASE Strayed(params)
  <2>1. PICK scope \in Scopes, s \in Strays :
               params = [ref |-> StrayRef(s[1], s[2]), scope |-> scope, from |-> None]
    BY <1>2 DEF Strayed
  <2>2. s[2] \in Offers /\ (CHOOSE r \in Resources : TRUE) \in Resources
    BY JourneyAssumption
  <2>. QED  BY <2>1, <2>2 DEF Acceptable, StrayRef
<1>. QED  BY <1>1, <1>2

LEMMA GrantIsTyped ==
  ASSUME NEW p, p.ref.bppId \in BPPs, p.ref.resource \in Resources,
         p.ref.offer \in Offers, p.scope \in GrantScope
  PROVE  [bpp |-> p.ref.bppId, resource |-> p.ref.resource, offer |-> p.ref.offer,
          scope |-> p.scope, notBefore |-> Now, expiresAt |-> Now + Hour]
            \in AccessGrantClaims
BY DEF AccessGrantClaims, Now, Hour

LEMMA JourneyInit_Inv == JourneyInit => JourneyInv
BY DEF JourneyInit, JourneyInv, JourneyTypeOK, Stages, FoundIsOffered, ParamsAreChosen,
       RefusedIsUnacceptable, GrantFitsContract, FileIsResolved

LEMMA Discover_Inv == JourneyInv /\ Discover => JourneyInv'
BY FoundAreOwn
DEF JourneyInv, Discover, JourneyTypeOK, Stages, FoundIsOffered, ParamsAreChosen,
    RefusedIsUnacceptable, GrantFitsContract, FileIsResolved

LEMMA Choose_Inv == JourneyInv /\ Choose => JourneyInv'
<1>. SUFFICES ASSUME JourneyInv, Choose PROVE JourneyInv'
  OBVIOUS
<1>1. Picked(params') \/ Strayed(params')
  BY DEF Choose, Picked, Strayed
<1>2. ParamsAreChosen'
  BY <1>1 DEF Choose, ParamsAreChosen, Picked, Strayed
<1>3. (JourneyTypeOK /\ FoundIsOffered)'
  BY DEF JourneyInv, Choose, JourneyTypeOK, Stages, FoundIsOffered
<1>4. (RefusedIsUnacceptable /\ GrantFitsContract /\ FileIsResolved)'
  BY DEF JourneyInv, Choose, RefusedIsUnacceptable, GrantFitsContract, FileIsResolved
<1>. QED  BY <1>2, <1>3, <1>4 DEF JourneyInv

(* The steps after the choice leave it alone.                              *)
LEMMA ChoiceStays ==
  ASSUME JourneyInv, stage = "confirming" \/ stage = "confirmed", stage' \in Stages,
         UNCHANGED <<message, offered, params>>
  PROVE  /\ FoundIsOffered' /\ ParamsAreChosen'
         /\ Picked(params) \/ Strayed(params)
BY DEF JourneyInv, FoundIsOffered, ParamsAreChosen, Picked, Strayed, Stages

LEMMA Refuse_Inv == JourneyInv /\ Refuse => JourneyInv'
<1>. SUFFICES ASSUME JourneyInv, Refuse PROVE JourneyInv'
  OBVIOUS
<1>1. FoundIsOffered' /\ ParamsAreChosen'
  BY ChoiceStays DEF Refuse, Stages
<1>. QED  BY <1>1 DEF JourneyInv, Refuse, JourneyTypeOK, Stages, Acceptable,
                      RefusedIsUnacceptable, GrantFitsContract, FileIsResolved

LEMMA Negotiate_Inv == JourneyInv /\ Negotiate => JourneyInv'
<1>. SUFFICES ASSUME JourneyInv, Negotiate PROVE JourneyInv'
  OBVIOUS
<1>1. FoundIsOffered' /\ ParamsAreChosen'
  BY ChoiceStays DEF Negotiate, Stages
<1>. QED  BY <1>1 DEF JourneyInv, Negotiate, JourneyTypeOK, Stages,
                      RefusedIsUnacceptable, GrantFitsContract, FileIsResolved

LEMMA Confirm_Inv == JourneyInv /\ Confirm => JourneyInv'
<1>. SUFFICES ASSUME JourneyInv, Confirm PROVE JourneyInv'
  OBVIOUS
<1>1. FoundIsOffered' /\ ParamsAreChosen' /\ (Picked(params) \/ Strayed(params))
  BY ChoiceStays DEF Confirm, Stages
<1>2. GrantFitsContract'
  BY DEF Confirm, GrantFitsContract, Acceptable
<1>3. grant' \in AccessGrantClaims
  BY <1>1, AcceptedIsTyped, GrantIsTyped DEF Confirm, JourneyInv
<1>4. JourneyTypeOK'
  BY <1>3 DEF JourneyInv, Confirm, JourneyTypeOK, Stages
<1>. QED  BY <1>1, <1>2, <1>4 DEF JourneyInv, Confirm, RefusedIsUnacceptable, FileIsResolved

LEMMA Download_Inv == JourneyInv /\ Download => JourneyInv'
<1>. SUFFICES ASSUME JourneyInv, Download PROVE JourneyInv'
  OBVIOUS
<1>1. FoundIsOffered' /\ ParamsAreChosen'
  BY ChoiceStays DEF Download, Stages
<1>2. JourneyTypeOK' /\ RefusedIsUnacceptable'
  BY DEF JourneyInv, Download, JourneyTypeOK, Stages, RefusedIsUnacceptable
<1>3. GrantFitsContract'
  BY DEF JourneyInv, Download, GrantFitsContract, Acceptable
<1>4. FileIsResolved'
  BY DEF Download, FileIsResolved, RequestOf
<1>. QED  BY <1>1, <1>2, <1>3, <1>4 DEF JourneyInv

(* At every stage of a journey, what the consumer holds was made of what   *)
(* it was offered.                                                         *)
THEOREM JourneyInvariant == JourneySpec => []JourneyInv
<1>1. JourneyInv /\ [JourneyNext]_journeyVars => JourneyInv'
  <2>. SUFFICES ASSUME JourneyInv, [JourneyNext]_journeyVars PROVE JourneyInv'
    OBVIOUS
  <2>1. CASE UNCHANGED journeyVars
    BY <2>1 DEF journeyVars, JourneyInv, JourneyTypeOK, FoundIsOffered, ParamsAreChosen,
                Picked, Strayed, RefusedIsUnacceptable, GrantFitsContract, FileIsResolved,
                Acceptable
  <2>. QED  BY <2>1, Discover_Inv, Choose_Inv, Refuse_Inv, Negotiate_Inv, Confirm_Inv,
               Download_Inv DEF JourneyNext
<1>. QED  BY <1>1, JourneyInit_Inv, PTL DEF JourneySpec

-----------------------------------------------------------------------------
(* Where every given field of a message is in order, a search shows        *)
(* exactly the offers of the network that satisfy all of them.             *)
THEOREM SearchesHonourIntents == JourneySpec => []SearchHonoursIntent
<1>1. ASSUME JourneyInv
      PROVE  SearchHonoursIntent
  <2>. SUFFICES ASSUME stage = "offered", message.name = None,
                       \A f \in GivenFields : WellFormed(f), NEW b \in BPPs
                PROVE  offered[b] = { o \in DOMAIN CatalogOf[b].offers :
                                        \A f \in GivenFields : Satisfies(GetOffer(b, o), f) }
    BY DEF SearchHonoursIntent
  <2>1. message \in Messages /\ offered[b] = OnDiscover(b, message)
    BY <1>1 DEF JourneyInv, JourneyTypeOK, FoundIsOffered
  <2>2. ExtractIntent(message) = [f \in DOMAIN NoIntent |-> message[f]]
    <3>1. \A f \in DOMAIN Enum : message[f] \in Enum[f] \cup {None}
      BY DEF GivenFields, Given, WellFormed, Enum, NoIntent
    <3>2. message.minRows = None \/ message.minRows > 0
      BY DEF GivenFields, Given, WellFormed, NoIntent
    <3>. QED  BY <2>1, <3>1, <3>2, IntentIsUnderstood
  <2>. QED  BY <2>1, <2>2, MatchesAreSatisfied DEF OnDiscover
<1>. QED  BY <1>1, JourneyInvariant, PTL

(* The access URL of a confirmed contract names the offer that was         *)
(* confirmed, at the BPP that was asked.                                   *)
LEMMA UrlNamesOffer ==
  ASSUME NEW b, NEW o \in Offers
  PROVE  OnConfirm(b, ContractMessage(o)).accessUrl
           = [bpp |-> b, offer |-> o, resource |-> FirstResource(b, o)]
<1>1. o # None
  BY JourneyAssumption
<1>2. ExtractOfferId(ContractMessage(o)) = o
  BY <1>1 DEF ExtractOfferId, ContractMessage
<1>. QED  BY <1>2 DEF OnConfirm, BaseContract

(* A complete offer that was shown is accepted and served, whatever scope  *)
(* is asked for.                                                           *)
THEOREM OfferedAreObtainable == JourneySpec => []OfferedIsObtainable
<1>1. ASSUME JourneyInv
      PROVE  OfferedIsObtainable
  <2>. SUFFICES ASSUME stage \in {"refused", "ended"}, params.from # None,
                       Complete(params.from, params.ref.offer), params.scope \in GrantScope
                PROVE  file # None
    BY DEF OfferedIsObtainable
  <2>1. Picked(params)
    BY <1>1 DEF JourneyInv, ParamsAreChosen, Stages, Strayed
  <2>2. PICK b \in BPPs : \E o \in offered[b] :
               params.ref = OfferRef(b, o) /\ params.from = b
    BY <2>1 DEF Picked
  <2>3. PICK o \in offered[b] : params.ref = OfferRef(b, o) /\ params.from = b
    BY <2>2
  <2>4. o \in DOMAIN CatalogOf[b].offers
    BY <1>1 DEF JourneyInv, JourneyTypeOK
  <2>5. params.ref.offer = o /\ params.ref.bppId = b /\ params.ref.resource = FirstResource(b, o)
        /\ params.ref.licenseClass = GetOffer(b, o).licenseClass
    BY <2>3 DEF OfferRef, Complete
  <2>6. Known(b, o) /\ o \in Offers /\ GetOffer(b, o) \in Offer
    BY <2>4, OffersParse
  <2>7. FirstResource(b, o) \in Resources
    BY <2>3, <2>5, <2>6, FirstResourceType DEF Complete
  <2>8. FirstResource(b, o) # None
    BY <2>7, JourneyAssumption
  <2>9. Acceptable(params)
    BY <2>3, <2>5, <2>6, <2>8 DEF Acceptable, Complete, Offer
  <2>10. stage = "ended"
    BY <1>1, <2>9 DEF JourneyInv, RefusedIsUnacceptable
  <2>11. contract.accessUrl = [bpp |-> b, offer |-> o, resource |-> FirstResource(b, o)]
    BY <1>1, <2>5, <2>6, <2>10, UrlNamesOffer DEF JourneyInv, GrantFitsContract
  <2>12. /\ grant.bpp = b /\ grant.resource = FirstResource(b, o) /\ grant.offer = o
         /\ grant.notBefore = Now /\ grant.expiresAt = Now + Hour
    BY <1>1, <2>5, <2>10 DEF JourneyInv, GrantFitsContract
  <2>13. VerifyGrant(grant, Now, RequestOf(contract.accessUrl)) = "ok"
    BY <2>11, <2>12, SkewAssumption
    DEF VerifyGrant, NotYetValid, Expired, WrongProvider, WrongResource, ScopeInsufficient,
        RequestOf, Now, Hour
  <2>14. file = ResolveFile(b, o, grant.scope.kind)
    BY <1>1, <2>8, <2>10, <2>11, <2>12, <2>13 DEF JourneyInv, FileIsResolved
  <2>15. GetOffer(b, o).full # None
    BY <2>3, <2>5 DEF Complete
  <2>. QED  BY <2>6, <2>14, <2>15 DEF ResolveFile
<1>. QED  BY <1>1, JourneyInvariant, PTL

(* Nothing is served but a file of the offer that was confirmed, at the    *)
(* BPP that showed it.                                                     *)
THEOREM ServedAreOffered == JourneySpec => []ServedIsOffered
<1>1. ASSUME JourneyInv
      PROVE  ServedIsOffered
  <2>. SUFFICES ASSUME file # None
                PROVE  /\ Known(grant.bpp, grant.offer)
                       /\ LET offer == GetOffer(grant.bpp, grant.offer)
                          IN file \in {offer.full, offer.sample}
                       /\ params.from # None => params.from = grant.bpp
    BY <1>1 DEF ServedIsOffered, JourneyInv
  <2>1. /\ stage = "ended"
        /\ VerifyGrant(grant, Now, RequestOf(contract.accessUrl)) = "ok"
        /\ file = ResolveFile(contract.accessUrl.bpp, grant.offer, grant.scope.kind)
    BY <1>1 DEF JourneyInv, FileIsResolved
  <2>2. contract.accessUrl.bpp = grant.bpp
    BY <2>1 DEF VerifyGrant, WrongProvider, RequestOf
  <2>3. Known(grant.bpp, grant.offer)
    BY <2>1, <2>2 DEF ResolveFile
  <2>4. LET offer == GetOffer(grant.bpp, grant.offer) IN file \in {offer.full, offer.sample}
    BY <2>1, <2>2 DEF ResolveFile
  <2>5. ASSUME params.from # None
        PROVE  params.from = grant.bpp
    <3>1. Picked(params)
      BY <1>1, <2>1, <2>5 DEF JourneyInv, ParamsAreChosen, Stages, Strayed
    <3>2. PICK b \in BPPs : params.ref.bppId = CatalogOf[b].bppId /\ params.from = b
      BY <3>1 DEF Picked, OfferRef
    <3>3. grant.bpp = params.ref.bppId /\ Acceptable(params)
      BY <1>1, <2>1 DEF JourneyInv, GrantFitsContract
    <3>. QED  BY <3>2, <3>3, JourneyAssumption DEF Acceptable
  <2>. QED  BY <2>3, <2>4, <2>5
<1>. QED  BY <1>1, JourneyInvariant, PTL
=============================================================================
