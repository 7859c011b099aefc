----------------------------- MODULE McpSession -----------------------------
(***************************************************************************)
(* The MCP server (services/mcp-server): the tools an agent calls, the     *)
(* session they share, and the backend they reach through the gateway.     *)
(* Handlers are asynchronous: one step is what a handler does between two  *)
(* awaits, so calls of the tools overlap and answers come in any order.    *)
(*                                                                         *)
(* The backend is what the gateway sees of it: the BAP draws a transaction *)
(* per search and has a grant minted per confirm, the Access Manager lists *)
(* and revokes grants, a BPP serves a grant that is not revoked.           *)
(***************************************************************************)
EXTENDS Naturals, Sequences, SequencesExt, FiniteSets

CONSTANTS
  Calls,          \* calls of tools
  Offers,         \* offer ids
  Licensed,       \* the offers with a license class of the LicenseClass enum
  Transactions,   \* transaction ids the BAP draws
  Grants,         \* grant ids the Access Manager draws
  MaxFaults,      \* bound: backend failures and ends of the session
  None

ASSUME McpAssumption ==
  /\ MaxFaults \in Nat
  /\ None \notin Grants \cup Transactions
  /\ None \notin [offer : Offers, transaction : Transactions]

VARIABLES
  lastTransactionId, offers, grants,   \* class BdcSession
  call,       \* call -> its tool, its arguments, how far it is, its answer
  searches,   \* the answered searches, in the order of recordSearch
  issued,     \* grant -> the offer and transaction it was minted for
  revoked,    \* grants in the revocation table
  faults

sessionVars == <<lastTransactionId, offers, grants>>
backendVars == <<issued, revoked>>
mcpVars == <<sessionVars, call, searches, backendVars, faults>>

Tools == {"search_resources", "view_resource", "request_access", "confirm_access",
          "list_my_grants", "revoke_grant", "download"}

(* transactions: those the call has named to the BAP, in order.  seen: the *)
(* grants a list showed, or those the agent knew to be revoked when it     *)
(* asked for a download.  status: the HTTP status a revocation got.        *)
ToolCall ==
  [tool : Tools \cup {None}, pc : {"idle", "asking", "minted", "ok", "fail"},
   offer : Offers \cup {None}, grant : Grants \cup {None},
   transactions : Seq(Transactions), seen : SUBSET Grants,
   status : {0, 200, 404, 409, 500}]

Idle == [tool |-> None, pc |-> "idle", offer |-> None, grant |-> None,
         transactions |-> <<>>, seen |-> {}, status |-> 0]

GrantRef == [grant : Grants, offer : Offers]

McpTypeOK ==
  /\ lastTransactionId \in Transactions \cup {None}
  /\ offers \subseteq Offers
  /\ grants \in Seq(GrantRef)
  /\ call \in [Calls -> ToolCall]
  /\ searches \in Seq([transaction : Transactions, found : SUBSET Offers])
  /\ issued \in [Grants -> [offer : Offers, transaction : Transactions] \cup {None}]
  /\ revoked \subseteq Grants
  /\ faults \in 0..MaxFaults

McpInit ==
  /\ lastTransactionId = None /\ offers = {} /\ grants = <<>>
  /\ call = [c \in Calls |-> Idle]
  /\ searches = <<>>
  /\ issued = [g \in Grants |-> None]
  /\ revoked = {}
  /\ faults = 0

Fails ==
  /\ faults < MaxFaults
  /\ faults' = faults + 1

Minted == { g \in Grants : issued[g] # None }

(* The grants the agent was told are revoked, by a 200 or a 409 of the AM. *)
ToldRevoked ==
  { call[d].grant : d \in { e \in Calls :
      call[e].tool = "revoke_grant" /\ call[e].pc = "ok" /\ call[e].status # 500 } }

(* The synchronous part of a handler, up to its first await or its answer. *)
Begin(c, tool, pc, offer, grant, transactions) ==
  /\ call[c].pc = "idle"
  /\ call' = [call EXCEPT ![c] =
       [tool |-> tool, pc |-> pc, offer |-> offer, grant |-> grant,
        transactions |-> transactions, status |-> 0,
        seen |-> IF tool = "download" THEN ToldRevoked ELSE {}]]
  /\ UNCHANGED <<sessionVars, searches, backendVars, faults>>

Awaits(c, tool) == call[c].tool = tool /\ call[c].pc = "asking"

(* Bound: no more searches and confirms than there are ids to answer them. *)
IdsLeft(tool, unused) ==
  Cardinality({ c \in Calls : Awaits(c, tool) }) < Cardinality(unused)

Answered == { searches[i].transaction : i \in DOMAIN searches }

-----------------------------------------------------------------------------
(* search_resources                                                        *)

SearchResources(c) ==
  /\ IdsLeft("search_resources", Transactions \ Answered)
  /\ Begin(c, "search_resources", "asking", None, None, <<>>)

(* Defect: the transaction of the first search is kept.                    *)
RecordSearchDefect(c, transaction, found) ==
  /\ Awaits(c, "search_resources")
  /\ transaction \notin Answered
  /\ lastTransactionId' = IF lastTransactionId = None THEN transaction ELSE lastTransactionId
  /\ offers' = offers \cup found
  /\ searches' = Append(searches, [transaction |-> transaction, found |-> found])
  /\ call' = [call EXCEPT ![c].pc = "ok"]
  /\ UNCHANGED <<grants, backendVars, faults>>

(* The BAP's answer is recorded: its transaction replaces the last one,    *)
(* its offers join those of earlier searches.                              *)
RecordSearch(c, transaction, found) ==
  /\ Awaits(c, "search_resources")
  /\ transaction \notin Answered
  /\ lastTransactionId' = transaction
  /\ offers' = offers \cup found
  /\ searches' = Append(searches, [transaction |-> transaction, found |-> found])
  /\ call' = [call EXCEPT ![c].pc = "ok"]
  /\ UNCHANGED <<grants, backendVars, faults>>

-----------------------------------------------------------------------------
(* view_resource, request_access                                           *)

ViewResource(c, offer) ==
  Begin(c, "view_resource", IF offer \in offers THEN "ok" ELSE "fail", offer, None,
        IF offer \in offers THEN <<lastTransactionId>> ELSE <<>>)

CanNegotiate(offer) == offer \in offers /\ lastTransactionId # None

(* The select is sent under the transaction of the last search.            *)
RequestAccess(c, offer) ==
  IF CanNegotiate(offer)
  THEN Begin(c, "request_access", "asking", offer, None, <<lastTransactionId>>)
  ELSE Begin(c, "request_access", "fail", offer, None, <<>>)

(* The draft has come: the init is sent under the transaction that is then *)
(* the last one.                                                           *)
ReceiveSelect(c) ==
  /\ Awaits(c, "request_access")
  /\ Len(call[c].transactions) = 1
  /\ call' = [call EXCEPT ![c].transactions = Append(@, lastTransactionId)]
  /\ UNCHANGED <<sessionVars, searches, backendVars, faults>>

ReceiveInit(c) ==
  /\ Awaits(c, "request_access")
  /\ Len(call[c].transactions) = 2
  /\ call' = [call EXCEPT ![c].pc = "ok"]
  /\ UNCHANGED <<sessionVars, searches, backendVars, faults>>

-----------------------------------------------------------------------------
(* confirm_access                                                          *)

ConfirmAccess(c, offer) ==
  IF CanNegotiate(offer) /\ offer \in Licensed
  THEN IdsLeft("confirm_access", Grants \ Minted) /\
       Begin(c, "confirm_access", "asking", offer, None, <<lastTransactionId>>)
  ELSE Begin(c, "confirm_access", "fail", offer, None, <<>>)

(* The BAP runs the confirm and has a grant minted for it.                 *)
MintGrant(c, g) ==
  /\ Awaits(c, "confirm_access")
  /\ issued[g] = None
  /\ issued' = [issued EXCEPT ![g] =
       [offer |-> call[c].offer, transaction |-> Last(call[c].transactions)]]
  /\ call' = [call EXCEPT ![c].pc = "minted", ![c].grant = g]
  /\ UNCHANGED <<sessionVars, searches, revoked, faults>>

(* Defect: one grant per offer is remembered, the first.                   *)
RecordGrantDefect(c) ==
  LET ref == [grant |-> call[c].grant, offer |-> call[c].offer] IN
  IF \E i \in DOMAIN grants : grants[i].offer = ref.offer THEN grants
  ELSE Append(grants, ref)

(* Grant ids are unique: Map.set adds an entry, and Maps keep their order. *)
RecordGrant(c) == Append(grants, [grant |-> call[c].grant, offer |-> call[c].offer])

(* The gateway has the grant: it is recorded in the session.               *)
ReceiveConfirm(c) ==
  /\ call[c].pc = "minted"
  /\ grants' = RecordGrant(c)
  /\ call' = [call EXCEPT ![c].pc = "ok"]
  /\ UNCHANGED <<lastTransactionId, offers, searches, backendVars, faults>>

-----------------------------------------------------------------------------
(* list_my_grants, revoke_grant                                            *)

ListMyGrants(c) == Begin(c, "list_my_grants", "asking", None, None, <<>>)

ReceiveList(c) ==
  /\ Awaits(c, "list_my_grants")
  /\ call' = [call EXCEPT ![c].pc = "ok", ![c].seen = Minted]
  /\ UNCHANGED <<sessionVars, searches, backendVars, faults>>

(* An error status has no grants in its body, which reads as none at all.  *)
ReceiveListError(c) ==
  /\ Awaits(c, "list_my_grants")
  /\ Fails
  /\ call' = [call EXCEPT ![c].pc = "ok", ![c].seen = {}]
  /\ UNCHANGED <<sessionVars, searches, backendVars>>

RevokeGrant(c, g) == Begin(c, "revoke_grant", "asking", None, g, <<>>)

(* Defect: a grant the session does not hold is left alone.                *)
RevokedByDefect(g) == IF \E i \in DOMAIN grants : grants[i].grant = g THEN {g} ELSE {}

RevokedBy(g) == {g} \cap Minted

(* The Access Manager revokes (200), or had (409), or does not know it.    *)
ReceiveRevoke(c) ==
  LET g == call[c].grant IN
  /\ Awaits(c, "revoke_grant")
  /\ revoked' = revoked \cup RevokedBy(g)
  /\ call' = [call EXCEPT ![c].pc = IF g \in Minted THEN "ok" ELSE "fail",
                          ![c].status = IF g \in revoked THEN 409
                                        ELSE IF g \in Minted THEN 200 ELSE 404]
  /\ UNCHANGED <<sessionVars, searches, issued, faults>>

(* Every other status, one of a failure or of the rate limit, is reported  *)
(* like a success; the revocation may have been made before the failure.   *)
ReceiveRevokeError(c) ==
  /\ Awaits(c, "revoke_grant")
  /\ Fails
  /\ revoked' \in {revoked, revoked \cup RevokedBy(call[c].grant)}
  /\ call' = [call EXCEPT ![c].pc = "ok", ![c].status = 500]
  /\ UNCHANGED <<sessionVars, searches, issued>>

-----------------------------------------------------------------------------
(* download                                                                *)

(* Defect: the latest grant, whatever it is for.                           *)
LatestGrantForOfferDefect(offer) == IF grants = <<>> THEN None ELSE Last(grants).grant

LatestGrantForOffer(offer) ==
  LET held == { i \in DOMAIN grants : grants[i].offer = offer } IN
  IF held = {} THEN None ELSE grants[Max(held)].grant

DownloadLatest(c, offer) ==
  LET g == LatestGrantForOffer(offer) IN
  Begin(c, "download", IF g = None THEN "fail" ELSE "asking", offer, g, <<>>)

DownloadGrant(c, g) ==
  LET refs == { i \in DOMAIN grants : grants[i].grant = g } IN
  IF refs = {} THEN Begin(c, "download", "fail", None, None, <<>>)
  ELSE \E i \in refs : Begin(c, "download", "asking", grants[i].offer, g, <<>>)

(* The BPP serves the grant unless it is revoked.                          *)
ReceiveDownload(c) ==
  /\ Awaits(c, "download")
  /\ call' = [call EXCEPT ![c].pc = IF call[c].grant \in revoked THEN "fail" ELSE "ok"]
  /\ UNCHANGED <<sessionVars, searches, backendVars, faults>>

-----------------------------------------------------------------------------
(* fetch rejects, or postJson or the BPP has an error status: the tool     *)
(* fails.  A minted grant is then lost on the session.                     *)
ToolFails(c) ==
  /\ call[c].pc \in {"asking", "minted"}
  /\ Fails
  /\ call' = [call EXCEPT ![c].pc = "fail"]
  /\ UNCHANGED <<sessionVars, searches, backendVars>>

(* The process ends and the client starts another: nothing was persisted.  *)
EndSession ==
  /\ Fails
  /\ lastTransactionId' = None /\ offers' = {} /\ grants' = <<>>
  /\ call' = [c \in Calls |-> Idle]
  /\ UNCHANGED <<searches, backendVars>>

BackendAnswers(c) ==
  \/ \E t \in Transactions, found \in SUBSET Offers : RecordSearch(c, t, found)
  \/ ReceiveSelect(c)
  \/ ReceiveInit(c)
  \/ \E g \in Grants : MintGrant(c, g)
  \/ ReceiveConfirm(c)
  \/ ReceiveList(c)
  \/ ReceiveRevoke(c)
  \/ ReceiveDownload(c)

McpNext ==
  \/ \E c \in Calls :
       \/ SearchResources(c)
       \/ ListMyGrants(c)
       \/ \E o \in Offers :
            \/ ViewResource(c, o)
            \/ RequestAccess(c, o)
            \/ ConfirmAccess(c, o)
            \/ DownloadLatest(c, o)
       \/ \E g \in Grants :
            \/ RevokeGrant(c, g)
            \/ DownloadGrant(c, g)
       \/ BackendAnswers(c)
       \/ ReceiveListError(c)
       \/ ReceiveRevokeError(c)
       \/ ToolFails(c)
  \/ EndSession

McpSpec == McpInit /\ [][McpNext]_mcpVars

-----------------------------------------------------------------------------
(* What a select, an init or a confirm names to the BAP belongs together:  *)
(* the offer was found by the search of that transaction or by one that    *)
(* was answered before it, however the searches overlap.                   *)
OfferPrecedesTransaction ==
  \A c \in Calls : \A k \in DOMAIN call[c].transactions :
    \E i, j \in DOMAIN searches :
      /\ i <= j
      /\ call[c].offer \in searches[i].found
      /\ call[c].transactions[k] = searches[j].transaction

(* Every variable keeps its type, and what a confirm was answered with can *)
(* be downloaded and listed later: the session holds those grants, each    *)
(* once, for the offer the Access Manager minted it for, and no other.     *)
HeldIsAnswered ==
  LET refs == ToSet(grants)
      confirmed == { c \in Calls : call[c].tool = "confirm_access" /\ call[c].pc = "ok" }
  IN
  /\ McpTypeOK
  /\ { ref.grant : ref \in refs } = { call[c].grant : c \in confirmed }
  /\ Len(grants) = Cardinality(confirmed)
  /\ \A ref \in refs : issued[ref.grant] # None /\ issued[ref.grant].offer = ref.offer

(* A download presents a grant that was minted for the offer it is about,  *)
(* however many confirms of however many offers are answered meanwhile.    *)
GrantFitsOffer ==
  \A c \in Calls :
    call[c].tool = "download" /\ call[c].grant # None =>
      call[c].grant \in Minted /\ issued[call[c].grant].offer = call[c].offer

(* An agent that was told by a 200 or a 409 that a grant is revoked gets   *)
(* no data for it in any download it asks for afterwards.                  *)
ToldRevokedIsRefused ==
  \A c \in Calls :
    call[c].tool = "download" /\ call[c].pc = "ok" => call[c].grant \notin call[c].seen

(* "The provider will immediately reject any download presenting it": a    *)
(* revoke_grant that does not fail has revoked the grant.                  *)
RevokeToolIsTruthful ==
  \A c \in Calls :
    call[c].tool = "revoke_grant" /\ call[c].pc = "ok" => call[c].grant \in revoked
=============================================================================
