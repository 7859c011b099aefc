------------------------- MODULE McpSession_proofs -------------------------
(***************************************************************************)
(* Theorems about McpSession, for any number of overlapping tool calls,    *)
(* offers, transactions, grants and faults.                                *)
(***************************************************************************)
EXTENDS McpSession, FiniteSetTheorems, SequenceTheorems, TLAPS

(* The session's transaction is that of the last answered search, and what *)
(* the session offers, some answered search found.                         *)
SessionOfSearches ==
  /\ lastTransactionId # None =>
       /\ searches # <<>>
       /\ searches[Len(searches)].transaction = lastTransactionId
  /\ offers # {} => lastTransactionId # None
  /\ \A o \in offers : \E i \in DOMAIN searches : o \in searches[i].found
  /\ \A c \in Calls : call[c].transactions # <<>> => lastTransactionId # None

(* A confirm that is under way is about an offer and names a transaction;  *)
(* only a confirm has a grant minted.                                      *)
ConfirmsUnderWay ==
  \A c \in Calls :
    /\ call[c].pc = "minted" => call[c].tool = "confirm_access"
    /\ call[c].tool = "confirm_access" /\ call[c].pc = "asking" =>
         call[c].offer \in Offers /\ Len(call[c].transactions) = 1

HasGrant(c) == call[c].tool = "confirm_access" /\ call[c].pc \in {"minted", "ok"}

(* The grant of a confirm was minted for its offer, and for it alone.      *)
GrantsOfConfirms ==
  \A c \in Calls : HasGrant(c) =>
    /\ call[c].grant \in Grants /\ call[c].offer \in Offers
    /\ issued[call[c].grant] # None
    /\ issued[call[c].grant].offer = call[c].offer
    /\ \A d \in Calls : HasGrant(d) /\ call[d].grant = call[c].grant => d = c

Confirmed == { c \in Calls : call[c].tool = "confirm_access" /\ call[c].pc = "ok" }

(* The session holds the grants of the answered confirms, one entry each.  *)
HeldAreConfirmed ==
  /\ \A i \in DOMAIN grants : \E c \in Confirmed :
       grants[i] = [grant |-> call[c].grant, offer |-> call[c].offer]
  /\ \A c \in Confirmed : \E i \in DOMAIN grants : grants[i].grant = call[c].grant
  /\ IsFiniteSet(Confirmed)
  /\ Len(grants) = Cardinality(Confirmed)

(* What the agent was told is revoked is revoked.                          *)
ToldIsRevoked ==
  /\ ToldRevoked \subseteq revoked
  /\ \A c \in Calls : call[c].tool = "download" => call[c].seen \subseteq revoked

McpInv ==
  /\ McpTypeOK
  /\ SessionOfSearches
  /\ OfferPrecedesTransaction
  /\ ConfirmsUnderWay
  /\ GrantsOfConfirms
  /\ HeldAreConfirmed
  /\ GrantFitsOffer
  /\ ToldIsRevoked
  /\ ToldRevokedIsRefused

-----------------------------------------------------------------------------
(* A nonempty set of numbers up to n has a greatest element, and Max is it. *)
LEMMA MaxOfInterval ==
  ASSUME NEW n \in Nat, NEW S \in SUBSET (1..n), S # {}
  PROVE  Max(S) \in S /\ \A i \in S : Max(S) >= i
<1>. DEFINE Bounds == { k \in Nat : \A i \in S : i <= k }
<1>1. n \in Bounds
  OBVIOUS
<1>2. IsWellFoundedOn(OpToRel(<, Nat), Nat)
  BY NatLessThanWellFounded
<1>3. \E k \in Bounds : \A j \in Bounds : ~ (<<j, k>> \in OpToRel(<, Nat))
  BY <1>1, <1>2, WFMin, Zenon
<1>4. PICK k \in Bounds : \A j \in Bounds : ~ (j < k)
  BY <1>3 DEF OpToRel
<1>5. k \in S
  <2>1. SUFFICES ASSUME k \notin S PROVE FALSE
    OBVIOUS
  <2>2. k # 0
    <3>1. PICK i \in S : TRUE
      OBVIOUS
    <3>2. i <= k /\ i \in 1..n
      BY <1>4, <3>1
    <3>. QED  BY <3>2
  <2>3. k - 1 \in Bounds
    BY <1>4, <2>1, <2>2
  <2>. QED  BY <1>4, <2>2, <2>3
<1>6. k \in S /\ \A i \in S : k >= i
  BY <1>4, <1>5
<1>. QED  BY <1>6 DEF Max

-----------------------------------------------------------------------------
(* What a handler makes of its call before its first await.                *)
NewCall(r) ==
  /\ r \in ToolCall
  /\ r.pc \in {"asking", "ok", "fail"} /\ r.status = 0
  /\ \A k \in DOMAIN r.transactions :
       /\ r.transactions[k] = lastTransactionId
       /\ r.offer \in offers
  /\ r.tool \in {"confirm_access", "download", "revoke_grant"} => r.pc # "ok"
  /\ r.tool = "confirm_access" /\ r.pc = "asking" =>
       r.offer \in Offers /\ Len(r.transactions) = 1
  /\ r.tool = "download" => r.seen = ToldRevoked
  /\ r.tool = "download" /\ r.grant # None =>
       /\ r.grant \in Minted
       /\ issued[r.grant].offer = r.offer

BeginCall(c) ==
  \E r : /\ NewCall(r)
         /\ call[c].pc = "idle"
         /\ call' = [call EXCEPT ![c] = r]
         /\ UNCHANGED <<sessionVars, searches, backendVars, faults>>

(* The grants the agent was told are revoked are grants.                   *)
LEMMA ToldAreGrants ==
  ASSUME McpInv
  PROVE  ToldRevoked \subseteq Grants
BY DEF McpInv, ToldIsRevoked, McpTypeOK

(* Begin makes a new call of what it is given.                             *)
LEMMA BeginIsNew ==
  ASSUME McpInv, NEW c \in Calls, NEW tool \in Tools, NEW pc \in {"asking", "ok", "fail"},
         NEW offer \in Offers \cup {None}, NEW grant \in Grants \cup {None},
         NEW ts \in Seq(Transactions),
         Begin(c, tool, pc, offer, grant, ts),
         \A k \in DOMAIN ts : ts[k] = lastTransactionId /\ offer \in offers,
         tool \in {"confirm_access", "download", "revoke_grant"} => pc # "ok",
         tool = "confirm_access" /\ pc = "asking" => offer \in Offers /\ Len(ts) = 1,
         tool = "download" /\ grant # None => grant \in Minted /\ issued[grant].offer = offer
  PROVE  BeginCall(c)
<1>. DEFINE r == [tool |-> tool, pc |-> pc, offer |-> offer, grant |-> grant,
                  transactions |-> ts, status |-> 0,
                  seen |-> IF tool = "download" THEN ToldRevoked ELSE {}]
<1>1. r \in ToolCall
  BY ToldAreGrants DEF ToolCall
<1>2. NewCall(r)
  BY <1>1 DEF NewCall
<1>3. /\ call[c].pc = "idle"
      /\ call' = [call EXCEPT ![c] = r]
      /\ UNCHANGED <<sessionVars, searches, backendVars, faults>>
  BY DEF Begin
<1>. HIDE DEF r
<1>. QED  BY <1>2, <1>3 DEF BeginCall

(* A held grant was minted for the offer it is held for.                   *)
LEMMA HeldAreMinted ==
  ASSUME McpInv, NEW i \in DOMAIN grants
  PROVE  /\ grants[i].grant \in Minted /\ grants[i].offer \in Offers
         /\ issued[grants[i].grant].offer = grants[i].offer
BY DEF McpInv, HeldAreConfirmed, Confirmed, GrantsOfConfirms, HasGrant, Minted

(* A search that offered something named its transaction.                  *)
LEMMA NamedTransaction ==
  ASSUME McpInv, NEW offer \in offers
  PROVE  /\ lastTransactionId \in Transactions
         /\ <<lastTransactionId>> \in Seq(Transactions)
         /\ Len(<<lastTransactionId>>) = 1
         /\ \A k \in DOMAIN <<lastTransactionId>> : <<lastTransactionId>>[k] = lastTransactionId
BY DEF McpInv, McpTypeOK, SessionOfSearches

LEMMA NoTransactions ==
  /\ <<>> \in Seq(Transactions)
  /\ \A k \in DOMAIN <<>> : FALSE
OBVIOUS

(* Every handler begins as NewCall says.                                   *)
LEMMA HandlersBegin ==
  ASSUME McpInv, NEW c \in Calls,
         \/ SearchResources(c)
         \/ ListMyGrants(c)
         \/ \E o \in Offers :
              ViewResource(c, o) \/ RequestAccess(c, o) \/ ConfirmAccess(c, o) \/ DownloadLatest(c, o)
         \/ \E g \in Grants : RevokeGrant(c, g) \/ DownloadGrant(c, g)
  PROVE  BeginCall(c)
<1>. USE NoTransactions DEF Tools
<1>1. CASE SearchResources(c)
  BY <1>1, BeginIsNew, Zenon DEF SearchResources
<1>2. CASE ListMyGrants(c)
  BY <1>2, BeginIsNew, Zenon DEF ListMyGrants
<1>3. ASSUME NEW o \in Offers, ViewResource(c, o)
      PROVE  BeginCall(c)
  <2>1. CASE o \in offers
    <3>1. Begin(c, "view_resource", "ok", o, None, <<lastTransactionId>>)
      BY <1>3, <2>1 DEF ViewResource
    <3>. QED  BY <2>1, <3>1, NamedTransaction, BeginIsNew
  <2>2. CASE o \notin offers
    <3>1. Begin(c, "view_resource", "fail", o, None, <<>>)
      BY <1>3, <2>2 DEF ViewResource
    <3>. QED  BY <3>1, BeginIsNew
  <2>. QED  BY <2>1, <2>2
<1>4. ASSUME NEW o \in Offers, RequestAccess(c, o)
      PROVE  BeginCall(c)
  <2>1. CASE CanNegotiate(o)
    <3>1. Begin(c, "request_access", "asking", o, None, <<lastTransactionId>>)
      BY <1>4, <2>1 DEF RequestAccess
    <3>2. o \in offers
      BY <2>1 DEF CanNegotiate
    <3>. QED  BY <3>1, <3>2, NamedTransaction, BeginIsNew
  <2>2. CASE ~ CanNegotiate(o)
    <3>1. Begin(c, "request_access", "fail", o, None, <<>>)
      BY <1>4, <2>2 DEF RequestAccess
    <3>. QED  BY <3>1, BeginIsNew
  <2>. QED  BY <2>1, <2>2
<1>5. ASSUME NEW o \in Offers, ConfirmAccess(c, o)
      PROVE  BeginCall(c)
  <2>1. CASE CanNegotiate(o) /\ o \in Licensed
    <3>1. Begin(c, "confirm_access", "asking", o, None, <<lastTransactionId>>)
      BY <1>5, <2>1 DEF ConfirmAccess
    <3>2. o \in offers
      BY <2>1 DEF CanNegotiate
    <3>. QED  BY <3>1, <3>2, NamedTransaction, BeginIsNew
  <2>2. CASE ~ (CanNegotiate(o) /\ o \in Licensed)
    <3>1. Begin(c, "confirm_access", "fail", o, None, <<>>)
      BY <1>5, <2>2 DEF ConfirmAccess
    <3>. QED  BY <3>1, BeginIsNew
  <2>. QED  BY <2>1, <2>2
<1>6. ASSUME NEW o \in Offers, DownloadLatest(c, o)
      PROVE  BeginCall(c)
  <2>. DEFINE held == { i \in DOMAIN grants : grants[i].offer = o }
  <2>1. CASE held = {}
    <3>1. Begin(c, "download", "fail", o, None, <<>>)
      BY <1>6, <2>1 DEF DownloadLatest, LatestGrantForOffer
    <3>. QED  BY <3>1, BeginIsNew
  <2>2. CASE held # {}
    <3>1. Len(grants) \in Nat /\ held \in SUBSET (1..Len(grants))
      BY LenProperties DEF McpInv, McpTypeOK
    <3>2. Max(held) \in held
      BY <2>2, <3>1, MaxOfInterval
    <3>3. PICK i \in DOMAIN grants : i = Max(held) /\ grants[i].offer = o
      BY <3>2
    <3>4. /\ grants[i].grant \in Minted
          /\ issued[grants[i].grant].offer = o
      BY <3>3, HeldAreMinted
    <3>5. grants[i].grant \in Grants /\ grants[i].grant # None
      BY <3>4, McpAssumption DEF Minted
    <3>6. LatestGrantForOffer(o) = grants[i].grant
      BY <2>2, <3>3 DEF LatestGrantForOffer
    <3>7. Begin(c, "download", "asking", o, grants[i].grant, <<>>)
      BY <1>6, <3>5, <3>6 DEF DownloadLatest
    <3>. QED  BY <3>4, <3>5, <3>7, BeginIsNew
  <2>. QED  BY <2>1, <2>2
<1>7. ASSUME NEW g \in Grants, RevokeGrant(c, g)
      PROVE  BeginCall(c)
  BY <1>7, BeginIsNew DEF RevokeGrant
<1>8. ASSUME NEW g \in Grants, DownloadGrant(c, g)
      PROVE  BeginCall(c)
  <2>. DEFINE refs == { i \in DOMAIN grants : grants[i].grant = g }
  <2>1. CASE refs = {}
    <3>1. Begin(c, "download", "fail", None, None, <<>>)
      BY <1>8, <2>1 DEF DownloadGrant
    <3>. QED  BY <3>1, BeginIsNew
  <2>2. CASE refs # {}
    <3>1. PICK i \in refs : Begin(c, "download", "asking", grants[i].offer, g, <<>>)
      BY <1>8, <2>2 DEF DownloadGrant
    <3>2. g \in Minted /\ grants[i].offer \in Offers /\ issued[g].offer = grants[i].offer
      BY <3>1, HeldAreMinted
    <3>. QED  BY <3>1, <3>2, BeginIsNew
  <2>. QED  BY <2>1, <2>2
<1>. QED  BY <1>1, <1>2, <1>3, <1>4, <1>5, <1>6, <1>7, <1>8

(* So a step of the server is one of these.                                *)
LEMMA McpSteps ==
  ASSUME McpInv, McpNext
  PROVE  \/ \E c \in Calls :
              \/ BeginCall(c)
              \/ \E t \in Transactions, found \in SUBSET Offers : RecordSearch(c, t, found)
              \/ ReceiveSelect(c)
              \/ ReceiveInit(c)
              \/ \E g \in Grants : MintGrant(c, g)
              \/ ReceiveConfirm(c)
              \/ ReceiveList(c)
              \/ ReceiveRevoke(c)
              \/ ReceiveDownload(c)
              \/ ReceiveListError(c)
              \/ ReceiveRevokeError(c)
              \/ ToolFails(c)
         \/ EndSession
BY HandlersBegin, Zenon DEF McpNext, BackendAnswers

(* A call with other values in the fields that change.                     *)
Record(r, pc, grant, transactions, seen, status) ==
  [tool |-> r.tool, pc |-> pc, offer |-> r.offer, grant |-> grant,
   transactions |-> transactions, seen |-> seen, status |-> status]

(* An update of a call is the record of its fields.                        *)
LEMMA UpdatedPc ==
  ASSUME NEW r \in ToolCall, NEW pc
  PROVE  [r EXCEPT !.pc = pc] = Record(r, pc, r.grant, r.transactions, r.seen, r.status)
BY DEF ToolCall, Record

LEMMA UpdatedTransactions ==
  ASSUME NEW r \in ToolCall, NEW transactions
  PROVE  [r EXCEPT !.transactions = transactions] =
           Record(r, r.pc, r.grant, transactions, r.seen, r.status)
BY DEF ToolCall, Record

LEMMA UpdatedGrant ==
  ASSUME NEW r \in ToolCall, NEW pc, NEW grant
  PROVE  [r EXCEPT !.pc = pc, !.grant = grant] =
           Record(r, pc, grant, r.transactions, r.seen, r.status)
<1>. DEFINE s == Record(r, pc, r.grant, r.transactions, r.seen, r.status)
<1>1. [r EXCEPT !.pc = pc, !.grant = grant] = [[r EXCEPT !.pc = pc] EXCEPT !.grant = grant]
  OBVIOUS
<1>2. [s EXCEPT !.grant = grant] = Record(r, pc, grant, r.transactions, r.seen, r.status)
  BY DEF Record
<1>. QED  BY <1>1, <1>2, UpdatedPc, Zenon

LEMMA UpdatedStatus ==
  ASSUME NEW r \in ToolCall, NEW pc, NEW status
  PROVE  [r EXCEPT !.pc = pc, !.status = status] =
           Record(r, pc, r.grant, r.transactions, r.seen, status)
<1>. DEFINE s == Record(r, pc, r.grant, r.transactions, r.seen, r.status)
<1>1. [r EXCEPT !.pc = pc, !.status = status] = [[r EXCEPT !.pc = pc] EXCEPT !.status = status]
  OBVIOUS
<1>2. [s EXCEPT !.status = status] = Record(r, pc, r.grant, r.transactions, r.seen, status)
  BY DEF Record
<1>. QED  BY <1>1, <1>2, UpdatedPc, Zenon

LEMMA UpdatedSeen ==
  ASSUME NEW r \in ToolCall, NEW pc, NEW seen
  PROVE  [r EXCEPT !.pc = pc, !.seen = seen] =
           Record(r, pc, r.grant, r.transactions, seen, r.status)
<1>. DEFINE s == Record(r, pc, r.grant, r.transactions, r.seen, r.status)
<1>1. [r EXCEPT !.pc = pc, !.seen = seen] = [[r EXCEPT !.pc = pc] EXCEPT !.seen = seen]
  OBVIOUS
<1>2. [s EXCEPT !.seen = seen] = Record(r, pc, r.grant, r.transactions, seen, r.status)
  BY DEF Record
<1>. QED  BY <1>1, <1>2, UpdatedPc, Zenon

(* The call of c goes on: its tool and its offer stay.                     *)
Moves(c, pc, grant, transactions, seen, status) ==
  call' = [call EXCEPT ![c] = Record(call[c], pc, grant, transactions, seen, status)]

Ends(c, pc) ==
  Moves(c, pc, call[c].grant, call[c].transactions, call[c].seen, call[c].status)

(* What each step does to the call.                                        *)
LEMMA StepsMove ==
  ASSUME McpTypeOK, NEW c \in Calls
  PROVE  /\ ReceiveInit(c) \/ ReceiveConfirm(c) => Ends(c, "ok")
         /\ ToolFails(c) => Ends(c, "fail")
         /\ ReceiveDownload(c) =>
              Ends(c, IF call[c].grant \in revoked THEN "fail" ELSE "ok")
         /\ \A t \in Transactions, found \in SUBSET Offers :
              RecordSearch(c, t, found) => Ends(c, "ok")
         /\ ReceiveSelect(c) =>
              Moves(c, call[c].pc, call[c].grant, Append(call[c].transactions, lastTransactionId),
                    call[c].seen, call[c].status)
         /\ \A g \in Grants : MintGrant(c, g) =>
              Moves(c, "minted", g, call[c].transactions, call[c].seen, call[c].status)
         /\ ReceiveList(c) \/ ReceiveListError(c) =>
              \E seen \in SUBSET Grants :
                Moves(c, "ok", call[c].grant, call[c].transactions, seen, call[c].status)
         /\ ReceiveRevoke(c) =>
              \E pc \in {"ok", "fail"}, status \in {200, 404, 409} :
                /\ Moves(c, pc, call[c].grant, call[c].transactions, call[c].seen, status)
                /\ pc = "ok" <=> call[c].grant \in Minted
         /\ ReceiveRevokeError(c) =>
              \E status \in {500} :
                Moves(c, "ok", call[c].grant, call[c].transactions, call[c].seen, status)
<1>1. call[c] \in ToolCall /\ call \in [Calls -> ToolCall]
  BY DEF McpTypeOK
<1>2. ASSUME NEW pc
      PROVE  [call EXCEPT ![c].pc = pc] = [call EXCEPT ![c] = [call[c] EXCEPT !.pc = pc]]
  BY <1>1
<1>3. ASSUME NEW t \in Transactions, NEW found \in SUBSET Offers, RecordSearch(c, t, found)
      PROVE  Ends(c, "ok")
  BY <1>1, <1>2, <1>3, UpdatedPc DEF RecordSearch, Ends, Moves
<1>4. ASSUME ReceiveSelect(c)
      PROVE  Moves(c, call[c].pc, call[c].grant, Append(call[c].transactions, lastTransactionId),
                   call[c].seen, call[c].status)
  BY <1>1, <1>2, <1>4, UpdatedTransactions DEF ReceiveSelect, Moves
<1>5. ASSUME ReceiveInit(c) \/ ReceiveConfirm(c)
      PROVE  Ends(c, "ok")
  BY <1>1, <1>2, <1>5, UpdatedPc DEF ReceiveInit, ReceiveConfirm, Ends, Moves
<1>6. ASSUME NEW g \in Grants, MintGrant(c, g)
      PROVE  Moves(c, "minted", g, call[c].transactions, call[c].seen, call[c].status)
  <2>1. call' = [call EXCEPT ![c].pc = "minted", ![c].grant = g]
    BY <1>6 DEF MintGrant
  <2>2. call' = [call EXCEPT ![c] = [call[c] EXCEPT !.pc = "minted", !.grant = g]]
    BY <1>1, <2>1
  <2>3. [call[c] EXCEPT !.pc = "minted", !.grant = g] = Record(call[c], "minted", g, call[c].transactions, call[c].seen, call[c].status)
    BY <1>1, UpdatedGrant
  <2>. QED  BY <2>1, <2>2, <2>3, Zenon DEF Moves
<1>7. ASSUME ReceiveList(c)
      PROVE  \E seen \in SUBSET Grants :
               Moves(c, "ok", call[c].grant, call[c].transactions, seen, call[c].status)
  <2>1. PICK shown : shown = Minted
    OBVIOUS
  <2>2. call' = [call EXCEPT ![c].pc = "ok", ![c].seen = shown]
    BY <1>7, <2>1 DEF ReceiveList
  <2>3. call' = [call EXCEPT ![c] = [call[c] EXCEPT !.pc = "ok", !.seen = shown]]
    BY <1>1, <2>2
  <2>4. [call[c] EXCEPT !.pc = "ok", !.seen = shown] =
          Record(call[c], "ok", call[c].grant, call[c].transactions, shown, call[c].status)
    BY <1>1, UpdatedSeen
  <2>5. Moves(c, "ok", call[c].grant, call[c].transactions, shown, call[c].status)
    BY <2>3, <2>4, Zenon DEF Moves
  <2>. QED  BY <2>1, <2>5 DEF Minted
<1>8. ASSUME ReceiveListError(c)
      PROVE  \E seen \in SUBSET Grants :
               Moves(c, "ok", call[c].grant, call[c].transactions, seen, call[c].status)
  <2>1. PICK shown : shown = {}
    OBVIOUS
  <2>2. call' = [call EXCEPT ![c].pc = "ok", ![c].seen = shown]
    BY <1>8, <2>1 DEF ReceiveListError
  <2>3. call' = [call EXCEPT ![c] = [call[c] EXCEPT !.pc = "ok", !.seen = shown]]
    BY <1>1, <2>2
  <2>4. [call[c] EXCEPT !.pc = "ok", !.seen = shown] =
          Record(call[c], "ok", call[c].grant, call[c].transactions, shown, call[c].status)
    BY <1>1, UpdatedSeen
  <2>5. Moves(c, "ok", call[c].grant, call[c].transactions, shown, call[c].status)
    BY <2>3, <2>4, Zenon DEF Moves
  <2>. QED  BY <2>1, <2>5 DEF Minted
<1>10. ASSUME ReceiveRevokeError(c)
      PROVE  \E status \in {500} : Moves(c, "ok", call[c].grant, call[c].transactions, call[c].seen, status)
  <2>1. PICK http : http = 500
    OBVIOUS
  <2>2. call' = [call EXCEPT ![c].pc = "ok", ![c].status = http]
    BY <1>10, <2>1 DEF ReceiveRevokeError
  <2>3. call' = [call EXCEPT ![c] = [call[c] EXCEPT !.pc = "ok", !.status = http]]
    BY <1>1, <2>2
  <2>4. [call[c] EXCEPT !.pc = "ok", !.status = http] =
          Record(call[c], "ok", call[c].grant, call[c].transactions, call[c].seen, http)
    BY <1>1, UpdatedStatus
  <2>5. Moves(c, "ok", call[c].grant, call[c].transactions, call[c].seen, http)
    BY <2>3, <2>4, Zenon DEF Moves
  <2>. QED  BY <2>1, <2>5
<1>9. ASSUME ReceiveRevoke(c)
      PROVE  \E pc \in {"ok", "fail"}, status \in {200, 404, 409} :
               /\ Moves(c, pc, call[c].grant, call[c].transactions, call[c].seen, status)
               /\ pc = "ok" <=> call[c].grant \in Minted
  <2>. DEFINE p == IF call[c].grant \in Minted THEN "ok" ELSE "fail"
              http == IF call[c].grant \in revoked THEN 409
                      ELSE IF call[c].grant \in Minted THEN 200 ELSE 404
  <2>1. call' = [call EXCEPT ![c].pc = p, ![c].status = http]
    BY <1>9 DEF ReceiveRevoke
  <2>2. /\ p \in {"ok", "fail"} /\ http \in {200, 404, 409}
        /\ p = "ok" <=> call[c].grant \in Minted
    OBVIOUS
  <2>. HIDE DEF p, http
  <2>3. call' = [call EXCEPT ![c] = [call[c] EXCEPT !.pc = p, !.status = http]]
    BY <1>1, <2>1
  <2>4. [call[c] EXCEPT !.pc = p, !.status = http] =
          Record(call[c], p, call[c].grant, call[c].transactions, call[c].seen, http)
    BY <1>1, UpdatedStatus
  <2>5. Moves(c, p, call[c].grant, call[c].transactions, call[c].seen, http)
    BY <2>3, <2>4, Zenon DEF Moves
  <2>. p \in {"ok", "fail"} /\ http \in {200, 404, 409}
    BY <2>2
  <2>. WITNESS p \in {"ok", "fail"}, http \in {200, 404, 409}
  <2>. QED  BY <2>2, <2>5
<1>11. ASSUME ReceiveDownload(c)
       PROVE  Ends(c, IF call[c].grant \in revoked THEN "fail" ELSE "ok")
  BY <1>1, <1>2, <1>11, UpdatedPc DEF ReceiveDownload, Ends, Moves
<1>12. ASSUME ToolFails(c)
       PROVE  Ends(c, "fail")
  BY <1>1, <1>2, <1>12, UpdatedPc DEF ToolFails, Ends, Moves
<1>. QED  BY <1>3, <1>4, <1>5, <1>6, <1>7, <1>8, <1>9, <1>10, <1>11, <1>12

(* The fields of a call have their types.                                  *)
LEMMA CallTypes ==
  ASSUME McpTypeOK, NEW c \in Calls
  PROVE  /\ call[c].tool \in Tools \cup {None}
         /\ call[c].pc \in {"idle", "asking", "minted", "ok", "fail"}
         /\ call[c].offer \in Offers \cup {None} /\ call[c].grant \in Grants \cup {None}
         /\ call[c].transactions \in Seq(Transactions) /\ call[c].seen \in SUBSET Grants
         /\ call[c].status \in {0, 200, 404, 409, 500}
BY DEF McpTypeOK, ToolCall

(* The call then is what it moved to, the others are what they were.       *)
Moved(c, pc, grant, transactions, seen, status) ==
  /\ call' \in [Calls -> ToolCall]
  /\ call'[c].tool = call[c].tool /\ call'[c].offer = call[c].offer
  /\ call'[c].pc = pc /\ call'[c].grant = grant /\ call'[c].transactions = transactions
  /\ call'[c].seen = seen /\ call'[c].status = status
  /\ \A d \in Calls \ {c} : call'[d] = call[d]

LEMMA MovedCall ==
  ASSUME McpTypeOK, NEW c \in Calls,
         NEW pc, NEW grant, NEW transactions, NEW seen, NEW status,
         Record(call[c], pc, grant, transactions, seen, status) \in ToolCall,
         Moves(c, pc, grant, transactions, seen, status)
  PROVE  Moved(c, pc, grant, transactions, seen, status)
<1>. DEFINE r == Record(call[c], pc, grant, transactions, seen, status)
<1>1. r \in ToolCall
  OBVIOUS
<1>2. call' = [call EXCEPT ![c] = r] /\ call \in [Calls -> ToolCall]
  BY DEF Moves, McpTypeOK
<1>3. call' \in [Calls -> ToolCall] /\ call'[c] = r /\ \A d \in Calls \ {c} : call'[d] = call[d]
  <2>. HIDE DEF r
  <2>. QED  BY <1>1, <1>2
<1>. QED  BY <1>3 DEF Moved, Record

Ended(c, pc) ==
  Moved(c, pc, call[c].grant, call[c].transactions, call[c].seen, call[c].status)

LEMMA EndedCall ==
  ASSUME McpTypeOK, NEW c \in Calls, NEW pc \in {"ok", "fail"}, Ends(c, pc)
  PROVE  Ended(c, pc)
<1>1. Moves(c, pc, call[c].grant, call[c].transactions, call[c].seen, call[c].status)
  BY DEF Ends
<1>2. Record(call[c], pc, call[c].grant, call[c].transactions, call[c].seen, call[c].status) \in ToolCall
  BY CallTypes DEF Record, ToolCall
<1>. QED  BY <1>1, <1>2, MovedCall DEF Ended

(* A select that is answered finds the session with a transaction.         *)
LEMMA SelectNames ==
  ASSUME McpInv, NEW c \in Calls, ReceiveSelect(c)
  PROVE  /\ lastTransactionId \in Transactions /\ call[c].pc = "asking"
         /\ \E i \in DOMAIN searches : call[c].offer \in searches[i].found
<1>1. 1 \in DOMAIN call[c].transactions
  <2>1. call[c].transactions \in Seq(Transactions) /\ Len(call[c].transactions) = 1
    BY CallTypes DEF ReceiveSelect, McpInv
  <2>. QED  BY <2>1, LenProperties
<1>2. PICK i \in DOMAIN searches, j \in DOMAIN searches :
        call[c].offer \in searches[i].found
  BY <1>1 DEF McpInv, OfferPrecedesTransaction
<1>3. call[c].transactions # <<>>
  BY <1>1
<1>4. lastTransactionId # None
  BY <1>3 DEF McpInv, SessionOfSearches
<1>. QED  BY <1>2, <1>4 DEF McpInv, McpTypeOK, ReceiveSelect, Awaits

(* What each step makes of its call.                                       *)
LEMMA StepsMoved ==
  ASSUME McpInv, NEW c \in Calls
  PROVE  /\ ReceiveInit(c) \/ ReceiveConfirm(c) => Ended(c, "ok")
         /\ ToolFails(c) => Ended(c, "fail")
         /\ ReceiveDownload(c) =>
              Ended(c, IF call[c].grant \in revoked THEN "fail" ELSE "ok")
         /\ \A t \in Transactions, found \in SUBSET Offers :
              RecordSearch(c, t, found) => Ended(c, "ok")
         /\ ReceiveSelect(c) =>
              Moved(c, "asking", call[c].grant, Append(call[c].transactions, lastTransactionId),
                    call[c].seen, call[c].status)
         /\ \A g \in Grants : MintGrant(c, g) =>
              Moved(c, "minted", g, call[c].transactions, call[c].seen, call[c].status)
         /\ ReceiveList(c) \/ ReceiveListError(c) =>
              \E seen \in SUBSET Grants :
                Moved(c, "ok", call[c].grant, call[c].transactions, seen, call[c].status)
         /\ ReceiveRevoke(c) =>
              \E pc \in {"ok", "fail"}, status \in {200, 404, 409} :
                /\ Moved(c, pc, call[c].grant, call[c].transactions, call[c].seen, status)
                /\ pc = "ok" <=> call[c].grant \in Minted
         /\ ReceiveRevokeError(c) =>
              Moved(c, "ok", call[c].grant, call[c].transactions, call[c].seen, 500)
<1>. McpTypeOK
  BY DEF McpInv
<1>1. ReceiveInit(c) \/ ReceiveConfirm(c) => Ended(c, "ok")
  BY StepsMove, EndedCall
<1>2. ToolFails(c) => Ended(c, "fail")
  BY StepsMove, EndedCall
<1>3. ReceiveDownload(c) => Ended(c, IF call[c].grant \in revoked THEN "fail" ELSE "ok")
  BY StepsMove, EndedCall
<1>4. ASSUME NEW t \in Transactions, NEW found \in SUBSET Offers, RecordSearch(c, t, found)
      PROVE  Ended(c, "ok")
  BY <1>4, StepsMove, EndedCall
<1>5. ASSUME ReceiveSelect(c)
      PROVE  Moved(c, "asking", call[c].grant, Append(call[c].transactions, lastTransactionId),
                   call[c].seen, call[c].status)
  <2>1. lastTransactionId \in Transactions /\ call[c].pc = "asking"
    BY <1>5, SelectNames
  <2>2. Append(call[c].transactions, lastTransactionId) \in Seq(Transactions)
    BY <2>1, CallTypes
  <2>3. Moves(c, "asking", call[c].grant, Append(call[c].transactions, lastTransactionId),
              call[c].seen, call[c].status)
    BY <1>5, <2>1, StepsMove
  <2>4. Record(call[c], "asking", call[c].grant, Append(call[c].transactions, lastTransactionId),
               call[c].seen, call[c].status) \in ToolCall
    BY <2>2, CallTypes DEF Record, ToolCall
  <2>. QED  BY <2>3, <2>4, MovedCall
<1>6. ASSUME NEW g \in Grants, MintGrant(c, g)
      PROVE  Moved(c, "minted", g, call[c].transactions, call[c].seen, call[c].status)
  <2>1. Moves(c, "minted", g, call[c].transactions, call[c].seen, call[c].status)
    BY <1>6, StepsMove
  <2>2. Record(call[c], "minted", g, call[c].transactions, call[c].seen, call[c].status) \in ToolCall
    BY CallTypes DEF Record, ToolCall
  <2>. QED  BY <2>1, <2>2, MovedCall
<1>7. ASSUME ReceiveList(c) \/ ReceiveListError(c)
      PROVE  \E seen \in SUBSET Grants :
               Moved(c, "ok", call[c].grant, call[c].transactions, seen, call[c].status)
  <2>1. PICK seen \in SUBSET Grants :
               Moves(c, "ok", call[c].grant, call[c].transactions, seen, call[c].status)
    BY <1>7, StepsMove
  <2>2. Record(call[c], "ok", call[c].grant, call[c].transactions, seen, call[c].status) \in ToolCall
    BY <2>1, CallTypes DEF Record, ToolCall
  <2>3. Moved(c, "ok", call[c].grant, call[c].transactions, seen, call[c].status)
    BY <2>1, <2>2, MovedCall
  <2>. QED  BY <2>3
<1>8. ASSUME ReceiveRevoke(c)
      PROVE  \E pc \in {"ok", "fail"}, status \in {200, 404, 409} :
               /\ Moved(c, pc, call[c].grant, call[c].transactions, call[c].seen, status)
               /\ pc = "ok" <=> call[c].grant \in Minted
  <2>1. PICK pc \in {"ok", "fail"}, status \in {200, 404, 409} :
               /\ Moves(c, pc, call[c].grant, call[c].transactions, call[c].seen, status)
               /\ pc = "ok" <=> call[c].grant \in Minted
    BY <1>8, StepsMove
  <2>2. Record(call[c], pc, call[c].grant, call[c].transactions, call[c].seen, status) \in ToolCall
    BY <2>1, CallTypes DEF Record, ToolCall
  <2>3. Moved(c, pc, call[c].grant, call[c].transactions, call[c].seen, status)
    BY <2>1, <2>2, MovedCall
  <2>. QED  BY <2>1, <2>3
<1>9. ASSUME ReceiveRevokeError(c)
      PROVE  Moved(c, "ok", call[c].grant, call[c].transactions, call[c].seen, 500)
  <2>1. PICK status \in {500} :
               Moves(c, "ok", call[c].grant, call[c].transactions, call[c].seen, status)
    BY <1>9, StepsMove
  <2>2. Record(call[c], "ok", call[c].grant, call[c].transactions, call[c].seen, status) \in ToolCall
    BY <2>1, CallTypes DEF Record, ToolCall
  <2>3. Moved(c, "ok", call[c].grant, call[c].transactions, call[c].seen, status)
    BY <2>1, <2>2, MovedCall
  <2>. QED  BY <2>3
<1>. QED  BY <1>1, <1>2, <1>3, <1>4, <1>5, <1>6, <1>7, <1>8, <1>9

-----------------------------------------------------------------------------
(* Every step keeps the types.                                             *)
LEMMA McpTypeStep ==
  ASSUME McpInv, McpNext
  PROVE  McpTypeOK'
<1>. McpTypeOK
  BY DEF McpInv
<1>1. ASSUME NEW c \in Calls, BeginCall(c)
      PROVE  McpTypeOK'
  BY <1>1 DEF BeginCall, NewCall, sessionVars, backendVars, McpTypeOK
<1>2. ASSUME NEW c \in Calls, NEW t \in Transactions, NEW found \in SUBSET Offers,
             RecordSearch(c, t, found)
      PROVE  McpTypeOK'
  <2>1. call' \in [Calls -> ToolCall]
    BY <1>2, StepsMoved DEF Ended, Moved
  <2>. QED  BY <1>2, <2>1 DEF RecordSearch, backendVars, McpTypeOK
<1>3. ASSUME NEW c \in Calls, ReceiveSelect(c)
      PROVE  McpTypeOK'
  <2>1. call' \in [Calls -> ToolCall]
    BY <1>3, StepsMoved DEF Moved
  <2>. QED  BY <1>3, <2>1 DEF ReceiveSelect, sessionVars, backendVars, McpTypeOK
<1>4. ASSUME NEW c \in Calls, ReceiveInit(c)
      PROVE  McpTypeOK'
  <2>1. call' \in [Calls -> ToolCall]
    BY <1>4, StepsMoved DEF Ended, Moved
  <2>. QED  BY <1>4, <2>1 DEF ReceiveInit, sessionVars, backendVars, McpTypeOK
<1>5. ASSUME NEW c \in Calls, NEW g \in Grants, MintGrant(c, g)
      PROVE  McpTypeOK'
  <2>1. call' \in [Calls -> ToolCall]
    BY <1>5, StepsMoved DEF Ended, Moved
  <2>2. call[c].offer \in Offers /\ Len(call[c].transactions) = 1
    BY <1>5 DEF MintGrant, Awaits, McpInv, ConfirmsUnderWay
  <2>3. Last(call[c].transactions) \in Transactions
    BY <2>2, CallTypes DEF Last
  <2>. QED  BY <1>5, <2>1, <2>2, <2>3 DEF MintGrant, sessionVars, McpTypeOK
<1>6. ASSUME NEW c \in Calls, ReceiveConfirm(c)
      PROVE  McpTypeOK'
  <2>1. call' \in [Calls -> ToolCall]
    BY <1>6, StepsMoved DEF Ended, Moved
  <2>2. [grant |-> call[c].grant, offer |-> call[c].offer] \in GrantRef
    BY <1>6 DEF ReceiveConfirm, McpInv, ConfirmsUnderWay, GrantsOfConfirms, HasGrant, GrantRef
  <2>. QED  BY <1>6, <2>1, <2>2 DEF ReceiveConfirm, RecordGrant, backendVars, McpTypeOK
<1>7. ASSUME NEW c \in Calls, ReceiveList(c) \/ ReceiveListError(c)
      PROVE  McpTypeOK'
  <2>1. Minted \in SUBSET Grants /\ {} \in SUBSET Grants
    BY DEF Minted
  <2>2. call' \in [Calls -> ToolCall]
    BY <1>7, <2>1, StepsMoved DEF Ended, Moved
  <2>. QED  BY <1>7, <2>2, McpAssumption DEF ReceiveList, ReceiveListError, Fails, sessionVars, backendVars, McpTypeOK
<1>8. ASSUME NEW c \in Calls, ReceiveRevoke(c) \/ ReceiveRevokeError(c)
      PROVE  McpTypeOK'
  <2>1. call' \in [Calls -> ToolCall]
    BY <1>8, StepsMoved DEF Ended, Moved
  <2>2. revoked' \subseteq Grants
    BY <1>8 DEF ReceiveRevoke, ReceiveRevokeError, RevokedBy, Minted, McpTypeOK
  <2>. QED  BY <1>8, <2>1, <2>2, McpAssumption DEF ReceiveRevoke, ReceiveRevokeError, Fails, sessionVars, McpTypeOK
<1>9. ASSUME NEW c \in Calls, ReceiveDownload(c) \/ ToolFails(c)
      PROVE  McpTypeOK'
  <2>1. call' \in [Calls -> ToolCall]
    BY <1>9, StepsMoved DEF Ended, Moved
  <2>. QED  BY <1>9, <2>1, McpAssumption DEF ReceiveDownload, ToolFails, Fails, sessionVars, backendVars, McpTypeOK
<1>10. ASSUME EndSession
       PROVE  McpTypeOK'
  <2>1. Idle \in ToolCall
    BY DEF Idle, ToolCall
  <2>. QED  BY <1>10, <2>1, McpAssumption DEF EndSession, Fails, backendVars, McpTypeOK
<1>. QED  BY McpSteps, <1>1, <1>2, <1>3, <1>4, <1>5, <1>6, <1>7, <1>8, <1>9, <1>10, Zenon

-----------------------------------------------------------------------------
(* A handler that begins gives its call the fields of a new one.           *)
LEMMA BegunCall ==
  ASSUME McpInv, NEW c \in Calls, BeginCall(c)
  PROVE  /\ NewCall(call'[c]) /\ call[c].pc = "idle"
         /\ \A d \in Calls \ {c} : call'[d] = call[d]
         /\ UNCHANGED <<lastTransactionId, offers, grants, searches, issued, revoked>>
<1>1. PICK r : /\ NewCall(r) /\ call[c].pc = "idle" /\ call' = [call EXCEPT ![c] = r]
               /\ UNCHANGED <<lastTransactionId, offers, grants, searches, issued, revoked>>
  BY DEF BeginCall, sessionVars, backendVars
<1>2. call' = [call EXCEPT ![c] = r] /\ call \in [Calls -> ToolCall]
  BY <1>1 DEF McpInv, McpTypeOK
<1>3. call'[c] = r /\ \A d \in Calls \ {c} : call'[d] = call[d]
  BY <1>2
<1>. QED  BY <1>1, <1>3

EndedSession ==
  /\ \A d \in Calls : call'[d].pc = "idle" /\ call'[d].transactions = <<>>
  /\ \A d \in Calls : call'[d].grant = None /\ call'[d].seen = {}
  /\ lastTransactionId' = None /\ offers' = {} /\ grants' = <<>>
  /\ UNCHANGED <<searches, issued, revoked>>

LEMMA SessionEnds ==
  ASSUME EndSession
  PROVE  EndedSession
BY DEF EndSession, EndedSession, Idle, backendVars

(* A step that touches neither what is searched nor what is named.         *)
NamesKept ==
  /\ UNCHANGED <<lastTransactionId, offers, searches>>
  /\ \A d \in Calls : call'[d].transactions = call[d].transactions /\ call'[d].offer = call[d].offer

LEMMA KeepNames ==
  ASSUME McpInv, NEW c \in Calls,
         \/ ReceiveInit(c) \/ ReceiveConfirm(c) \/ ReceiveList(c) \/ ReceiveListError(c)
         \/ ReceiveRevoke(c) \/ ReceiveRevokeError(c) \/ ReceiveDownload(c) \/ ToolFails(c)
         \/ \E g \in Grants : MintGrant(c, g)
  PROVE  NamesKept
<1>1. \E pc, grant, seen, status : Moved(c, pc, grant, call[c].transactions, seen, status)
  BY StepsMoved DEF Ended
<1>2. \A d \in Calls : call'[d].transactions = call[d].transactions /\ call'[d].offer = call[d].offer
  BY <1>1 DEF Moved
<1>3. UNCHANGED <<lastTransactionId, offers, searches>>
  BY DEF ReceiveInit, ReceiveConfirm, ReceiveList, ReceiveListError, ReceiveRevoke,
         ReceiveRevokeError, ReceiveDownload, ToolFails, MintGrant, sessionVars
<1>. QED  BY <1>2, <1>3 DEF NamesKept

(* Searches, and the transactions calls name.                              *)
LEMMA SearchesStep ==
  ASSUME McpInv, [McpNext]_mcpVars
  PROVE  SessionOfSearches' /\ OfferPrecedesTransaction'
<1>. SessionOfSearches /\ OfferPrecedesTransaction
  BY DEF McpInv
<1>0. /\ searches \in Seq([transaction : Transactions, found : SUBSET Offers])
      /\ Len(searches) \in Nat /\ DOMAIN searches = 1..Len(searches)
  BY LenProperties DEF McpInv, McpTypeOK
<1>1. ASSUME NamesKept
      PROVE  SessionOfSearches' /\ OfferPrecedesTransaction'
  BY <1>1 DEF NamesKept, SessionOfSearches, OfferPrecedesTransaction
<1>2. ASSUME NEW c \in Calls, BeginCall(c)
      PROVE  SessionOfSearches' /\ OfferPrecedesTransaction'
  <2>1. /\ NewCall(call'[c])
        /\ \A d \in Calls \ {c} : call'[d] = call[d]
        /\ UNCHANGED <<lastTransactionId, offers, searches>>
    BY <1>2, BegunCall
  <2>2. \A k \in DOMAIN call'[c].transactions :
          /\ call'[c].transactions[k] = lastTransactionId
          /\ call'[c].offer \in offers
    BY <2>1 DEF NewCall
  <2>3. call'[c].transactions # <<>> => lastTransactionId # None
    <3>1. SUFFICES ASSUME call'[c].transactions # <<>> PROVE lastTransactionId # None
      OBVIOUS
    <3>2. call'[c].transactions \in Seq(Transactions)
      BY <2>1 DEF NewCall, ToolCall
    <3>3. 1 \in DOMAIN call'[c].transactions
      BY <3>1, <3>2, EmptySeq, LenProperties
    <3>. QED  BY <2>2, <3>3 DEF SessionOfSearches
  <2>4. ASSUME NEW k \in DOMAIN call'[c].transactions
        PROVE  \E i, j \in DOMAIN searches :
                 i <= j /\ call'[c].offer \in searches[i].found
                 /\ call'[c].transactions[k] = searches[j].transaction
    <3>1. PICK i \in DOMAIN searches : call'[c].offer \in searches[i].found
      BY <2>2, <2>4 DEF SessionOfSearches
    <3>2. lastTransactionId # None
      BY <2>2, <2>4 DEF SessionOfSearches
    <3>3. Len(searches) \in DOMAIN searches /\ i <= Len(searches)
      BY <1>0, <3>1
    <3>. QED  BY <2>2, <2>4, <3>1, <3>2, <3>3 DEF SessionOfSearches
  <2>. QED  BY <2>1, <2>3, <2>4 DEF SessionOfSearches, OfferPrecedesTransaction
<1>3. ASSUME NEW c \in Calls, NEW t \in Transactions, NEW found \in SUBSET Offers,
             RecordSearch(c, t, found)
      PROVE  SessionOfSearches' /\ OfferPrecedesTransaction'
  <2>1. \A d \in Calls : call'[d].transactions = call[d].transactions /\ call'[d].offer = call[d].offer
    BY <1>3, StepsMoved DEF Ended, Moved
  <2>2. /\ lastTransactionId' = t /\ offers' = offers \cup found
        /\ searches' = Append(searches, [transaction |-> t, found |-> found])
    BY <1>3 DEF RecordSearch
  <2>3. /\ DOMAIN searches' = 1..(Len(searches) + 1) /\ Len(searches') = Len(searches) + 1
        /\ searches'[Len(searches) + 1] = [transaction |-> t, found |-> found]
        /\ \A i \in DOMAIN searches : i \in DOMAIN searches' /\ searches'[i] = searches[i]
        /\ searches' # <<>>
    BY <1>0, <2>2
  <2>4. t # None
    BY McpAssumption
  <2>5. SessionOfSearches'
    BY <1>0, <2>1, <2>2, <2>3, <2>4 DEF SessionOfSearches
  <2>6. OfferPrecedesTransaction'
    BY <2>1, <2>3 DEF OfferPrecedesTransaction
  <2>. QED  BY <2>5, <2>6
<1>4. ASSUME NEW c \in Calls, ReceiveSelect(c)
      PROVE  SessionOfSearches' /\ OfferPrecedesTransaction'
  <2>1. /\ call'[c].transactions = Append(call[c].transactions, lastTransactionId)
        /\ call'[c].offer = call[c].offer
        /\ \A d \in Calls \ {c} : call'[d] = call[d]
    BY <1>4, StepsMoved DEF Moved
  <2>2. UNCHANGED <<lastTransactionId, offers, searches>>
    BY <1>4 DEF ReceiveSelect, sessionVars
  <2>3. PICK i \in DOMAIN searches : call[c].offer \in searches[i].found
    BY <1>4, SelectNames
  <2>4. lastTransactionId \in Transactions /\ lastTransactionId # None
    BY <1>4, SelectNames, McpAssumption
  <2>5. /\ Len(searches) \in DOMAIN searches /\ i <= Len(searches)
        /\ searches[Len(searches)].transaction = lastTransactionId
    BY <1>0, <2>3, <2>4 DEF SessionOfSearches
  <2>6. /\ call[c].transactions \in Seq(Transactions)
        /\ Len(call[c].transactions) \in Nat
        /\ DOMAIN call[c].transactions = 1..Len(call[c].transactions)
    BY CallTypes, LenProperties DEF McpInv
  <2>7. ASSUME NEW k \in DOMAIN call'[c].transactions
        PROVE  \/ k \in DOMAIN call[c].transactions /\ call'[c].transactions[k] = call[c].transactions[k]
               \/ call'[c].transactions[k] = lastTransactionId
    BY <2>1, <2>4, <2>6
  <2>8. OfferPrecedesTransaction'
    <3>1. SUFFICES ASSUME NEW d \in Calls, NEW k \in DOMAIN call'[d].transactions
                   PROVE  \E m, n \in DOMAIN searches :
                            /\ m <= n /\ call'[d].offer \in searches[m].found
                            /\ call'[d].transactions[k] = searches[n].transaction
      BY <2>2 DEF OfferPrecedesTransaction
    <3>2. CASE d # c
      BY <2>1, <3>2 DEF OfferPrecedesTransaction
    <3>3. CASE d = c /\ k \in DOMAIN call[c].transactions
                     /\ call'[c].transactions[k] = call[c].transactions[k]
      BY <2>1, <3>3 DEF OfferPrecedesTransaction
    <3>4. CASE d = c /\ call'[c].transactions[k] = lastTransactionId
      BY <2>1, <2>3, <2>5, <3>4
    <3>. QED  BY <2>7, <3>2, <3>3, <3>4
  <2>9. SessionOfSearches'
    BY <2>1, <2>2, <2>4 DEF SessionOfSearches
  <2>. QED  BY <2>8, <2>9
<1>5. ASSUME EndSession
      PROVE  SessionOfSearches' /\ OfferPrecedesTransaction'
  BY <1>5, SessionEnds DEF EndedSession, SessionOfSearches, OfferPrecedesTransaction
<1>6. ASSUME UNCHANGED mcpVars
      PROVE  SessionOfSearches' /\ OfferPrecedesTransaction'
  BY <1>6 DEF mcpVars, sessionVars, SessionOfSearches, OfferPrecedesTransaction
<1>. QED  BY <1>1, <1>2, <1>3, <1>4, <1>5, <1>6, McpSteps, KeepNames

-----------------------------------------------------------------------------
(* A step that mints nothing and answers no confirm, unless with a failure. *)
ConfirmsKept ==
  /\ UNCHANGED <<grants, issued>>
  /\ \A d \in Calls :
       /\ call'[d].tool = call[d].tool /\ call'[d].offer = call[d].offer
       /\ call'[d].grant = call[d].grant
       /\ call'[d].tool = "confirm_access" =>
            /\ call'[d].transactions = call[d].transactions
            /\ \/ call'[d].pc = call[d].pc
               \/ call[d].pc \in {"asking", "minted"} /\ call'[d].pc = "fail"
       /\ call'[d].pc = "minted" => call[d].pc = "minted"

LEMMA KeepConfirms ==
  ASSUME McpInv, NEW c \in Calls,
         \/ \E t \in Transactions, found \in SUBSET Offers : RecordSearch(c, t, found)
         \/ ReceiveSelect(c) \/ ReceiveInit(c) \/ ReceiveList(c) \/ ReceiveListError(c)
         \/ ReceiveRevoke(c) \/ ReceiveRevokeError(c) \/ ReceiveDownload(c) \/ ToolFails(c)
  PROVE  ConfirmsKept
<1>1. UNCHANGED <<grants, issued>>
  BY DEF RecordSearch, ReceiveSelect, ReceiveInit, ReceiveList, ReceiveListError, ReceiveRevoke,
         ReceiveRevokeError, ReceiveDownload, ToolFails, sessionVars, backendVars
<1>2. \E pc, transactions, seen, status :
        /\ Moved(c, pc, call[c].grant, transactions, seen, status)
        /\ pc # "minted"
        /\ call[c].tool = "confirm_access" =>
             /\ pc = "fail" /\ call[c].pc \in {"asking", "minted"}
             /\ transactions = call[c].transactions
  <2>1. CASE ToolFails(c)
    <3>1. Moved(c, "fail", call[c].grant, call[c].transactions, call[c].seen, call[c].status)
      BY <2>1, StepsMoved DEF Ended
    <3>2. call[c].pc \in {"asking", "minted"}
      BY <2>1 DEF ToolFails
    <3>. QED  BY <3>1, <3>2
  <2>2. CASE ~ ToolFails(c)
    <3>1. call[c].tool # "confirm_access"
      BY <2>2 DEF RecordSearch, ReceiveSelect, ReceiveInit, ReceiveList, ReceiveListError,
                  ReceiveRevoke, ReceiveRevokeError, ReceiveDownload, Awaits
    <3>2. \E pc, transactions, seen, status :
            Moved(c, pc, call[c].grant, transactions, seen, status) /\ pc # "minted"
      BY <2>2, StepsMoved DEF Ended
    <3>. QED  BY <3>1, <3>2
  <2>. QED  BY <2>1, <2>2
<1>. QED  BY <1>1, <1>2 DEF Moved, ConfirmsKept

(* What is held stays right while the answered confirms stay what they are. *)
LEMMA HeldStay ==
  ASSUME HeldAreConfirmed, grants' = grants, Confirmed' = Confirmed,
         \A c \in Confirmed : call'[c].grant = call[c].grant /\ call'[c].offer = call[c].offer
  PROVE  HeldAreConfirmed'
BY DEF HeldAreConfirmed

(* Confirms and their grants.                                              *)
LEMMA ConfirmsStep ==
  ASSUME McpInv, [McpNext]_mcpVars
  PROVE  ConfirmsUnderWay' /\ GrantsOfConfirms' /\ HeldAreConfirmed' /\ GrantFitsOffer'
<1>. ConfirmsUnderWay /\ GrantsOfConfirms /\ HeldAreConfirmed /\ GrantFitsOffer
  BY DEF McpInv
<1>1. ASSUME ConfirmsKept
      PROVE  ConfirmsUnderWay' /\ GrantsOfConfirms' /\ HeldAreConfirmed' /\ GrantFitsOffer'
  <2>. USE <1>1 DEF ConfirmsKept
  <2>1. ConfirmsUnderWay'
    BY DEF ConfirmsUnderWay
  <2>2. \A d \in Calls : HasGrant(d)' => HasGrant(d)
    BY DEF HasGrant
  <2>3. GrantsOfConfirms'
    BY <2>2 DEF GrantsOfConfirms
  <2>4. Confirmed' = Confirmed
    BY DEF Confirmed
  <2>5. HeldAreConfirmed'
    <3>1. \A d \in Confirmed : call'[d].grant = call[d].grant /\ call'[d].offer = call[d].offer
      BY DEF Confirmed
    <3>. QED  BY <2>4, <3>1, HeldStay
  <2>6. GrantFitsOffer'
    BY DEF GrantFitsOffer, Minted
  <2>. QED  BY <2>1, <2>3, <2>5, <2>6
<1>2. ASSUME NEW c \in Calls, BeginCall(c)
      PROVE  ConfirmsUnderWay' /\ GrantsOfConfirms' /\ HeldAreConfirmed' /\ GrantFitsOffer'
  <2>1. /\ NewCall(call'[c]) /\ call[c].pc = "idle"
        /\ \A d \in Calls \ {c} : call'[d] = call[d]
        /\ UNCHANGED <<grants, issued>>
    BY <1>2, BegunCall
  <2>2. ConfirmsUnderWay'
    BY <2>1 DEF ConfirmsUnderWay, NewCall
  <2>3. \A d \in Calls : HasGrant(d)' => HasGrant(d) /\ d # c
    BY <2>1 DEF HasGrant, NewCall
  <2>4. GrantsOfConfirms'
    BY <2>1, <2>3 DEF GrantsOfConfirms
  <2>5. Confirmed' = Confirmed /\ c \notin Confirmed
    BY <2>1 DEF Confirmed, NewCall
  <2>6. HeldAreConfirmed'
    <3>1. \A d \in Confirmed : call'[d] = call[d]
      BY <2>1, <2>5 DEF Confirmed
    <3>. QED  BY <2>1, <2>5, <3>1, HeldStay
  <2>7. GrantFitsOffer'
    BY <2>1 DEF GrantFitsOffer, Minted, NewCall
  <2>. QED  BY <2>2, <2>4, <2>6, <2>7
<1>3. ASSUME NEW c \in Calls, NEW g \in Grants, MintGrant(c, g)
      PROVE  ConfirmsUnderWay' /\ GrantsOfConfirms' /\ HeldAreConfirmed' /\ GrantFitsOffer'
  <2>1. /\ call'[c].pc = "minted" /\ call'[c].grant = g
        /\ call'[c].tool = "confirm_access" /\ call'[c].offer = call[c].offer
        /\ \A d \in Calls \ {c} : call'[d] = call[d]
    <3>1. Moved(c, "minted", g, call[c].transactions, call[c].seen, call[c].status)
      BY <1>3, StepsMoved
    <3>2. call[c].tool = "confirm_access"
      BY <1>3 DEF MintGrant, Awaits
    <3>. QED  BY <3>1, <3>2 DEF Moved
  <2>2. call[c].offer \in Offers /\ call[c].tool = "confirm_access" /\ call[c].pc = "asking"
    BY <1>3 DEF MintGrant, Awaits, ConfirmsUnderWay
  <2>3. /\ issued[g] = None /\ grants' = grants
        /\ issued' = [issued EXCEPT ![g] =
             [offer |-> call[c].offer, transaction |-> Last(call[c].transactions)]]
        /\ issued \in [Grants -> [offer : Offers, transaction : Transactions] \cup {None}]
    BY <1>3 DEF MintGrant, sessionVars, McpInv, McpTypeOK
  <2>4. Last(call[c].transactions) \in Transactions
    <3>1. call[c].transactions \in Seq(Transactions) /\ Len(call[c].transactions) = 1
      BY <2>2, CallTypes DEF ConfirmsUnderWay, McpInv
    <3>. QED  BY <3>1, ElementOfSeq DEF Last
  <2>5. /\ issued'[g].offer = call[c].offer /\ issued'[g] # None
        /\ \A h \in Grants \ {g} : issued'[h] = issued[h]
    BY <2>2, <2>3, <2>4, McpAssumption
  <2>6. ConfirmsUnderWay'
    BY <2>1 DEF ConfirmsUnderWay
  <2>7. \A d \in Calls \ {c} : HasGrant(d)' => HasGrant(d) /\ call[d].grant # g
    BY <2>1, <2>3 DEF HasGrant, GrantsOfConfirms
  <2>8. GrantsOfConfirms'
    BY <2>1, <2>2, <2>5, <2>7 DEF GrantsOfConfirms, HasGrant
  <2>9. Confirmed' = Confirmed /\ c \notin Confirmed
    BY <2>1, <2>2 DEF Confirmed
  <2>10. HeldAreConfirmed'
    <3>1. \A d \in Confirmed : call'[d] = call[d]
      BY <2>1, <2>9 DEF Confirmed
    <3>. QED  BY <2>3, <2>9, <3>1, HeldStay
  <2>11. GrantFitsOffer'
    <3>1. \A h \in Minted : h # g /\ h \in Minted' /\ issued'[h] = issued[h]
      BY <2>3, <2>5 DEF Minted
    <3>. QED  BY <2>1, <3>1 DEF GrantFitsOffer
  <2>. QED  BY <2>6, <2>8, <2>10, <2>11
<1>4. ASSUME NEW c \in Calls, ReceiveConfirm(c)
      PROVE  ConfirmsUnderWay' /\ GrantsOfConfirms' /\ HeldAreConfirmed' /\ GrantFitsOffer'
  <2>1. /\ call'[c].pc = "ok" /\ call'[c].grant = call[c].grant
        /\ call'[c].tool = call[c].tool /\ call'[c].offer = call[c].offer
        /\ \A d \in Calls \ {c} : call'[d] = call[d]
    BY <1>4, StepsMoved DEF Ended, Moved
  <2>2. call[c].pc = "minted" /\ call[c].tool = "confirm_access" /\ issued' = issued
    BY <1>4 DEF ReceiveConfirm, backendVars, ConfirmsUnderWay
  <2>3. grants' = Append(grants, [grant |-> call[c].grant, offer |-> call[c].offer])
    BY <1>4 DEF ReceiveConfirm, RecordGrant
  <2>4. grants \in Seq(GrantRef) /\ Len(grants) \in Nat /\ DOMAIN grants = 1..Len(grants)
    BY LenProperties DEF McpInv, McpTypeOK
  <2>5. /\ Len(grants') = Len(grants) + 1 /\ DOMAIN grants' = 1..(Len(grants) + 1)
        /\ grants'[Len(grants) + 1] = [grant |-> call[c].grant, offer |-> call[c].offer]
        /\ \A i \in DOMAIN grants : i \in DOMAIN grants' /\ grants'[i] = grants[i]
    BY <2>3, <2>4
  <2>6. ConfirmsUnderWay'
    BY <2>1 DEF ConfirmsUnderWay
  <2>7. GrantsOfConfirms'
    BY <2>1, <2>2 DEF GrantsOfConfirms, HasGrant
  <2>8. Confirmed' = Confirmed \cup {c} /\ c \notin Confirmed
    BY <2>1, <2>2 DEF Confirmed
  <2>9. IsFiniteSet(Confirmed') /\ Cardinality(Confirmed') = Cardinality(Confirmed) + 1
    BY <2>8, FS_AddElement DEF HeldAreConfirmed
  <2>10. \A i \in DOMAIN grants' : \E d \in Confirmed' :
           grants'[i] = [grant |-> call'[d].grant, offer |-> call'[d].offer]
    <3>1. SUFFICES ASSUME NEW i \in DOMAIN grants'
                   PROVE  \E d \in Confirmed' :
                            grants'[i] = [grant |-> call'[d].grant, offer |-> call'[d].offer]
      OBVIOUS
    <3>2. CASE i \in DOMAIN grants
      <4>1. PICK d \in Confirmed : grants[i] = [grant |-> call[d].grant, offer |-> call[d].offer]
        BY <3>2 DEF HeldAreConfirmed
      <4>. QED  BY <2>1, <2>5, <2>8, <3>2, <4>1 DEF Confirmed
    <3>3. CASE i = Len(grants) + 1
      BY <2>1, <2>5, <2>8, <3>3
    <3>. QED  BY <2>4, <2>5, <3>2, <3>3
  <2>11. \A d \in Confirmed' : \E i \in DOMAIN grants' : grants'[i].grant = call'[d].grant
    <3>1. \E i \in DOMAIN grants' : grants'[i].grant = call'[c].grant
      <4>1. Len(grants) + 1 \in DOMAIN grants'
        BY <2>4, <2>5
      <4>. QED  BY <2>1, <2>5, <4>1
    <3>2. ASSUME NEW d \in Confirmed
          PROVE  \E i \in DOMAIN grants' : grants'[i].grant = call'[d].grant
      BY <2>1, <2>5, <2>8, <3>2 DEF HeldAreConfirmed, Confirmed
    <3>. QED  BY <2>8, <3>1, <3>2
  <2>12. HeldAreConfirmed'
    BY <2>5, <2>9, <2>10, <2>11 DEF HeldAreConfirmed
  <2>13. GrantFitsOffer'
    BY <2>1, <2>2 DEF GrantFitsOffer, Minted
  <2>. QED  BY <2>6, <2>7, <2>12, <2>13
<1>5. ASSUME EndSession
      PROVE  ConfirmsUnderWay' /\ GrantsOfConfirms' /\ HeldAreConfirmed' /\ GrantFitsOffer'
  <2>. USE SessionEnds, <1>5 DEF EndedSession
  <2>1. ConfirmsUnderWay' /\ GrantsOfConfirms' /\ GrantFitsOffer'
    BY DEF ConfirmsUnderWay, GrantsOfConfirms, HasGrant, GrantFitsOffer
  <2>2. Confirmed' = {}
    BY DEF Confirmed
  <2>3. HeldAreConfirmed'
    BY <2>2, FS_EmptySet DEF HeldAreConfirmed
  <2>. QED  BY <2>1, <2>3
<1>6. ASSUME UNCHANGED mcpVars
      PROVE  ConfirmsUnderWay' /\ GrantsOfConfirms' /\ HeldAreConfirmed' /\ GrantFitsOffer'
  BY <1>6 DEF mcpVars, sessionVars, backendVars, ConfirmsUnderWay, GrantsOfConfirms, HasGrant,
              HeldAreConfirmed, Confirmed, GrantFitsOffer, Minted
<1>. QED  BY <1>1, <1>2, <1>3, <1>4, <1>5, <1>6, McpSteps, KeepConfirms

-----------------------------------------------------------------------------
(* A step that answers neither a revocation nor a download, unless with a  *)
(* failure.                                                                *)
RefusalsKept ==
  /\ revoked' = revoked
  /\ \A d \in Calls :
       /\ call'[d].tool = call[d].tool
       /\ call'[d].tool \in {"download", "revoke_grant"} =>
            /\ call'[d].grant = call[d].grant /\ call'[d].seen = call[d].seen
            /\ call'[d].status = call[d].status
            /\ call'[d].pc = "ok" => call[d].pc = "ok"

LEMMA KeepRefusals ==
  ASSUME McpInv, NEW c \in Calls,
         \/ \E t \in Transactions, found \in SUBSET Offers : RecordSearch(c, t, found)
         \/ ReceiveSelect(c) \/ ReceiveInit(c) \/ (\E g \in Grants : MintGrant(c, g))
         \/ ReceiveConfirm(c) \/ ReceiveList(c) \/ ReceiveListError(c) \/ ToolFails(c)
  PROVE  RefusalsKept
<1>1. revoked' = revoked
  BY DEF RecordSearch, ReceiveSelect, ReceiveInit, MintGrant, ReceiveConfirm, ReceiveList,
         ReceiveListError, ToolFails, backendVars
<1>2. \E pc, grant, transactions, seen, status :
        /\ Moved(c, pc, grant, transactions, seen, status)
        /\ call[c].tool \in {"download", "revoke_grant"} =>
             pc = "fail" /\ grant = call[c].grant /\ seen = call[c].seen /\ status = call[c].status
  <2>1. CASE ToolFails(c)
    <3>1. Moved(c, "fail", call[c].grant, call[c].transactions, call[c].seen, call[c].status)
      BY <2>1, StepsMoved DEF Ended
    <3>. QED  BY <3>1
  <2>2. CASE ~ ToolFails(c)
    <3>1. call[c].tool \notin {"download", "revoke_grant"}
      BY <2>2 DEF RecordSearch, ReceiveSelect, ReceiveInit, MintGrant, ReceiveConfirm, ReceiveList,
                  ReceiveListError, Awaits, McpInv, ConfirmsUnderWay
    <3>2. \E pc, grant, transactions, seen, status : Moved(c, pc, grant, transactions, seen, status)
      BY <2>2, StepsMoved DEF Ended
    <3>. QED  BY <3>1, <3>2
  <2>. QED  BY <2>1, <2>2
<1>. QED  BY <1>1, <1>2 DEF Moved, RefusalsKept

Told(c) == call[c].tool = "revoke_grant" /\ call[c].pc = "ok" /\ call[c].status # 500

(* What the agent was told, and what it is refused.                        *)
LEMMA RefusalsStep ==
  ASSUME McpInv, [McpNext]_mcpVars
  PROVE  ToldIsRevoked' /\ ToldRevokedIsRefused'
<1>0. /\ \A d \in Calls : Told(d) => call[d].grant \in revoked
      /\ \A d \in Calls : call[d].tool = "download" => call[d].seen \subseteq revoked
      /\ \A d \in Calls : call[d].tool = "download" /\ call[d].pc = "ok" =>
           call[d].grant \notin call[d].seen
  BY DEF McpInv, ToldIsRevoked, ToldRevokedIsRefused, ToldRevoked, Told
<1>1. SUFFICES /\ \A d \in Calls : Told(d)' => call'[d].grant \in revoked'
               /\ \A d \in Calls : call'[d].tool = "download" => call'[d].seen \subseteq revoked'
               /\ \A d \in Calls : call'[d].tool = "download" /\ call'[d].pc = "ok" =>
                    call'[d].grant \notin call'[d].seen
  BY DEF ToldIsRevoked, ToldRevokedIsRefused, ToldRevoked, Told
<1>. DEFINE Goal == /\ \A d \in Calls : Told(d)' => call'[d].grant \in revoked'
                    /\ \A d \in Calls : call'[d].tool = "download" => call'[d].seen \subseteq revoked'
                    /\ \A d \in Calls : call'[d].tool = "download" /\ call'[d].pc = "ok" =>
                         call'[d].grant \notin call'[d].seen
<1>2. ASSUME RefusalsKept
      PROVE  Goal
  BY <1>0, <1>2 DEF RefusalsKept, Told
<1>3. ASSUME NEW c \in Calls, BeginCall(c)
      PROVE  Goal
  <2>1. /\ NewCall(call'[c])
        /\ \A d \in Calls \ {c} : call'[d] = call[d]
        /\ revoked' = revoked
    BY <1>3, BegunCall
  <2>2. /\ call'[c].tool \in {"revoke_grant", "download"} => call'[c].pc # "ok"
        /\ call'[c].tool = "download" => call'[c].seen = ToldRevoked
    BY <2>1 DEF NewCall
  <2>3. ToldRevoked \subseteq revoked
    BY DEF McpInv, ToldIsRevoked
  <2>. QED  BY <1>0, <2>1, <2>2, <2>3 DEF Told
<1>4. ASSUME NEW c \in Calls, ReceiveRevoke(c)
      PROVE  Goal
  <2>1. PICK pc \in {"ok", "fail"}, status \in {200, 404, 409} :
          /\ Moved(c, pc, call[c].grant, call[c].transactions, call[c].seen, status)
          /\ pc = "ok" <=> call[c].grant \in Minted
    BY <1>4, StepsMoved
  <2>2. /\ call[c].tool = "revoke_grant"
        /\ revoked' = revoked \cup ({call[c].grant} \cap Minted)
    BY <1>4 DEF ReceiveRevoke, Awaits, RevokedBy
  <2>. QED  BY <1>0, <2>1, <2>2 DEF Told, Moved
<1>5. ASSUME NEW c \in Calls, ReceiveRevokeError(c)
      PROVE  Goal
  <2>1. Moved(c, "ok", call[c].grant, call[c].transactions, call[c].seen, 500)
    BY <1>5, StepsMoved
  <2>2. call[c].tool = "revoke_grant" /\ revoked \subseteq revoked'
    BY <1>5 DEF ReceiveRevokeError, Awaits, RevokedBy
  <2>. QED  BY <1>0, <2>1, <2>2 DEF Told, Moved
<1>6. ASSUME NEW c \in Calls, ReceiveDownload(c)
      PROVE  Goal
  <2>1. Ended(c, IF call[c].grant \in revoked THEN "fail" ELSE "ok")
    BY <1>6, StepsMoved
  <2>2. call[c].tool = "download" /\ revoked' = revoked
    BY <1>6 DEF ReceiveDownload, Awaits, backendVars
  <2>. QED  BY <1>0, <2>1, <2>2 DEF Told, Ended, Moved
<1>7. ASSUME EndSession
      PROVE  Goal
  BY <1>7, SessionEnds DEF EndedSession, Told
<1>8. ASSUME UNCHANGED mcpVars
      PROVE  Goal
  BY <1>0, <1>8 DEF mcpVars, backendVars, Told
<1>. QED  BY <1>2, <1>3, <1>4, <1>5, <1>6, <1>7, <1>8, McpSteps, KeepRefusals

-----------------------------------------------------------------------------
LEMMA McpInit_Inv ==
  ASSUME McpInit
  PROVE  McpInv
<1>. USE DEF McpInit, Idle
<1>1. McpTypeOK
  BY McpAssumption DEF McpTypeOK, ToolCall
<1>2. SessionOfSearches /\ OfferPrecedesTransaction
  BY DEF SessionOfSearches, OfferPrecedesTransaction
<1>3. ConfirmsUnderWay /\ GrantsOfConfirms /\ GrantFitsOffer
  BY DEF ConfirmsUnderWay, GrantsOfConfirms, HasGrant, GrantFitsOffer
<1>4. HeldAreConfirmed
  <2>1. Confirmed = {}
    BY DEF Confirmed
  <2>. QED  BY <2>1, FS_EmptySet DEF HeldAreConfirmed
<1>5. ToldIsRevoked /\ ToldRevokedIsRefused
  BY DEF ToldIsRevoked, ToldRevoked, ToldRevokedIsRefused
<1>. QED  BY <1>1, <1>2, <1>3, <1>4, <1>5 DEF McpInv

(* The inductive invariant: every variable keeps its type, the session's   *)
(* transaction is that of the last search, its grants are those of the     *)
(* answered confirms, and what the agent was told is revoked is revoked.   *)
THEOREM McpInvariant == McpSpec => []McpInv
<1>1. McpInit => McpInv
  BY McpInit_Inv
<1>2. McpInv /\ [McpNext]_mcpVars => McpInv'
  <2>1. ASSUME McpInv, UNCHANGED mcpVars
        PROVE  McpTypeOK'
    BY <2>1 DEF mcpVars, sessionVars, backendVars, McpInv, McpTypeOK
  <2>. QED  BY <2>1, McpTypeStep, SearchesStep, ConfirmsStep, RefusalsStep DEF McpInv
<1>. QED  BY <1>1, <1>2, PTL DEF McpSpec

(* Whatever a select, an init or a confirm names to the BAP, the offer was *)
(* found no later than the search whose transaction it goes under.         *)
THEOREM OffersPrecedeTransactions == McpSpec => []OfferPrecedesTransaction
<1>1. McpInv => OfferPrecedesTransaction
  BY DEF McpInv
<1>. QED  BY <1>1, McpInvariant, PTL

(* The session holds the grants of the answered confirms, each once and    *)
(* for its offer, and no others.                                           *)
THEOREM HeldAreAnswered == McpSpec => []HeldIsAnswered
<1>1. ASSUME McpInv
      PROVE  HeldIsAnswered
  <2>. HeldAreConfirmed /\ McpTypeOK
    BY <1>1 DEF McpInv
  <2>1. { ref.grant : ref \in ToSet(grants) } = { call[c].grant : c \in Confirmed }
    BY DEF HeldAreConfirmed, ToSet
  <2>2. \A ref \in ToSet(grants) : issued[ref.grant] # None /\ issued[ref.grant].offer = ref.offer
    BY <1>1, HeldAreMinted DEF ToSet, Minted
  <2>. QED  BY <2>1, <2>2 DEF HeldIsAnswered, HeldAreConfirmed, Confirmed
<1>. QED  BY <1>1, McpInvariant, PTL

(* A download presents a grant that was minted for its offer.              *)
THEOREM GrantsFitOffers == McpSpec => []GrantFitsOffer
<1>1. McpInv => GrantFitsOffer
  BY DEF McpInv
<1>. QED  BY <1>1, McpInvariant, PTL

(* A grant the agent was told is revoked gets it no data any more.         *)
THEOREM ToldRevokedAreRefused == McpSpec => []ToldRevokedIsRefused
<1>1. McpInv => ToldRevokedIsRefused
  BY DEF McpInv
<1>. QED  BY <1>1, McpInvariant, PTL
=============================================================================
