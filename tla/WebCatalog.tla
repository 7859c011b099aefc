----------------------------- MODULE WebCatalog -----------------------------
(***************************************************************************)
(* The catalog page of the console (apps/web): searches, confirms, and the *)
(* signed grants kept in localStorage.  Handlers are asynchronous and the  *)
(* page has one busy slot for all of them, so they overlap; a confirm      *)
(* leads to the page of grants, and coming back mounts a fresh page while  *)
(* the handlers of the old one still run.                                  *)
(***************************************************************************)
EXTENDS Naturals, Sequences, SequencesExt, FiniteSets

CONSTANTS
  Calls,          \* handlers that run
  Offers,         \* offer ids of the network
  LicenseOf,      \* offer -> its bdc:licenseClass, or None without one
  Transactions,   \* transaction ids the BAP draws
  MaxHeld,        \* the most grants localStorage keeps (50 in the code)
  MaxMounts,      \* bound: how often the page is opened
  MaxFaults,      \* bound: requests that fail
  None

VARIABLES
  offers, transactionId, busy,   \* the state of the mounted page
  mount,      \* which opening of the page this is
  away,       \* the user is on the page of grants
  call,       \* handler -> what it asked for and how far it is
  found,      \* transaction -> what its search found, or None
  minted,     \* confirm -> the license class of the grant minted for it, or None
  held,       \* localStorage: the confirms whose grants are kept, newest first
  answered,   \* the confirms in the order their answers came
  faults

pageVars == <<offers, transactionId, busy, mount, away>>
catalogVars == <<pageVars, call, found, minted, held, answered, faults>>

Licenses == {"permissive", "research-only", "no-redistribution"}

Handler ==
  [pc : {"idle", "search", "confirm", "minted", "done", "failed"},
   mount : 0..MaxMounts, offer : Offers \cup {None},
   transaction : Transactions \cup {None}]

WebCatalogTypeOK ==
  /\ offers \subseteq Offers
  /\ transactionId \in Transactions \cup {None}
  /\ busy \in Offers \cup {"search", None}
  /\ mount \in 1..MaxMounts
  /\ away \in BOOLEAN
  /\ call \in [Calls -> Handler]
  /\ found \in [Transactions -> (SUBSET Offers) \cup {None}]
  /\ minted \in [Calls -> Licenses \cup {None}]
  /\ held \in Seq(Calls)
  /\ answered \in Seq(Calls)
  /\ faults \in 0..MaxFaults

WebCatalogInit ==
  /\ offers = {} /\ transactionId = None /\ busy = None
  /\ mount = 1 /\ away = FALSE
  /\ call = [c \in Calls |->
       [pc |-> "idle", mount |-> 0, offer |-> None, transaction |-> None]]
  /\ found = [t \in Transactions |-> None]
  /\ minted = [c \in Calls |-> None]
  /\ held = <<>> /\ answered = <<>>
  /\ faults = 0

(* A handler sets the state of the page it was started on, if that is      *)
(* still the mounted one.                                                  *)
OnPage(c) == call[c].mount = mount /\ ~away

(* setBusy(undefined) in the finally block.                                *)
Released(c) == IF OnPage(c) THEN None ELSE busy

Start(c, pc, offer) ==
  /\ ~away
  /\ call[c].pc = "idle"
  /\ call' = [call EXCEPT ![c] =
       [pc |-> pc, mount |-> mount, offer |-> offer, transaction |-> transactionId]]
  /\ UNCHANGED <<offers, transactionId, mount, away, found, minted, held, answered, faults>>

(* The button is disabled during a search; the Enter key is not.  Bound:   *)
(* no more searches than transaction ids.                                  *)
DoSearch(c) ==
  /\ Cardinality({ d \in Calls : call[d].pc = "search" })
       < Cardinality({ t \in Transactions : found[t] = None })
  /\ Start(c, "search", None)
  /\ busy' = "search"

(* Defect: the transaction is set by the first search only.                *)
SearchAnsweredDefect(c, t, matches) ==
  /\ call[c].pc = "search"
  /\ found[t] = None
  /\ found' = [found EXCEPT ![t] = matches]
  /\ IF OnPage(c)
     THEN /\ offers' = matches
          /\ transactionId' = IF transactionId = None THEN t ELSE transactionId
     ELSE UNCHANGED <<offers, transactionId>>
  /\ busy' = Released(c)
  /\ call' = [call EXCEPT ![c].pc = "done"]
  /\ UNCHANGED <<mount, away, minted, held, answered, faults>>

(* POST /api/search: the offers and the transaction of one answer are set  *)
(* in one render, whatever another search has set meanwhile.               *)
SearchAnswered(c, t, matches) ==
  /\ call[c].pc = "search"
  /\ found[t] = None
  /\ found' = [found EXCEPT ![t] = matches]
  /\ IF OnPage(c) THEN offers' = matches /\ transactionId' = t
                  ELSE UNCHANGED <<offers, transactionId>>
  /\ busy' = Released(c)
  /\ call' = [call EXCEPT ![c].pc = "done"]
  /\ UNCHANGED <<mount, away, minted, held, answered, faults>>

(* The button of a shown offer, enabled unless busy is this very offer;    *)
(* the handler has the transaction of the render it belongs to.            *)
RequestAccess(c, o) ==
  /\ o \in offers
  /\ busy # o
  /\ Start(c, "confirm", o)
  /\ busy' = o

(* offer.licenseClass ?? 'permissive'                                      *)
GivenLicense(o) == IF LicenseOf[o] = None THEN "permissive" ELSE LicenseOf[o]

(* POST /api/confirm reaches the BAP, which answers for any transaction,   *)
(* and a grant is minted.                                                  *)
MintGrant(c) ==
  /\ call[c].pc = "confirm"
  /\ minted' = [minted EXCEPT ![c] = GivenLicense(call[c].offer)]
  /\ call' = [call EXCEPT ![c].pc = "minted"]
  /\ UNCHANGED <<pageVars, found, held, answered, faults>>

AtMost(s) == SubSeq(s, 1, IF Len(s) < MaxHeld THEN Len(s) ELSE MaxHeld)

(* The grants kept, without c if it is among them.                         *)
Others(c) == IF c \in ToSet(held) THEN SelectSeq(held, LAMBDA g : g # c) ELSE held

(* Defect: the new grant is put last, where the cap cuts it off.           *)
AddHeldGrantDefect(c) == AtMost(Append(Others(c), c))

AddHeldGrant(c) == AtMost(<<c>> \o Others(c))

(* The grant is stored, also from a page that is gone, and the browser     *)
(* goes to the page of grants.                                             *)
ConfirmAnswered(c) ==
  /\ call[c].pc = "minted"
  /\ held' = AddHeldGrant(c)
  /\ answered' = Append(answered, c)
  /\ away' = TRUE
  /\ busy' = Released(c)
  /\ call' = [call EXCEPT ![c].pc = "done"]
  /\ UNCHANGED <<offers, transactionId, mount, found, minted, faults>>

(* Defect: the slot is released on success only.                           *)
HandlerFailsDefect(c) ==
  /\ call[c].pc \in {"search", "confirm", "minted"}
  /\ faults < MaxFaults
  /\ faults' = faults + 1
  /\ call' = [call EXCEPT ![c].pc = "failed"]
  /\ UNCHANGED <<pageVars, found, minted, held, answered>>

(* An error status or no answer: the page shows the error.                 *)
HandlerFails(c) ==
  /\ call[c].pc \in {"search", "confirm", "minted"}
  /\ faults < MaxFaults
  /\ faults' = faults + 1
  /\ busy' = Released(c)
  /\ call' = [call EXCEPT ![c].pc = "failed"]
  /\ UNCHANGED <<offers, transactionId, mount, away, found, minted, held, answered>>

(* The user opens the catalog again: a fresh page.                         *)
OpenCatalog ==
  /\ away
  /\ mount < MaxMounts
  /\ mount' = mount + 1
  /\ away' = FALSE
  /\ offers' = {} /\ transactionId' = None /\ busy' = None
  /\ UNCHANGED <<call, found, minted, held, answered, faults>>

HandlerEnds(c) ==
  \/ \E t \in Transactions, matches \in SUBSET Offers : SearchAnswered(c, t, matches)
  \/ MintGrant(c)
  \/ ConfirmAnswered(c)
  \/ HandlerFails(c)

WebCatalogNext ==
  \/ \E c \in Calls :
       \/ DoSearch(c)
       \/ \E o \in Offers : RequestAccess(c, o)
       \/ HandlerEnds(c)
  \/ OpenCatalog

WebCatalogSpec == WebCatalogInit /\ [][WebCatalogNext]_catalogVars

-----------------------------------------------------------------------------
(* The offers on the page are those of the search whose transaction the    *)
(* page will confirm under, however the searches' answers overtake each    *)
(* other: a grant is minted under the transaction that offered it.         *)
GrantOfItsSearch ==
  \A c \in Calls :
    call[c].offer # None =>
      /\ call[c].transaction # None
      /\ found[call[c].transaction] # None
      /\ call[c].offer \in found[call[c].transaction]

(* localStorage keeps the grants of the latest answered confirms, each     *)
(* once, also of those whose page was left before their answer came.       *)
HeldAreTheLatest ==
  LET n == Len(answered) IN
  held = [i \in 1..(IF n < MaxHeld THEN n ELSE MaxHeld) |-> answered[n + 1 - i]]

(* The page never stays busy: a disabled button waits for a request of its *)
(* page that is on its way and will enable it, by an answer or a failure.  *)
PageIsReleased ==
  busy # None /\ ~away =>
    \E c \in Calls : OnPage(c) /\ call[c].pc \in {"search", "confirm", "minted"}
=============================================================================
