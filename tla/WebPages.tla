------------------------------ MODULE WebPages ------------------------------
(***************************************************************************)
(* The pages of the web application side by side.  Each keeps its own      *)
(* state, so every behaviour is about one of them; the others stay in      *)
(* their initial states.                                                   *)
(***************************************************************************)
EXTENDS Naturals

CONSTANTS
  Handlers,                       \* asynchronous handlers of a page
  Offers, LicenseOf, Transactions,   \* as the catalog page sees them
  Grants, Held,                   \* on the page of grants, and with their artifact
  MaxHeld,                        \* the most grants localStorage keeps
  MaxMounts, MaxRuns,             \* bounds: openings of the catalog, demo requests
  MaxFaults, MaxLosses,           \* bounds: failures, of the demo in particular
  None

VARIABLES
  page,      \* "catalog", "grants" or "demo"
  offers, transactionId, busy, mount, away, call, found, minted, held, answered, faults,
  records, downloads, slot, handler, revoked, rejected, failures,
  flow, request, backend, losses

Catalog == INSTANCE WebCatalog WITH Calls <- Handlers

GrantsPage == INSTANCE WebGrants WITH
  Calls <- Handlers, busy <- slot, call <- handler, faults <- failures

Demo == INSTANCE WebDemo WITH MaxFaults <- MaxLosses, faults <- losses

\* What is absent is none of the values it stands beside.
ASSUME PagesAssumption ==
  /\ MaxHeld \in Nat /\ MaxMounts \in Nat \ {0} /\ MaxRuns \in Nat
  /\ MaxFaults \in Nat /\ MaxLosses \in Nat
  /\ LicenseOf \in [Offers -> Catalog!Licenses \cup {None}]
  /\ None \notin Transactions
  /\ None \notin GrantsPage!Kinds \cup GrantsPage!Statuses \cup GrantsPage!Outcomes
  /\ None \notin Offers /\ \A matches \in SUBSET Offers : matches # None

catalogState ==
  <<offers, transactionId, busy, mount, away, call, found, minted, held, answered, faults>>
grantsState == <<records, downloads, slot, handler, revoked, rejected, failures>>
demoState == <<flow, request, backend, losses>>

PagesInit ==
  /\ page \in {"catalog", "grants", "demo"}
  /\ Catalog!WebCatalogInit /\ GrantsPage!WebGrantsInit /\ Demo!WebDemoInit

PagesNext ==
  /\ UNCHANGED page
  /\ \/ page = "catalog" /\ Catalog!WebCatalogNext /\ UNCHANGED <<grantsState, demoState>>
     \/ page = "grants" /\ GrantsPage!WebGrantsNext /\ UNCHANGED <<catalogState, demoState>>
     \/ page = "demo" /\ Demo!WebDemoNext /\ UNCHANGED <<catalogState, grantsState>>

PagesSpec == PagesInit /\ [][PagesNext]_<<page, catalogState, grantsState, demoState>>

-----------------------------------------------------------------------------
(* The offers on the catalog page are those of the search it will confirm  *)
(* under, however the searches' answers overtake each other.               *)
GrantOfItsSearch == Catalog!GrantOfItsSearch

(* localStorage keeps the grants of the latest answered confirms, each     *)
(* once, also of those whose page was left before their answer came.       *)
HeldAreTheLatest == Catalog!HeldAreTheLatest

(* Watch downloads start failing: what the page of grants shows as REVOKED *)
(* is revoked, and a download begun then is not served.                    *)
FlippedMeansRefused == GrantsPage!FlippedMeansRefused

(* The demo shows the grant and the revocation the Access Manager has      *)
(* recorded, and its second download is never served.                      *)
ShownIsRecorded == Demo!ShownIsRecorded

(* Every variable keeps its type, and no page is stuck: a disabled button  *)
(* waits for a handler on its way that will enable it, and the demo always *)
(* offers a next step while nothing has failed.                            *)
NoPageIsStuck ==
  /\ Catalog!WebCatalogTypeOK /\ Catalog!PageIsReleased
  /\ GrantsPage!WebGrantsTypeOK /\ GrantsPage!PageIsReleased
  /\ Demo!WebDemoTypeOK /\ Demo!DemoGoesOn
=============================================================================
