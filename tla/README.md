# Verifying bdc: consent, from a search to a file

This directory holds TLA+ modules for the services of this repository, the TLC
configurations that check them on small instances, and proofs, checked by
TLAPS, of the theorems about them. A module is read with the code beside it:
`PROJECT.json` names, for each definition, the lines it stands for.

## 1. The system

A consumer finds data sets, contracts for one, receives a signed *access grant*
and redeems it at the data holder. Consent can be withdrawn at any time and
must then take effect at once.

    web app / MCP client
          |  HTTP / MCP tools
          v
      BAP orchestrator  --discover/select/init/confirm-->  BPP 1..3
          |             <-------- on_* callbacks --------     |
          |  POST /grants                                     |  isRevoked,
          v                                                   |  recordRedemption
      Access Manager  ---- grants, grant_revocations ---->  Postgres
                             (shared database)

| Component | State | Operations | Hard behaviour |
|---|---|---|---|
| Access grant (`packages/beckn-schemas/src/grant.ts`) | none | `issueGrant`, `verifyGrant` | clocks that differ, boundaries of the time window |
| Access Manager (`services/access-manager`) | table `grants` (status ISSUED, EXPIRED, REVOKED), table `grant_revocations`, the connection pool | `POST /grants`, `GET /grants`, `GET /grants/:id`, `POST /grants/:id/revoke`, the expiry sweep | a transaction over two tables, row locks, concurrent revocations, a sweep racing a revocation, lost replies, crashes |
| BPP download gate (`services/bpp/src/download.ts`) | table `bpp_grant_redemptions`, requests in flight | `GET /download` | any number of downloads between the check of the revocation and the count, failures half-way, several BPP processes on one table |
| BPP responder (`services/bpp/src/app.ts`, `catalog.ts`, `beckn/builders.ts`) | a static catalog | `discover`, `select`, `init`, `confirm`, each answered by a later callback | a fire-and-forget callback |
| BAP orchestrator (`services/bap/src/orchestrator.ts`) | map of pending collectors by transaction and action, their timers | `search`, `select`, `init`, `confirm`, `on_*` | timeouts against late, duplicated and missing callbacks; two requests under one key; a grant issued after a callback |
| Message authentication (`packages/crypto-utils/src/beckn-auth.ts`) | the replay cache of each participant | `sign`, `verify` | clocks, expiry of cache entries against the window of acceptance |
| Signatures (`packages/crypto-utils/src/canonical.ts`, `ed25519.ts`) | none | `canonicalJson`, `sign`, `verify`, `signingBase` | key order, `undefined`, numbers without a JSON form |
| MCP server (`services/mcp-server`) | per session: offers, grants, last transaction | seven tools | overlapping tools, offers of an older search, state read again after an await |
| In-memory stores (`stores/memory.ts`, twice) | maps in one process | those of the Postgres stores | restart; a revocation that no other process sees |
| Schema initialisation (`stores/postgres.ts`, twice) | tables, an advisory lock of the session | `initSchema` | services booting at once on an empty database, one that ends half-way |
| Web app (`apps/web`) | per page: what is shown, one busy slot; a list of grants in `localStorage` | the buttons of three pages, proxies to the services | handlers that overlap, answers that overtake each other, requests lost |
| Seed catalogs (`services/bpp/scripts/generate-seed.ts`) | three catalogs | | what one component builds another must be able to use |

What makes each correct:

- *Access Manager*: the ledger and the revocation table agree whatever fails; a
  revocation reported is one the BPPs see; exactly one of several concurrent
  requests revokes; no artifact leaves that the ledger does not know; statuses
  move forward only; a revocation is answered and an expired row swept.
- *Download gate*: the cap holds however many downloads are in flight, and no
  slot is wasted on a request that got nothing; a download begun after a
  revocation is refused; the tolerated skew is enough and no more than needed.
- *Orchestrator*: a caller gets the answers to its own request; nobody waits
  for ever; no grant is asked for without a confirmed contract; the registry of
  collectors holds only live ones.
- *Message authentication*: a message is accepted at most once, not refused for
  its time while it is fresh, and not accepted long after.
- *Signatures*: what verifies is what was signed; a value that comes back in
  another key order still verifies; nothing signed is dropped on the way.
- *MCP session*: an offer or a grant is used with the transaction it came from;
  the agent holds what was answered to it.
- *Web pages*: what is shown is what the backend recorded; no page is left with
  a disabled button and nothing on its way.
- *Catalog and journey*: a search shows what was asked for, and what it shows can
  be contracted, granted and downloaded.
- *Start-up*: no boot fails on another's tables, and every service gets its own.

The first two, with the grant they exchange, are the core: they decide who gets
data. They are modelled, checked and proved, and so is the safety of all the other
parts.

## 2. The modules

| Module | Models | Uses |
|---|---|---|
| `AccessGrant` | scopes, claims, requests and `verifyGrant` (pure) | |
| `GrantStore` | what the services share: time, signed claims, who holds a grant, the committed revocation table, a budget of failures | `AccessGrant` |
| `AccessManager` | the Access Manager on its Postgres store | `GrantStore` |
| `Redemption` | `GET /download` at the BPPs | `GrantStore` |
| `ConsentGate` | the abstract gate: consent given and withdrawn at an instant, visitors admitted, served within a limit, or turned away | |
| `GrantExchange` | Access Manager and BPPs interleaved; refinement mapping to `ConsentGate` | `AccessManager`, `Redemption` |
| `SchemaInit` | `initSchema` of the services that boot on one database | |
| `DevStores` | both services on their in-memory stores | |
| `Orchestrator` | the BAP: fan-out, collectors, timers, callbacks, `confirm`; the BPPs as responders; the network | |
| `MessageAuth` | `signMessage`, `verifyMessage` and the replay cache, between two clocks | |
| `SignedJson` | canonical JSON, signatures over grants and messages, the transport | |
| `BppCatalog` | search, the contract builders and `resolveFile` as operators of a catalog (pure) | `AccessGrant` |
| `SeedCatalogs` | the three catalogs of `generate-seed.ts` (pure) | |
| `Journey` | one consumer from a search to a file, through every component's part of it | `BppCatalog` |
| `McpSession` | the seven tools on one session | |
| `WebCatalog`, `WebGrants`, `WebDemo` | the console's catalog, its page of grants, the guided demo | |
| `Stores` | the Access Manager on Postgres, the boots and the in-memory stores, side by side | `AccessManager`, `SchemaInit`, `DevStores` |
| `WebPages` | the three pages side by side | `WebCatalog`, `WebGrants`, `WebDemo` |
| `AccessManager_proofs` | its theorems | `AccessManager` |
| `GrantExchange_proofs` | the theorems of the composed gate; it implements `ConsentGate` | `GrantExchange`, `AccessManager_proofs` |
| `Stores_proofs` | the theorems of the boots and of the in-memory stores | `Stores` |
| `WebPages_proofs` | the theorems of the three pages | `WebPages` |
| `Messages_proofs` | the theorems of `MessageAuth` and of `SignedJson` | `MessageAuth`, `SignedJson` |
| `Orchestrator_proofs`, `McpSession_proofs`, `Journey_proofs` | their theorems | `Orchestrator`, `McpSession`, `Journey` |
| `MCGrantExchange`, `MCStores`, `MCWebPages`, `MCJourney`, `MCMcpSession` | constants and symmetries for TLC | |
| `MCMessages` | `MessageAuth` and `SignedJson` side by side for TLC | |

`Stores`, `WebPages` and `MCMessages` put several components into one instance. A
variable (`stores`, `page`, `subject`) says which of them a behaviour is about; it
never changes, and the variables of the others keep their initial values. So the
states of such a run are the union of the components' states, not their product,
and each property is that of the component alone: of `Stores` that is a theorem
(`StoresImplementEach`), and of `WebPages` a lemma (`PagesImplementEach`).

### State and actions against the code

A step of a model is what the code does between two awaits (or between two SQL
statements): nothing else can run there in a Node process or in a transaction.

`AccessManager`. `issue[g]` is the request that mints the grant id `g` (a fresh
UUID, so no two requests share one): `Sign` reads the clock, builds and signs
the claims; `Save` is `store.save`; `SaveFails` a save that throws with the row
written or not; `ReplyIssued` and `ReplyLost` the 201. `ledger[g]` is the
*committed* status of the row. `revoker[r]` is one request to revoke, with the
statement it is at: `Begin`, `SelectForUpdate`, `UpdateStatus`,
`InsertRevocation`, `Commit`, and `Rollback` for the 404, the 409 and the catch
block. `writes[r]` holds what its open transaction has written and nobody else
sees; `rowLock` is the row lock that `FOR UPDATE` takes; `connections` the
clients checked out of the pool, given back in the `finally`. `CommitAnswerLost`
is the case in which Postgres commits and the connection breaks before the
answer. The sweep is one `UPDATE ... WHERE status = 'ISSUED' AND expires_at <
$1`, which under READ COMMITTED scans a snapshot (`SweepScan`), then locks row by
row, waiting for locks and testing the clause again (`SweepRow`), then commits.
`CrashAccessManager` ends every request and lets Postgres roll back.

`Redemption`. `download[d]` is one request: `Present` (clock read, offline
verification), `CheckRevocation`, `FileMissing` or `RecordRedemption`, `Answer`.
`downloadsUsed` is the table of counts. `DownloadFails` is a query that throws,
after the upsert was executed or before, or a stream that breaks; `CrashBpp`
ends all downloads of one BPP.

`Orchestrator`. `call[c]` is one request to the client API with what it has
received; `pending` is the `Map` from transaction and action to the collector,
here the call that registered it; `timers` the armed `setTimeout`s. `FanOut`
registers a collector, in the place of an older one if there is one, and sends
the requests; `Respond` is a BPP route with its later callback;
`DeliverCallback` is the `on_*` route with the replay cache and
`deliverCallback`; `WindowElapses` the timer's function; `AfterWindow` what
`search`, `single` and `confirm` do with the collected responses; `IssueGrant`
and `IssueFails` the request to the Access Manager. A search draws a fresh
transaction id; the other calls name any, so a client may repeat one while the
first is open. `CrashBap` empties the registry and the replay cache.

`MessageAuth`. `arrival[a]` is one delivery of a message, possibly the second of
the same message: `Receive` is `verifyMessage` up to its await, with the window
tests; `Finish` what follows, with `ReplayCache.seen` and its `prune`. The
verifier's clock counts ticks, of which there are `TicksPerSecond`; the header
holds whole seconds of the sender's clock, as in the code, where the cache
compares milliseconds and the window seconds.

`SignedJson`. A value is a tagged tuple. An object maps each name to its value, or
`Absent`, and to the place at which it was inserted; two objects that differ in
places alone have the same members in another order. `Json` builds the values up by
nesting. `Serialize` is `serialize` as a sequence of tokens, `SerializeThrows` the
values it throws on; both are recursive functions, `CanonicalJson` and `Throws` apply
them. A signature is the pair of the key and the text it was made for. `OnTheWire`
is `JSON.parse(JSON.stringify(v))`, `Plain` a value without its key order, in which
zod and JSONB are free (`SameJson`). A behaviour signs one value as a grant
(`IssueGrant`, which throws) or a message (`SignBody`, which normalizes first),
delivers it or another (`Deliver`, `DeliverOther`) and verifies (`VerifyReceived`).

`SchemaInit`. `pc[s]` is where the boot of service `s` is: waiting for the advisory
lock, at a statement of `SCHEMA_SQL`, at the implicit commit, unlocking. A
statement is two steps, because `IF NOT EXISTS` is tested (`Exists`) before the
relation is entered into the catalogue of the database (`Create`); `entered[s]` are the
relations of its open transaction. A creation that meets a name another
session has entered waits for that session and fails when it commits (`collided`). `Crash` ends a service, `DatabaseRestart` all
sessions, and either gives locks back and rolls back.

`DevStores`. `ledger` is the map of `InMemoryGrantStore`, `revoked` and `counts` those of the
BPP. There is no action that writes `revoked`, because no code of the service does.
`RestartAm` and `RestartBpp` empty the maps of one process.

`BppCatalog` and `Journey`. A catalog maps offer ids to offers with the attributes that
the filters, the builders and `resolveFile` read, any of which may be `None` where the
schema makes it optional. `Journey` follows one consumer: `Discover` (every BPP
answers from its catalog), `Choose` (an offer that was shown, as `recordSearch` and
`flattenOffers` flatten it, or a stray pair of provider and offer id), `Negotiate`,
`Refuse` (the BAP's 400s), `Confirm` (contract from the BPP, grant from the Access Manager),
`Download` (verification and file at the access URL of the contract).

`McpSession`. `call[c]` is one tool call: the names of the actions are the tools'
(`SearchResources`, `RequestAccess`, ...), and `Receive...` is what a handler does when an
awaited answer is there. `offers`, `grants` and `lastTransactionId` are the fields of
`BdcSession`; `RecordSearch` and `RecordGrant` its methods. `EndSession` is the end of the stdio
process. `issued` and `revoked` are what the backend knows. `searches` and the fields `transactions`
and `seen` of a call are history variables.

`WebCatalog`, `WebGrants`, `WebDemo`. `call[c]` (in the demo `request[r]`) is one run of an event
handler; `busy` is the page's only busy slot, which a press takes and the end of
any handler gives back. `WebCatalog` keeps the page's `offers` and `transactionId`, the
grants held in `localStorage` (`held`, cut at `MaxHeld` where the code has 50) and `mount`, the number of
the page's mount: a handler of an earlier mount still stores its grant but sets no
state. `WebGrants` keeps the rows, the outcomes of downloads, and the backend's
revocations. `WebDemo` keeps `flow`, the page's `FlowState`; `Patch` merges an answer into it.

Fields named `begun`, `begunRevoked`, `flipped` and `seen` are history: they record what was true
when a download or a call started, and no guard reads them.

### What is abstracted

- Refusals that touch no state are left out: a malformed or absent grant, 400,
  401 and 503 answers, rate limits. A signature verifies exactly for what was
  signed with its key; `SignedJson` looks at what that is.
- Whether the file is on disk is a free choice at each download.
- A BPP reads any clock within `MaxDrift` of the Access Manager's.
- At most one sweep is in flight. Overlapping sweeps would need one to take
  longer than an interval; they run the same statement on locked rows.
- Requests to revoke may name any grant, issued or not, any number of times.
- In `Orchestrator` a callback is refused the second time whenever it comes: the
  aggregation window is shorter than a signature's lifetime. `MessageAuth` looks
  at the cache more closely. Which fields a catalog or a contract has is left to
  `BppCatalog`; here a contract is known by the BPP and the call it answers.
- In `MessageAuth` headers that do not parse and unknown keys are left out, and
  each message has a nonce of its own.
- `SignedJson` has numbers for keys, of which only the order matters, and a string
  is a token: two strings are written alike only if they are equal. The scalars are
  `undefined`, `null`, both zeros, a number without a JSON form, and any others. A
  text is as good as its bytes because `JSON.stringify` writes a string, a number or a
  literal so that it shows where it ends; that is taken from the language. So is that
  no HTTP header holds the newline that `signingBase` puts between a header's fields.
- Free text is a set of the words a query can name; a minimum of rows is a number.
- An offer id names one offer. Two BPPs could publish the same id, in which case
  the session would keep one of the two; the seed catalogs do not.
- The MCP backend is what the gateway sees of it. It draws fresh transaction and
  grant ids (bound `IdsLeft`).
- A page is opened and left by the user; React sets no state of a page that is
  gone.
- Callers that can read `GET /grants` can fetch a grant whose 201 was lost.

## 3. The runs

| Run | Instance | Shows |
|---|---|---|
| `stores` | Postgres: 1 grant, 2 revoke requests, the sweep, pool of 2, 1 failure, clock 0..2. Boot: 1 Access Manager, 2 BPPs, 2 crashes. In memory: 2 grants with cap 1, 2 downloads, 1 restart | safety and liveness of the stores |
| `exchange` | 1 grant with cap 1 or 2, 3 downloads, 1 revocation, 1 failure | the inductive invariant, the cap exact in both directions, revocation honoured, `ConsentGate` implemented |
| `exchange_clock` | 1 grant living 1 s, clock 0..4, drift and skew 1, right and wrong BPP, right, absent and wrong offer | the window against clocks that differ |
| `exchange_subset` | 1 subset grant for one field of two | **violated**, see section 6 |
| `orchestrator` | 2 calls, 2 transactions, 2 BPPs, 1 fault | the registry, searches, contracts and grants under late, repeated, lost and crossing callbacks; every call is answered |
| `orchestrator_late` | 2 calls under one key | **violated**, see section 6 |
| `messages` | 1 message, 3 copies, lifetime, skew and drift of 1 s, half-second ticks, 1 restart; values of two levels with 2 names, 2 keys, 2 headers | the window and the cache; signatures |
| `message_auth_once` | 1 message, 2 copies | **violated**, see section 6 |
| `mcp_session` | 4 calls of tools, 2 offers, 2 transactions, 2 grants, 1 fault | the session against the backend |
| `mcp_revoke` | 2 calls of tools, 1 fault | **violated**, see section 6 |
| `web_pages` | catalog and grants: 4 handlers, 2 offers or grants, 2 transactions, 2 mounts, 1 fault; demo: 9 requests, 3 faults | what the pages show and whether they go on |
| `journey` | the 3 seed catalogs and 2 with gaps, 384 discover messages, 3 scopes, 2 strays | searches, and offers against what can be obtained |

Why the bounds are enough to be interesting. Two revocations suffice for the
races between revocations (the row lock admits one at a time; a third only
waits). Three downloads against a cap of two are the least with which a cap
above one is exceeded. One failure at every possible point covers each recovery
path. The proofs have no bound on failures, grants, revocations and downloads.
Two calls contend for one key, and the first can time out before the second is
made, which is what the collectors can get wrong; two BPPs let an answer be
attributed to the wrong one. Nine half-second ticks outlast lifetime, drift and
skew of one second each, so that every copy can be early, fresh, in the skew or
too late. Values of two levels (`MaxNesting`) hold an object in an object and in an array, where
an algorithm that sorts or filters one level only goes wrong. Four tool calls
allow two searches and two confirms, or a search, a confirm, its revocation
and a download. Four handlers allow two searches and two confirms that overtake
each other; a cap of two held grants is overrun by three. The demo has five steps;
nine requests let four of them be repeated after failures. The two catalogs with gaps lack, one
by one, what the schema leaves optional: resources, row count, license class,
file, the name of the BPP.

`MaxTime`, `MaxDrift`, `MaxFaults`, `MaxRestarts`, `MaxCrashes`, `MaxClock`, `MaxMounts`, `MaxRuns` and
`IdsLeft` are the only bounds on counters and stand in guards. Grants, revokers,
downloads, copies, tool calls, handlers and transactions are symmetric where a run
checks safety only, or only the refinement; the runs with liveness use no symmetry.

Each grant id, revoke request, download, call and copy is used once. In the
Access Manager the sweep's timer keeps running, services that are up wait for
requests, and `stores` and the `exchange` runs check that nothing deadlocks. The other
parts only react: when the instance's calls, copies or handlers are used up there is
nothing left to do, so their runs say `CHECK_DEADLOCK FALSE`; `CallAnswered` and `NoPageIsStuck`
state what must not get stuck.

## 4. Properties

| Component | Properties |
|---|---|
| Access Manager | `LedgerMatchesTable`, `AnsweredMeansRevoked`, `RevokedOnce`, `HeldIsRecorded`, `LedgerMovesForward` (an action property), `RevokeAnswered`, `ExpiredIsSwept` (liveness) |
| Start-up | `BootsDoNotCollide`, `EveryoneBoots` (liveness) |
| In-memory stores | `MemoryKeepsItsWord` |
| Gate | `ExchangeInv`, `CapRespected`, `NoSlotWasted`, `RevocationHonoured`, `WindowHonoured`, `ImplementsGate` (refinement), `SubsetConfined` (fails) |
| Orchestrator | `RegistryIsLive`, `SearchIsComplete`, `ContractFromChosenBpp`, `GrantNeedsContract`, `CallAnswered` (liveness), `LateCallbackIgnored` (fails) |
| Messages | `FreshIsTimely`, `OnlyAcceptanceBurnsNonce`, `OnceWhileRemembered` (an action property), `AcceptedOnce` (fails) |
| Signatures | `SignedLosesNothing`, `IntactVerifies`, `MessagesAreSigned`, `AcceptedIsWhatWasSigned` |
| MCP session | `OfferPrecedesTransaction`, `HeldIsAnswered`, `GrantFitsOffer`, `ToldRevokedIsRefused`, `RevokeToolIsTruthful` (fails) |
| Web pages | `GrantOfItsSearch`, `HeldAreTheLatest`, `FlippedMeansRefused`, `ShownIsRecorded`, `NoPageIsStuck` |
| Catalog and journey | `SearchHonoursIntent`, `OfferedIsObtainable`, `ServedIsOffered` |

Each is stated in words where it is defined. The type invariants are conjuncts
of one property of each component. Every property of a passing run is violated
by at least one plausible bug (`mutants` in `PROJECT.json`; the operators whose
names end in `Defect`, and a few alternatives beside them).

`RevocationHonoured` speaks of downloads that *begin* after the revocation is
committed. One that is past its check when the revocation commits is served;
`ConsentGate` says the same: consent must stand at the instant of admission.

`NoSlotWasted` counts a failed download as a possible holder of a slot: when the
upsert's answer is lost the database has counted a download that served nothing.

`ContractFromChosenBpp` holds for callers that do not reuse a transaction and
action; `LateCallbackIgnored` shows what happens to those that do.
`OnceWhileRemembered` holds until a message expires; `AcceptedOnce` shows what
happens in the skew after it.

`OfferPrecedesTransaction` allows what the session does, naming an old offer
under the transaction of a later search; it forbids the reverse, an offer named
under a transaction that was there before the offer was found.

`NoPageIsStuck` excuses the page of grants after a `fetch` that is rejected
rather than answered with a status: there the code gives nothing back (section 6).
For the demo it promises a next step as long as nothing has failed.

`OfferedIsObtainable` speaks of complete offers: the catalog names its BPP, and
the offer has a resource, a license class and a file. Every offer of the seed
catalogs is complete.

## 5. Fairness

`StoresFairness` assumes of the Access Manager, as `AMFairSpec` does, that a
statement sent to the database is eventually executed and that the timer fires.
Whoever waits for a connection or a row lock may find it free and taken again any
number of times, so weak fairness is not enough; node-postgres queues waiters for
a client and Postgres queues waiters for a row lock in order of arrival, so a
waiter is not overtaken for ever, which strong fairness of a request's steps
expresses. The sweep needs weak fairness only. Of a boot it assumes weak fairness
per service: Postgres executes what it is sent, and `restart: unless-stopped` starts a
container that ended again. Failures, crashes, the arrival of requests and the
passing of time are never assumed.

`OrchestratorFairSpec` assumes that a timer that is armed fires and that a
request to the Access Manager ends: weak fairness per call, because nothing but
the event loop or a crash can disable either. No BPP, request or callback is
assumed to make progress.

Nothing is assumed of the MCP server and the web pages: that they are not left
waiting is stated as an invariant.

## 6. Findings

Places where the code does otherwise than the repository says. Four are kept as
runs that TLC must find violated.

`SubsetConfined` is violated. `docs/03_bpp.md:42` says that "a `subset` grant
can't pull fields outside its list". The code compares the *requested* fields
with the scope when the request names any; the file is then chosen by
`resolveFile` from the offer and the kind of the scope (`catalog.ts:92`), and the
full file is sent. With or without a `fields` parameter, a subset grant yields
every field.

`LateCallbackIgnored` is violated. `orchestrator.ts:146` says "unknown or late
callback". A callback is matched by transaction and action, so the late
answer to a call that timed out is collected by its retry, also when the retry
chose another BPP.

`AcceptedOnce` is violated. `beckn-auth.ts:22` says that the cache "makes each
message single-use inside the window". The cache forgets a nonce when its message
expires, the window accepts the message for the skew longer, and a copy delivered
twice in between, or before and in between, is accepted twice.

`RevokeToolIsTruthful` is violated. `server.ts:225` of the MCP server says that the
provider "will immediately reject any download presenting it". The tool fails
on a 404 only (`server.ts:230`); a 500 or 429 of the Access Manager is reported to the agent
as a revocation, and the provider goes on serving the grant. `ToldRevokedIsRefused` is what
remains true: what was answered with a success is refused.

Others were met while modelling and are not kept as runs:

- `orchestrator.ts:119`: a second call under the same transaction and action takes
  the place of the first collector, and the callback that the first waits for.
- `gateway.ts:118` of the MCP server: `listGrants` reads the body of an error as an
  empty list, and the agent that holds grants is told it has none.
- `session.ts:77`: offers of all searches stay; `view_resource` announces one "from the last
  search" (`server.ts:107`).
- `server.ts:137`: `request_access` reads the transaction again after its select; a search
  answered in between moves the init to another transaction.
- `console/catalog/page.tsx:67`: an offer without a license class is confirmed as
  'permissive', the widest; the agent's tool refuses the same offer (`server.ts:166`).
- `console/grants/page.tsx:39`: a list read before a revocation can arrive last and put
  the row back to ISSUED until the next refresh. Lines 46 to 71: a rejected `fetch` leaves
  the busy slot taken.
- `demo/demo-flow.tsx:187`: when the answer to the revocation is lost, its repetition
  gets a 409, which is shown as a failure for ever; a first download that is not
  ok, or an empty search, hides its button and shows no next one.
- `beckn/builders.ts:55`: one value of an intent that does not parse discards the whole
  intent, where line 52 has "unknown enum values -> ignored field".
- `stores/memory.ts:27` of the Access Manager: without a database a revocation never reaches
  a BPP, where `stores/types.ts:34` has "AND write to the shared revocation table".

## 7. The proofs

The theorems hold for any sets of grants, requests, downloads, BPPs, calls,
messages, services, handlers, catalogs and JSON values, any depth of nesting, any
pool size, skew, drift, resolution of the clocks and number of failures. The assumptions are the named `ASSUME`s on
constants: numbers are natural, `None` is none of the values it stands beside,
requests, catalogs and license classes have the shape the schema gives them, a
catalog names the BPP that serves it or none (`generate-seed.ts:205`, `config.ts:41`),
scalars are told from arrays and objects by their type, a string that is not hex is no
key and no signature, and there are finitely many BPPs (the participant registry is a
list), downloads and names of members (as many as one likes).

`AMInvariant` is the inductive invariant `AMInv` of the Access Manager. The
safety properties are not inductive alone: that the ledger and the table agree
after `Commit` needs that the transaction has written *both* rows
(`TransactionHolds`); that at most one request revokes needs that whoever is past
its SELECT holds the row lock and the row is still unrevoked
(`TransactionHolds`); that the sweep does not overwrite a revocation needs that
the rows it has marked are locked by it, still ISSUED and past their time
(`SweepHolds`); and that no held grant is unknown needs the order of signing,
saving and replying (`RowsAreSigned`). There is one lemma per action.
`NoLockIsLeaked` is the safety half of `RevokeAnswered`: connections and row
locks are held by those inside their transaction only, on every path through
`revoke` and the sweep, those that fail included (`ReleaseLeaksNothing`,
`SweepEndLeaksNothing`). What stays with TLC is that who is inside gets on.

`ExchangeInvariant` composes it with `RedemptionInv`. A step of the BPPs leaves
`AMInv` alone (`OthersInv`); a step of the Access Manager can only add to what is
held and to what is revoked and never changes the claims of a held grant
(`AMStepsMoveOn`), which is all the downloads rely on (`MovesOnInv`). The cap
follows from `SlotsAreExclusive`: the upsert gives no number twice, and who is
served holds a number between 1 and the cap, so the slots are an injection of
the downloads served into `1..cap` (`ServedWithinCap`).

`NoSlotIsWasted` is the cap's counterpart from below and needs the count to be
bounded by downloads: `SlotsInv` says that `downloadsUsed` is at most the number
of downloads that were told a slot or failed, perhaps after the upsert
(`CountsAreTaken`), and that a refused download with a slot was over the cap. Those
over the cap have distinct slots above it (`HoldersFillTheCap`), so at least `cap`
of those counted are not refused.

`GateImplemented` proves the refinement. Signing, the statements of an open
transaction, the sweep and the clock change nothing the gate sees; the row of a
grant appears as *Give*; the COMMIT of a revocation, whose two writes are there
together by `TransactionHolds`, is *Withdraw*; the revocation query is *Admit*,
because what is held is recorded and the ledger agrees with the table; the answer
is *Serve*, because the slots of those served and of the one to be served are
distinct and at most the cap (`RoomForOneMore`); refusals, failures and the crash of
a BPP with all its downloads are *TurnAway*.

`SchemaInvariant`: all services lock one key, so one holds it; only the holder has
entered relations that are not committed; so what its `IF NOT EXISTS` found absent
stays absent until it creates it, and no CREATE meets another session's row.

`OrchestratorInvariant`: the registry holds only collectors somebody waits for,
under their own key, and a call waits exactly while its timer is armed, also when a
later call has taken its place in the registry; a collected callback carries the
collector's key and, while the caller waits, its id is in the replay cache, hence
nothing is collected twice; and so many different answers of the BPPs of one
search are answers of all of them (`SearchesComplete`, by injection). Only
an answered confirm goes to the Access Manager.

`AuthInvariant`: the verdict of a verification is that of the window at its begin, of
the signature and of the cache at its end; what this life of the service accepted
is in the cache until its expiry has passed, and only that is in it. The window
lemmas bound what rounding a clock to seconds can do (`SecondsWithin`).

`SignedInvariantHolds`: a signature is over the whole text of what was signed
(`SignedInFull`), what the verifier has came over the wire (`ReceivedFromTheWire`) and a
verdict is that of the verification. It rests on four facts about every value,
however deep it nests: the transport leaves nothing that `serialize` throws on
(`WireNeverThrows`); it changes nothing that `serialize` does not throw on
(`WireKeepsSigned`); values that differ only in the order of members have one text
(`SameValueSameText`); and two values have one text only if that is all they
differ in (`SameTextSameValue`). Without the last a signature over one grant would be
one over another.

The prover has no induction over data, because the library's induction theorems
take an operator as a parameter. These proofs make do without: a set of
numbers that is not empty has a smallest (`SmallestExists`), so a set that has 0 and
with each number the next has all up to any bound (`CountUp`), and so a set that has
a value as soon as it has what the value holds has every value (`JsonInduction`).
The sets are those of the values, or of the levels of nesting, a statement is true
of. A recursive function is a CHOOSE, so it has first to be shown that some function
satisfies the recursion (`SerializeEquation` and its like): level by level, because
what the recursion says of a value depends on the values inside alone
(`SerializeIsLocal`). `SameTextSameValue` needs a stronger statement, that of
`TextsAreUnambiguous`: of two texts that go on in any way, if the whole is equal then
the values are the same and so is what follows. That is what lets an array or an
object be read item by item (`EnclosedIsUnambiguous`): no item begins with the
closing bracket, so the comma tells whether there is one more.

`McpInvariant`: the transaction of the session is that of the last search recorded,
and every offer it remembers was found by some search (`SessionOfSearches`). So a
tool, which reads both at its start and the transaction again after its select, names a
transaction no older than its offer. A grant is minted for one confirm and its offer
(`GrantsOfConfirms`), and each answered confirm adds one entry to what is held
(`HeldAreConfirmed`, which counts them). Whatever the agent was told is revoked, the
backend had revoked before (`ToldIsRevoked`), and it takes no revocation back.

`MemoryInvariant`: the count of a grant is at least the downloads served since the BPP
started, and no more than the cap of them were served; what was answered is in
the ledger's map until the Access Manager restarts.

`CatalogInvariant`: the offers on the page and its transaction come from one search
(`PageIsOfItsSearch`), and a confirm reads both at once, so it keeps a pair that fits
when later searches replace them; and the list in
`localStorage` is the reversal of the latest answers. As every answered confirm has a
grant of its own, the filter in `addHeldGrant` removes nothing, so putting one in
front and cutting the list is the reversal of one answer more.
`GrantsPageInvariant`: a row becomes REVOKED only from the
backend's list or an answered revocation, and the backend never takes one back, so
any download begun under such a row finds its grant revoked. `DemoInvariant`: the fields of the flow are set
in their order (`FieldsInOrder`), at most one request is on its way
(`OneAtATime`), it is for the step shown (`StepOnItsWay`) and its answer is what the backend has
recorded (`AnswerIsTrue`); `NoPageIsStuck` follows because the next unset field always
has its button.

`JourneyInvariant`: what is confirmed was shown or made up (`ParamsAreChosen`), and the
contract, the grant and the file are functions of it (`GrantFitsContract`,
`FileIsResolved`). `OfferedIsObtainable` then compares what three components have made of one
offer: the BAP asks for the grant of the first resource that the search listed, the
BPP puts its own first resource into the access URL, and the gate compares the
two. `SearchHonoursIntent` goes field by field: a positive minimum is met by no
offer without a row count, because the count that is missing reads as zero (`RowsCompared`).

| Theorem | States |
|---|---|
| `AMInvariant`, `AMTypeCorrect` | `AMInv`, `AMTypes` |
| `LedgerAndTableAgree` | `LedgerMatchesTable` |
| `OneRevocationSucceeds` | `RevokedOnce` |
| `NoLockIsLeaked` | `NothingIsLeaked`, which the run `exchange` checks as part of `ExchangeInv` |
| `NothingUnrecordedIsHeld` | `HeldIsRecorded` |
| `AnswersCanBeTrusted` | `AnsweredMeansRevoked` |
| `LedgerOnlyMovesForward` | `LedgerMovesForward` |
| `ExchangeInvariant`, `ExchangeTypeCorrect` | `ExchangeInv`, `TypeOK` |
| `RevocationIsImmediate` | `RevocationHonoured` |
| `SkewAbsorbsDrift` | `WindowHonoured` |
| `CapIsNeverExceeded` | `CapRespected` |
| `NoSlotIsWasted` | `NoSlotWasted` |
| `GateImplemented` | `ImplementsGate` |
| `SchemaInvariant`, `BootsNeverCollide`, `ListenersHaveTables` | `SchemaInv`, `NoBootCollides`, `UpHasItsTables` |
| `OrchestratorInvariant` | `OrchestratorInv` |
| `RegistryStaysLive`, `SearchesComplete` | `RegistryIsLive`, `SearchIsComplete` |
| `ContractsFromChosenBpp`, `GrantsNeedContracts` | `ContractFromChosenBpp`, `GrantNeedsContract` |
| `AuthInvariant` | `AuthInv` |
| `NoncesAreBurntByAcceptance` | `OnlyAcceptanceBurnsNonce` |
| `AcceptedOnceInItsLifetime` | `OnceWhileRemembered` |
| `FreshMessagesAreTimely` | `FreshIsTimely` |
| `SameValueSameText`, `SameTextSameValue` | values are the same up to key order exactly when their texts are equal |
| `SignedInvariantHolds` | `SignedInvariant` |
| `NothingSignedIsLost`, `IntactValuesVerify` | `SignedLosesNothing`, `IntactVerifies` |
| `NoMessageIsRefused`, `OnlySignedIsAccepted` | `MessagesAreSigned`, `AcceptedIsWhatWasSigned` |
| `MemoryInvariant`, `DeployedMemoryKeepsItsWord` | `MemoryInv`, `MemoryKeepsItsWord` |
| `StoresImplementEach`, `DeployedBootsDoNotCollide` | the composition, `BootsDoNotCollide` |
| `McpInvariant` | `McpInv` |
| `OffersPrecedeTransactions`, `GrantsFitOffers` | `OfferPrecedesTransaction`, `GrantFitsOffer` |
| `HeldAreAnswered`, `ToldRevokedAreRefused` | `HeldIsAnswered`, `ToldRevokedIsRefused` |
| `CatalogInvariant`, `GrantsPageInvariant`, `DemoInvariant` | `CatalogInv`, `GrantsPageInv`, `DemoInv` |
| `GrantsAreOfTheirSearch`, `LatestAreHeld` | `GrantOfItsSearch`, `HeldAreTheLatest` |
| `FlippedAreAlwaysRefused`, `DemoShowsWhatIs` | `FlippedMeansRefused`, `ShownIsRecorded` |
| `PagesAreNotStuck` | `NoPageIsStuck` |
| `JourneyInvariant` | `JourneyInv` |
| `SearchesHonourIntents` | `SearchHonoursIntent` |
| `OfferedAreObtainable`, `ServedAreOffered` | `OfferedIsObtainable`, `ServedIsOffered` |

Model-checked only: the liveness properties (`RevokeAnswered`, `ExpiredIsSwept`,
`EveryoneBoots`, `CallAnswered`), which are out of the prover's reach, though what
they rest on is proved (`RegistryIsLive`: who waits has a timer; `SchemaInv`: the
advisory lock has at most one holder, who is between lock and unlock;
`NothingIsLeaked`: a row lock belongs to an open transaction). Every invariant and
every action property of a passing run has its theorem. `NoPageIsStuck` sounds like
liveness, but it is an invariant: what is disabled has something on its way.

## 8. Not modelled, and plan

Not modelled: the static pages, the documentation viewer and the recorded replay
of the web application, and the rewriting of download URLs, which keep no state;
the contents of the seed files (`generate-seed.ts` beyond the catalogs); key
generation and minting scripts; the arithmetic of Ed25519, which is a library's;
the fields of schemas that are only carried. Configuration (`config.ts`, the
participant registry) is read once at start.

Left to do:

1. `Orchestrator` over `GrantExchange`: the concurrent counterpart of `Journey`.
2. A larger `orchestrator` instance, three calls with a search among them, if the
   state space can be cut by symmetry without its liveness property.
