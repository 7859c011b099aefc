---------------------------- MODULE Orchestrator ----------------------------
(***************************************************************************)
(* The BAP (services/bap/src/orchestrator.ts): calls of its client API fan *)
(* out to the BPPs, whose answers arrive later as callbacks and are        *)
(* matched with a pending collector by transaction and action.  One step   *)
(* is what the event loop of the BAP does between two awaits, or what a    *)
(* BPP does with one request.                                              *)
(*                                                                         *)
(* A call that names no known BPP, or lacks a parameter, is refused before *)
(* anything happens and is not modelled.                                   *)
(***************************************************************************)
EXTENDS Naturals, Sequences, FiniteSets

CONSTANTS
  BPPs,           \* the endpoints of BPP_ENDPOINTS
  Transactions,   \* transaction ids
  Calls,          \* calls of /search, /select, /init and /confirm
  MaxFaults,      \* bound: messages lost, calls that fail, crashes
  None

ASSUME CallsAssumption == None \notin Calls
ASSUME BppsAssumption == IsFiniteSet(BPPs) /\ BPPs # {}
ASSUME FaultsAssumption == MaxFaults \in Nat

VARIABLES
  call,       \* call -> what it asks for, how far it is, what it received
  pending,    \* transaction and action -> the call whose collector is there
  timers,     \* calls whose timer is armed
  requests,   \* requests under way to a BPP
  callbacks,  \* callbacks a BPP has sent
  accepted,   \* callbacks in the replay cache of the BAP
  minted,     \* calls for which the Access Manager minted a grant
  faults

orchestratorVars ==
  <<call, pending, timers, requests, callbacks, accepted, minted, faults>>

ContractActions == {"select", "init", "confirm"}
Actions == {"discover"} \cup ContractActions
Keys == Transactions \X Actions

(* A message carries the id of the call that caused it (in the code, the   *)
(* messageId, which the BPP echoes and nobody compares) and the BPP.       *)
Message == [call : Calls, bpp : BPPs]

CallSteps == {"idle", "waiting", "issuing", "answered", "timeout", "failed"}

(* window says how the collection ended: every expected callback came, or  *)
(* the timer fired.                                                        *)
CallState ==
  [pc : CallSteps, action : Actions, transaction : Transactions \cup {None},
   targets : SUBSET BPPs, responses : Seq(Message),
   window : {"open", "complete", "elapsed"}]

OrchestratorTypeOK ==
  /\ call \in [Calls -> CallState]
  /\ pending \in [Keys -> Calls \cup {None}]
  /\ timers \subseteq Calls
  /\ requests \subseteq Message
  /\ callbacks \subseteq Message
  /\ accepted \subseteq Message
  /\ minted \subseteq Calls
  /\ faults \in 0..MaxFaults

OrchestratorInit ==
  /\ call = [c \in Calls |->
       [pc |-> "idle", action |-> "discover", transaction |-> None, targets |-> {},
        responses |-> <<>>, window |-> "open"]]
  /\ pending = [k \in Keys |-> None]
  /\ timers = {}
  /\ requests = {}
  /\ callbacks = {}
  /\ accepted = {}
  /\ minted = {}
  /\ faults = 0

(* Defect: correlation by the transaction alone.                           *)
KeyOfDefect(transaction, action) == <<transaction, "discover">>

KeyOf(transaction, action) == <<transaction, action>>
Key(c) == KeyOf(call[c].transaction, call[c].action)

(* How many callbacks a collector waits for.                               *)
Expected(c) == Cardinality(call[c].targets)

LoseSomething ==
  /\ faults < MaxFaults
  /\ faults' = faults + 1

-----------------------------------------------------------------------------
(* Defect: the timer of the collector that is replaced is cleared.         *)
FanOutDefect(c, action, transaction, targets) ==
  /\ call[c].pc = "idle"
  /\ call' = [call EXCEPT ![c] =
       [pc |-> "waiting", action |-> action, transaction |-> transaction,
        targets |-> targets, responses |-> <<>>, window |-> "open"]]
  /\ pending' = [pending EXCEPT ![KeyOf(transaction, action)] = c]
  /\ timers' = (timers \ {pending[KeyOf(transaction, action)]}) \cup {c}
  /\ requests' = requests \cup { [call |-> c, bpp |-> b] : b \in targets }
  /\ UNCHANGED <<callbacks, accepted, minted, faults>>

(* The collector is registered, in the place of one that may be there      *)
(* already, its timer is armed, and the requests are signed and sent.      *)
FanOut(c, action, transaction, targets) ==
  /\ call[c].pc = "idle"
  /\ call' = [call EXCEPT ![c] =
       [pc |-> "waiting", action |-> action, transaction |-> transaction,
        targets |-> targets, responses |-> <<>>, window |-> "open"]]
  /\ pending' = [pending EXCEPT ![KeyOf(transaction, action)] = c]
  /\ timers' = timers \cup {c}
  /\ requests' = requests \cup { [call |-> c, bpp |-> b] : b \in targets }
  /\ UNCHANGED <<callbacks, accepted, minted, faults>>

(* A search draws a transaction id of its own, a UUID nobody has used.     *)
Search(c, transaction) ==
  /\ \A d \in Calls : call[d].transaction # transaction
  /\ FanOut(c, "discover", transaction, BPPs)

(* The other calls name the transaction and one BPP.  Nothing stops two    *)
(* calls, a retry for one, from naming the same.                           *)
Contract(c, action, transaction, b) ==
  /\ action \in ContractActions
  /\ FanOut(c, action, transaction, {b})

-----------------------------------------------------------------------------
(* Defect: no answer is taken for an answer.                               *)
AfterWindowDefect(c, responses) ==
  IF call[c].action = "confirm" THEN "issuing" ELSE "answered"

(* What the caller gets once its collector has resolved: a search its      *)
(* catalogs, however many; the others a contract, or a 504 without one; a  *)
(* confirm goes on to the Access Manager first.                            *)
AfterWindow(c, responses) ==
  IF call[c].action = "discover" THEN "answered"
  ELSE IF responses = <<>> THEN "timeout"
  ELSE IF call[c].action = "confirm" THEN "issuing"
  ELSE "answered"

(* A BPP accepts a request, acknowledges it and sends its callback.        *)
Respond(m) ==
  /\ m \in requests
  /\ requests' = requests \ {m}
  /\ callbacks' = callbacks \cup {m}
  /\ UNCHANGED <<call, pending, timers, accepted, minted, faults>>

(* A request that does not arrive, or that the BPP refuses or forgets: the *)
(* error is logged.                                                        *)
LoseRequest(m) ==
  /\ m \in requests
  /\ LoseSomething
  /\ requests' = requests \ {m}
  /\ UNCHANGED <<call, pending, timers, callbacks, accepted, minted>>

(* Collect m in the collector found under the key of m, and resolve it     *)
(* when it has as many as it expects.                                      *)
Collect(m) ==
  LET c == pending[Key(m.call)]
      responses == Append(call[c].responses, m)
  IN
  IF Len(responses) >= Expected(c)
  THEN /\ call' = [call EXCEPT ![c].responses = responses, ![c].window = "complete",
                               ![c].pc = AfterWindow(c, responses)]
       /\ timers' = timers \ {c}
       /\ pending' = [pending EXCEPT ![Key(m.call)] = None]
  ELSE /\ call' = [call EXCEPT ![c].responses = responses]
       /\ UNCHANGED <<timers, pending>>

(* Defect: a callback is accepted however often it comes.                  *)
DeliverCallbackDefect(m) ==
  /\ m \in callbacks
  /\ accepted' = accepted \cup {m}
  /\ IF pending[Key(m.call)] = None THEN UNCHANGED <<call, timers, pending>>
                                    ELSE Collect(m)
  /\ UNCHANGED <<requests, callbacks, minted, faults>>

(* A callback arrives, for the first time or again: what the replay cache  *)
(* knows gets a 401, and what finds no collector is ignored.               *)
DeliverCallback(m) ==
  /\ m \in callbacks \ accepted
  /\ accepted' = accepted \cup {m}
  /\ IF pending[Key(m.call)] = None THEN UNCHANGED <<call, timers, pending>>
                                    ELSE Collect(m)
  /\ UNCHANGED <<requests, callbacks, minted, faults>>

LoseCallback(m) ==
  /\ m \in callbacks \ accepted
  /\ LoseSomething
  /\ callbacks' = callbacks \ {m}
  /\ UNCHANGED <<call, pending, timers, requests, accepted, minted>>

(* Defect: the collector stays in the registry.                            *)
WindowElapsesDefect(c) ==
  /\ c \in timers
  /\ timers' = timers \ {c}
  /\ call' = [call EXCEPT ![c].window = "elapsed",
                          ![c].pc = AfterWindow(c, call[c].responses)]
  /\ UNCHANGED <<pending, requests, callbacks, accepted, minted, faults>>

(* The timer fires: whatever collector is under the key is removed, and    *)
(* the call goes on with what it has.                                      *)
WindowElapses(c) ==
  /\ c \in timers
  /\ timers' = timers \ {c}
  /\ pending' = [pending EXCEPT ![Key(c)] = None]
  /\ call' = [call EXCEPT ![c].window = "elapsed",
                          ![c].pc = AfterWindow(c, call[c].responses)]
  /\ UNCHANGED <<requests, callbacks, accepted, minted, faults>>

-----------------------------------------------------------------------------
(* amClient.issue: the Access Manager mints a grant and answers.           *)
IssueGrant(c) ==
  /\ call[c].pc = "issuing"
  /\ minted' = minted \cup {c}
  /\ call' = [call EXCEPT ![c].pc = "answered"]
  /\ UNCHANGED <<pending, timers, requests, callbacks, accepted, faults>>

(* It refuses or fails, or it mints and its answer is lost: a 502.         *)
IssueFails(c) ==
  /\ call[c].pc = "issuing"
  /\ LoseSomething
  /\ minted' \in {minted, minted \cup {c}}
  /\ call' = [call EXCEPT ![c].pc = "failed"]
  /\ UNCHANGED <<pending, timers, requests, callbacks, accepted>>

(* The BAP dies and is started again, with an empty registry and an empty  *)
(* replay cache; its callers lose the connection.  What it had asked of    *)
(* the Access Manager may be done all the same.                            *)
CrashBap ==
  /\ LoseSomething
  /\ \E done \in SUBSET { c \in Calls : call[c].pc = "issuing" } :
       minted' = minted \cup done
  /\ call' = [c \in Calls |->
       IF call[c].pc \in {"waiting", "issuing"} THEN [call[c] EXCEPT !.pc = "failed"]
       ELSE call[c]]
  /\ pending' = [k \in Keys |-> None]
  /\ timers' = {}
  /\ accepted' = {}
  /\ UNCHANGED <<requests, callbacks>>

-----------------------------------------------------------------------------
OrchestratorNext ==
  \/ \E c \in Calls, t \in Transactions :
       \/ Search(c, t)
       \/ \E action \in ContractActions, b \in BPPs : Contract(c, action, t, b)
  \/ \E m \in Message :
       \/ Respond(m)
       \/ LoseRequest(m)
       \/ DeliverCallback(m)
       \/ LoseCallback(m)
  \/ \E c \in Calls :
       \/ WindowElapses(c)
       \/ IssueGrant(c)
       \/ IssueFails(c)
  \/ CrashBap

OrchestratorSpec == OrchestratorInit /\ [][OrchestratorNext]_orchestratorVars

(* Timers fire and the Access Manager answers.  Nothing is assumed of the  *)
(* BPPs and the messages.                                                  *)
OrchestratorFairSpec ==
  /\ OrchestratorSpec
  /\ \A c \in Calls : WF_orchestratorVars(WindowElapses(c) \/ IssueGrant(c))

-----------------------------------------------------------------------------
Ended == {"answered", "timeout", "failed"}

(* Every call is answered, whatever BPPs stay silent and whichever other   *)
(* call has taken its place in the registry.                               *)
CallAnswered == \A c \in Calls : call[c].pc = "waiting" ~> call[c].pc \in Ended

(* Every variable keeps its type, and the registry holds only collectors   *)
(* somebody waits for, under their own key and with their timer armed: it  *)
(* cannot fill up.  A call waits exactly while its timer is armed, so none *)
(* waits for ever, whoever has taken its place in the registry.            *)
RegistryIsLive ==
  /\ OrchestratorTypeOK
  /\ \A c \in Calls : call[c].pc = "waiting" <=> c \in timers
  /\ \A k \in Keys : pending[k] # None =>
       LET c == pending[k] IN
       call[c].pc = "waiting" /\ Key(c) = k

BppsOf(responses) == { responses[i].bpp : i \in DOMAIN responses }

(* A search that ends before its window does has heard every BPP once, and *)
(* no search counts an answer to something else.                           *)
SearchIsComplete ==
  \A c \in Calls : call[c].action = "discover" =>
    /\ \A i \in DOMAIN call[c].responses : call[c].responses[i].call = c
    /\ Len(call[c].responses) = Cardinality(BppsOf(call[c].responses))
    /\ call[c].window = "complete" => BppsOf(call[c].responses) = BPPs

(* No other call was ever made under c's transaction and action.           *)
AloneUnderKey(c) ==
  \A d \in Calls \ {c} :
    call[d].transaction = call[c].transaction => call[d].action # call[c].action

(* A caller who does not reuse a transaction and action gets the contract  *)
(* of the BPP it chose, and no other.                                      *)
ContractFromChosenBpp ==
  \A c \in Calls :
    /\ call[c].pc # "idle"
    /\ AloneUnderKey(c)
    => BppsOf(call[c].responses) \subseteq call[c].targets

(* A grant is minted only for a confirm, and only after a BPP answered a   *)
(* confirm of that transaction: no consent without a contract.             *)
GrantNeedsContract ==
  \A c \in minted :
    /\ call[c].action = "confirm"
    /\ \E i \in DOMAIN call[c].responses :
         LET asked == call[call[c].responses[i].call] IN
         asked.action = "confirm" /\ asked.transaction = call[c].transaction

(* A callback is collected only while the call it answers waits: a late    *)
(* one is ignored.                                                         *)
LateCallbackIgnored ==
  [][\A c \in Calls, m \in Message :
       call'[c].responses = Append(call[c].responses, m) => call[m.call].pc = "waiting"
    ]_orchestratorVars
=============================================================================
