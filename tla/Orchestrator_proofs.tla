------------------------ MODULE Orchestrator_proofs ------------------------
(***************************************************************************)
(* Theorems about Orchestrator, for any calls, transactions, BPPs and      *)
(* number of faults: the safety properties of the BAP's correlation.       *)
(***************************************************************************)
EXTENDS Orchestrator, FiniteSetTheorems, TLAPS

Made(c) == call[c].pc # "idle"

(* A call that was made names a transaction, one that was not has nothing. *)
CallsAreMade ==
  \A c \in Calls :
    /\ Made(c) => call[c].transaction \in Transactions
    /\ ~Made(c) => call[c].responses = <<>> /\ call[c].window = "open" /\ c \notin minted

(* A message answers to a call that was made and asked its BPP.            *)
Answers(m) == Made(m.call) /\ m.bpp \in call[m.call].targets
MessagesAnswer == \A m \in requests \cup callbacks : Answers(m)

(* Searches ask every BPP under a transaction no other search has.         *)
SearchesAreAlone ==
  \A c \in Calls : Made(c) /\ call[c].action = "discover" =>
    /\ call[c].targets = BPPs
    /\ \A d \in Calls : Made(d) /\ call[d].action = "discover"
                          /\ call[d].transaction = call[c].transaction => d = c

(* What a collector has collected came under its key, and while it waits   *)
(* the replay cache knows it.                                              *)
FromItsKey(c, m) ==
  /\ Answers(m) /\ Key(m.call) = Key(c)
  /\ call[c].pc = "waiting" => m \in accepted
CollectedUnderKey ==
  \A c \in Calls : \A i \in DOMAIN call[c].responses : FromItsKey(c, call[c].responses[i])

(* Nothing is collected twice.                                             *)
CollectedOnce ==
  \A c \in Calls : \A i, j \in DOMAIN call[c].responses :
    call[c].responses[i] = call[c].responses[j] => i = j

CompleteHasAll ==
  \A c \in Calls : call[c].window = "complete" => Len(call[c].responses) >= Expected(c)

(* Only a confirm that collected something reaches the Access Manager.     *)
IssuedIsConfirmed ==
  \A c \in Calls : call[c].pc = "issuing" \/ c \in minted =>
    call[c].action = "confirm" /\ call[c].responses # <<>>

OrchestratorInv ==
  /\ RegistryIsLive /\ CallsAreMade /\ MessagesAnswer /\ SearchesAreAlone
  /\ CollectedUnderKey /\ CollectedOnce /\ CompleteHasAll /\ IssuedIsConfirmed

USE DEF Made, Key, KeyOf

-----------------------------------------------------------------------------
(* The parts of the invariant that speak of calls are kept by a step that  *)
(* changes no call and only adds to what is accepted.                      *)
CallInv ==
  /\ CallsAreMade /\ SearchesAreAlone /\ CollectedUnderKey /\ CollectedOnce
  /\ CompleteHasAll /\ IssuedIsConfirmed

LEMMA CallsUnchanged ==
  ASSUME CallInv, UNCHANGED <<call, minted>>, accepted \subseteq accepted'
  PROVE  CallInv'
BY DEF CallInv, CallsAreMade, SearchesAreAlone, CollectedUnderKey, CollectedOnce,
       CompleteHasAll, IssuedIsConfirmed, FromItsKey, Answers, Expected

(* A message that is answered or lost touches no call and no collector.    *)
LEMMA MessageStepsKeep ==
  ASSUME OrchestratorInv, NEW m \in Message, Respond(m) \/ LoseRequest(m) \/ LoseCallback(m)
  PROVE  OrchestratorInv'
<1>1. /\ UNCHANGED <<call, pending, timers, accepted, minted>>
      /\ (requests \cup callbacks)' \subseteq requests \cup callbacks
      /\ requests' \subseteq Message /\ callbacks' \subseteq Message /\ faults' \in 0..MaxFaults
  BY FaultsAssumption DEF Respond, LoseRequest, LoseCallback, LoseSomething,
     OrchestratorInv, RegistryIsLive, OrchestratorTypeOK
<1>2. RegistryIsLive'
  BY <1>1 DEF OrchestratorInv, RegistryIsLive, OrchestratorTypeOK
<1>3. MessagesAnswer'
  BY <1>1 DEF OrchestratorInv, MessagesAnswer, Answers
<1>4. CallInv'
  BY <1>1, CallsUnchanged DEF OrchestratorInv, CallInv
<1>. QED  BY <1>2, <1>3, <1>4 DEF OrchestratorInv, CallInv

(* A new call: nothing that is under way is about it, and a search has its *)
(* transaction for itself.                                                 *)
LEMMA FanOutKeeps ==
  ASSUME OrchestratorInv, NEW c \in Calls, NEW t \in Transactions, NEW action \in Actions,
         NEW targets \in SUBSET BPPs, FanOut(c, action, t, targets),
         action = "discover" => targets = BPPs /\ \A d \in Calls : call[d].transaction # t
  PROVE  OrchestratorInv'
<1>. DEFINE new == [pc |-> "waiting", action |-> action, transaction |-> t,
                    targets |-> targets, responses |-> <<>>, window |-> "open"]
<1>1. /\ call[c].pc = "idle" /\ call' = [call EXCEPT ![c] = new]
      /\ pending' = [pending EXCEPT ![<<t, action>>] = c] /\ timers' = timers \cup {c}
      /\ requests' = requests \cup { [call |-> c, bpp |-> b] : b \in targets }
      /\ UNCHANGED <<callbacks, accepted, minted, faults>>
  BY DEF FanOut
<1>2. OrchestratorTypeOK
  BY DEF OrchestratorInv, RegistryIsLive
<1>3. /\ call'[c] = new /\ \A d \in Calls \ {c} : call'[d] = call[d]
      /\ <<t, action>> \in Keys
  BY <1>1, <1>2 DEF OrchestratorTypeOK, Keys
<1>4. OrchestratorTypeOK'
  <2>1. new \in CallState
    BY DEF CallState, CallSteps
  <2>2. { [call |-> c, bpp |-> b] : b \in targets } \subseteq Message
    BY DEF Message
  <2>. QED  BY <1>1, <1>2, <1>3, <2>1, <2>2 DEF OrchestratorTypeOK
<1>5. RegistryIsLive'
  BY <1>1, <1>2, <1>3, <1>4 DEF OrchestratorInv, RegistryIsLive, OrchestratorTypeOK
<1>6. CallsAreMade'
  BY <1>1, <1>3 DEF OrchestratorInv, CallsAreMade
<1>7. \A m \in Message : Answers(m) => m.call # c /\ Answers(m)'
  BY <1>1, <1>3 DEF Answers, Message
<1>8. MessagesAnswer'
  <2>1. \A m \in requests \cup callbacks : m \in Message /\ Answers(m)
    BY <1>2 DEF OrchestratorInv, MessagesAnswer, OrchestratorTypeOK
  <2>2. \A b \in targets : Answers([call |-> c, bpp |-> b])'
    BY <1>3 DEF Answers
  <2>. QED  BY <1>1, <1>7, <2>1, <2>2 DEF MessagesAnswer
<1>9. SearchesAreAlone'
  BY <1>1, <1>3 DEF OrchestratorInv, SearchesAreAlone
<1>10. CollectedUnderKey'
  <2>. SUFFICES ASSUME NEW d \in Calls, NEW i \in DOMAIN call'[d].responses
       PROVE  FromItsKey(d, call[d].responses[i])'
    BY DEF CollectedUnderKey
  <2>1. d # c /\ call'[d] = call[d]
    BY <1>3
  <2>2. PICK m \in Message : m = call[d].responses[i] /\ m = call'[d].responses[i]
    BY <1>2, <2>1 DEF OrchestratorTypeOK, CallState
  <2>3. FromItsKey(d, m)
    BY <2>1, <2>2 DEF OrchestratorInv, CollectedUnderKey
  <2>4. m.call \in Calls \ {c} /\ Answers(m)'
    BY <1>7, <2>3 DEF Message, FromItsKey
  <2>5. FromItsKey(d, m)'
    BY <1>1, <1>3, <2>1, <2>3, <2>4 DEF FromItsKey
  <2>. QED  BY <2>2, <2>5
<1>11. CollectedOnce' /\ CompleteHasAll'
  BY <1>1, <1>3 DEF OrchestratorInv, CollectedOnce, CompleteHasAll, Expected
<1>12. IssuedIsConfirmed'
  BY <1>1, <1>3 DEF OrchestratorInv, IssuedIsConfirmed, CallsAreMade
<1>. QED  BY <1>5, <1>6, <1>8, <1>9, <1>10, <1>11, <1>12 DEF OrchestratorInv

(* A call that ends its wait, or goes on from the Access Manager: what it  *)
(* asked for and what it has collected stay.                               *)
SameQuestion(c) ==
  /\ call'[c].action = call[c].action /\ call'[c].transaction = call[c].transaction
  /\ call'[c].targets = call[c].targets
  /\ Made(c) <=> Made(c)'

(* While no call changes its question, keys and searches are as they were. *)
LEMMA QuestionsStay ==
  ASSUME OrchestratorTypeOK, \A c \in Calls : SameQuestion(c)
  PROVE  /\ \A m \in Message : Answers(m) => Answers(m)'
         /\ SearchesAreAlone => SearchesAreAlone'
         /\ \A c \in Calls : Key(c)' = Key(c) /\ Expected(c)' = Expected(c)
BY DEF SameQuestion, Answers, SearchesAreAlone, Message, Expected

(* A resolved collector ends its call, or sends a confirm that has an      *)
(* answer on to the Access Manager.                                        *)
LEMMA AfterWindowEnds ==
  ASSUME NEW c \in Calls, NEW responses \in Seq(Message)
  PROVE  /\ AfterWindow(c, responses) \in {"answered", "timeout", "issuing"}
         /\ AfterWindow(c, responses) = "issuing" =>
              call[c].action = "confirm" /\ responses # <<>>
BY DEF AfterWindow

(* The state of a call that has ended, or collected, written out.          *)
State(c, pc, responses, window) ==
  [pc |-> pc, action |-> call[c].action, transaction |-> call[c].transaction,
   targets |-> call[c].targets, responses |-> responses, window |-> window]

(* Such a state is one of a call.                                          *)
LEMMA StateInCallState ==
  ASSUME OrchestratorTypeOK, NEW c \in Calls, NEW pc \in CallSteps, NEW rs \in Seq(Message),
         NEW w \in {"open", "complete", "elapsed"}
  PROVE  State(c, pc, rs, w) \in CallState
BY DEF State, OrchestratorTypeOK, CallState

(* A step that collects nothing keeps what is said of the calls.           *)
LEMMA ResponsesStay ==
  ASSUME OrchestratorInv, minted' \subseteq Calls, UNCHANGED <<requests, callbacks>>,
         \A c \in Calls :
           /\ SameQuestion(c) /\ call'[c].responses = call[c].responses
           /\ call'[c].pc = "waiting" => call[c].pc = "waiting" /\ accepted \subseteq accepted'
           /\ call'[c].window = "complete" => call[c].window = "complete"
           /\ ~Made(c) => call'[c] = call[c] /\ c \notin minted'
           /\ call'[c].pc = "issuing" \/ c \in minted' =>
                call[c].action = "confirm" /\ call[c].responses # <<>>
  PROVE  CallInv' /\ MessagesAnswer'
<1>1. OrchestratorTypeOK /\ CallInv /\ MessagesAnswer
  BY DEF OrchestratorInv, RegistryIsLive, CallInv
<1>2. /\ \A m \in Message : Answers(m) => Answers(m)'
      /\ SearchesAreAlone'
      /\ \A c \in Calls : Key(c)' = Key(c) /\ Expected(c)' = Expected(c)
  BY <1>1, QuestionsStay DEF CallInv
<1>3. CallsAreMade'
  BY <1>1 DEF CallInv, CallsAreMade, SameQuestion
<1>4. MessagesAnswer'
  BY <1>1, <1>2 DEF MessagesAnswer, OrchestratorTypeOK
<1>5. CollectedUnderKey'
  <2>. SUFFICES ASSUME NEW c \in Calls, NEW i \in DOMAIN call'[c].responses
       PROVE  FromItsKey(c, call[c].responses[i])'
    BY DEF CollectedUnderKey
  <2>1. PICK m \in Message : m = call[c].responses[i] /\ m = call'[c].responses[i]
    BY <1>1 DEF OrchestratorTypeOK, CallState
  <2>2. FromItsKey(c, m)
    BY <1>1, <2>1 DEF CallInv, CollectedUnderKey
  <2>3. m.call \in Calls /\ Answers(m)' /\ Key(m.call)' = Key(c)'
    BY <1>2, <2>2 DEF Message, FromItsKey
  <2>. QED  BY <2>1, <2>2, <2>3 DEF FromItsKey
<1>6. CollectedOnce'
  BY <1>1 DEF CallInv, CollectedOnce
<1>7. CompleteHasAll'
  BY <1>1, <1>2 DEF CallInv, CompleteHasAll
<1>8. IssuedIsConfirmed'
  BY <1>1 DEF CallInv, IssuedIsConfirmed, SameQuestion
<1>. QED  BY <1>2, <1>3, <1>4, <1>5, <1>6, <1>7, <1>8 DEF CallInv

(* The timer of a call removes no collector but its own or its successor's *)
(* under the same key: the others are where they were.                     *)
LEMMA WindowElapsesKeeps ==
  ASSUME OrchestratorInv, NEW c \in Calls, WindowElapses(c)
  PROVE  OrchestratorInv'
<1>1. OrchestratorTypeOK /\ call[c].pc = "waiting" /\ call[c].responses \in Seq(Message)
  BY DEF OrchestratorInv, RegistryIsLive, OrchestratorTypeOK, WindowElapses,
         CallState
<1>. DEFINE after == AfterWindow(c, call[c].responses)
<1>2. /\ after \in {"answered", "timeout", "issuing"}
      /\ after = "issuing" => call[c].action = "confirm" /\ call[c].responses # <<>>
  BY <1>1, AfterWindowEnds
<1>. HIDE DEF after
<1>3. /\ timers' = timers \ {c} /\ pending' = [pending EXCEPT ![Key(c)] = None]
      /\ call' = [call EXCEPT ![c].window = "elapsed", ![c].pc = after]
      /\ UNCHANGED <<requests, callbacks, accepted, minted, faults>>
  BY DEF WindowElapses, after
<1>4. /\ call'[c] = State(c, after, call[c].responses, "elapsed")
      /\ \A d \in Calls \ {c} : call'[d] = call[d]
  <2>1. call[c] \in CallState
    BY <1>1 DEF OrchestratorTypeOK
  <2>2. call'[c] = [[call[c] EXCEPT !.window = "elapsed"] EXCEPT !.pc = after]
    BY <1>1, <1>3, <2>1 DEF OrchestratorTypeOK, CallState
  <2>. QED  BY <1>1, <1>3, <2>1, <2>2 DEF State, OrchestratorTypeOK, CallState
<1>5. OrchestratorTypeOK'
  <2>1. call'[c] \in CallState
    BY <1>1, <1>2, <1>4, StateInCallState DEF CallSteps
  <2>2. call' \in [Calls -> CallState]
    BY <1>1, <1>3, <1>4, <2>1 DEF OrchestratorTypeOK
  <2>. QED  BY <1>1, <1>3, <2>2 DEF OrchestratorTypeOK
<1>6. CallInv' /\ MessagesAnswer'
  <2>1. /\ call[c] \in CallState /\ after \in CallSteps /\ after # "idle"
    BY <1>1, <1>2 DEF OrchestratorTypeOK, CallSteps
  <2>2. /\ call'[c].pc = after /\ call'[c].window = "elapsed"
        /\ call'[c].responses = call[c].responses /\ SameQuestion(c)
    BY <1>1, <1>2, <1>4, <2>1 DEF SameQuestion, State
  <2>3. \A d \in Calls : SameQuestion(d) /\ call'[d].responses = call[d].responses
    BY <1>4, <2>2 DEF SameQuestion
  <2>. QED  BY <1>1, <1>2, <1>3, <1>4, <2>2, <2>3, ResponsesStay
            DEF OrchestratorInv, CallsAreMade, IssuedIsConfirmed, OrchestratorTypeOK
<1>7. RegistryIsLive'
  <2>1. call'[c].pc # "waiting" /\ call'[c].pc = after
    BY <1>2, <1>4 DEF State
  <2>. QED  BY <1>1, <1>3, <1>4, <1>5, <2>1 DEF OrchestratorInv, RegistryIsLive, OrchestratorTypeOK
<1>. QED  BY <1>6, <1>7 DEF OrchestratorInv, CallInv

(* The Access Manager answers or fails: the call ends as it was asked.     *)
LEMMA IssueKeeps ==
  ASSUME OrchestratorInv, NEW c \in Calls, IssueGrant(c) \/ IssueFails(c)
  PROVE  OrchestratorInv'
<1>1. OrchestratorTypeOK
  BY DEF OrchestratorInv, RegistryIsLive
<1>2. PICK pc \in {"answered", "failed"} : call' = [call EXCEPT ![c].pc = pc]
  BY DEF IssueGrant, IssueFails
<1>3. /\ call[c].pc = "issuing" /\ minted' \in {minted, minted \cup {c}}
      /\ UNCHANGED <<pending, timers, requests, callbacks, accepted>> /\ faults' \in 0..MaxFaults
  BY <1>1, FaultsAssumption DEF IssueGrant, IssueFails, LoseSomething, OrchestratorTypeOK
<1>4. /\ call'[c] = [call[c] EXCEPT !.pc = pc]
      /\ \A d \in Calls \ {c} : call'[d] = call[d]
  BY <1>1, <1>2 DEF OrchestratorTypeOK, CallState
<1>5. OrchestratorTypeOK'
  <2>1. call'[c] \in CallState
    BY <1>1, <1>4 DEF OrchestratorTypeOK, CallState, CallSteps
  <2>2. call' \in [Calls -> CallState]
    BY <1>1, <1>2, <1>4, <2>1 DEF OrchestratorTypeOK
  <2>. QED  BY <1>1, <1>3, <2>2 DEF OrchestratorTypeOK
<1>6. CallInv' /\ MessagesAnswer'
  <2>1. \A d \in Calls : /\ SameQuestion(d) /\ call'[d].responses = call[d].responses
                         /\ call'[d].window = call[d].window
    BY <1>1, <1>3, <1>4 DEF SameQuestion, OrchestratorTypeOK, CallState
  <2>2. call'[c].pc = pc
    BY <1>1, <1>4 DEF OrchestratorTypeOK, CallState
  <2>3. call[c].action = "confirm" /\ call[c].responses # <<>>
    BY <1>3 DEF OrchestratorInv, IssuedIsConfirmed
  <2>. QED  BY <1>1, <1>3, <1>4, <2>1, <2>2, <2>3, ResponsesStay
            DEF OrchestratorInv, CallsAreMade, IssuedIsConfirmed, OrchestratorTypeOK
<1>7. RegistryIsLive'
  <2>1. call'[c].pc # "waiting"
    BY <1>1, <1>4 DEF OrchestratorTypeOK, CallState
  <2>2. \A d \in Calls : SameQuestion(d)
    BY <1>1, <1>3, <1>4 DEF SameQuestion, OrchestratorTypeOK, CallState
  <2>. QED  BY <1>1, <1>3, <1>4, <1>5, <2>1, <2>2
            DEF OrchestratorInv, RegistryIsLive, OrchestratorTypeOK, SameQuestion
<1>. QED  BY <1>6, <1>7 DEF OrchestratorInv, CallInv

(* A crash ends every wait, so nothing is left to be in the registry.      *)
LEMMA CrashKeeps ==
  ASSUME OrchestratorInv, CrashBap
  PROVE  OrchestratorInv'
<1>1. OrchestratorTypeOK
  BY DEF OrchestratorInv, RegistryIsLive
<1>2. PICK done \in SUBSET { c \in Calls : call[c].pc = "issuing" } : minted' = minted \cup done
  BY DEF CrashBap
<1>3. /\ \A c \in Calls : call'[c] =
           IF call[c].pc \in {"waiting", "issuing"} THEN [call[c] EXCEPT !.pc = "failed"]
           ELSE call[c]
      /\ call' = [c \in Calls |-> call'[c]]
      /\ pending' = [k \in Keys |-> None] /\ timers' = {} /\ accepted' = {}
      /\ UNCHANGED <<requests, callbacks>> /\ faults' \in 0..MaxFaults
  BY <1>1, FaultsAssumption DEF CrashBap, LoseSomething, OrchestratorTypeOK
<1>4. OrchestratorTypeOK'
  <2>1. ASSUME NEW c \in Calls PROVE call'[c] \in CallState
    <3>1. call[c] \in CallState /\ call[c].responses \in Seq(Message)
      BY <1>1 DEF OrchestratorTypeOK, CallState
    <3>2. CASE call[c].pc \in {"waiting", "issuing"}
      <4>1. call'[c] = State(c, "failed", call[c].responses, call[c].window)
        BY <1>3, <3>1, <3>2 DEF State, CallState
      <4>. QED  BY <1>1, <3>1, <4>1 DEF State, CallState, CallSteps
    <3>. QED  BY <1>3, <3>1, <3>2
  <2>. QED  BY <1>1, <1>2, <1>3, <2>1 DEF OrchestratorTypeOK
<1>5. CallInv' /\ MessagesAnswer'
  <2>1. \A d \in Calls : /\ SameQuestion(d) /\ call'[d].responses = call[d].responses
                         /\ call'[d].window = call[d].window
    BY <1>1, <1>3 DEF SameQuestion, OrchestratorTypeOK, CallState
  <2>2. \A d \in Calls : call'[d].pc \notin {"waiting", "issuing"}
    BY <1>1, <1>3 DEF OrchestratorTypeOK, CallState
  <2>3. \A d \in Calls : ~Made(d) => call'[d] = call[d] /\ d \notin minted'
    BY <1>2, <1>3 DEF OrchestratorInv, CallsAreMade
  <2>4. \A d \in minted' : call[d].action = "confirm" /\ call[d].responses # <<>>
    BY <1>1, <1>2 DEF OrchestratorInv, IssuedIsConfirmed, OrchestratorTypeOK
  <2>5. minted' \subseteq Calls
    BY <1>4 DEF OrchestratorTypeOK
  <2>. QED  BY <1>3, <2>1, <2>2, <2>3, <2>4, <2>5, ResponsesStay
<1>6. RegistryIsLive'
  <2>1. \A c \in Calls : call'[c].pc # "waiting"
    BY <1>1, <1>3 DEF OrchestratorTypeOK, CallState
  <2>. QED  BY <1>3, <1>4, <2>1 DEF RegistryIsLive, Keys
<1>. QED  BY <1>5, <1>6 DEF OrchestratorInv, CallInv

(* A callback that is collected: it is new to the replay cache, which      *)
(* knows all that the waiting collector has, and came under its key.       *)
LEMMA CollectKeeps ==
  ASSUME OrchestratorInv, NEW m \in Message, DeliverCallback(m),
         pending[Key(m.call)] # None
  PROVE  OrchestratorInv'
<1>. DEFINE c == pending[Key(m.call)]
            rs == Append(call[c].responses, m)
            whole == Len(rs) >= Expected(c)
            pc == IF whole THEN AfterWindow(c, rs) ELSE "waiting"
            window == IF whole THEN "complete" ELSE call[c].window
<1>1. OrchestratorTypeOK /\ CallInv /\ MessagesAnswer /\ m \in callbacks \ accepted /\ Answers(m)
  BY DEF OrchestratorInv, RegistryIsLive, CallInv, MessagesAnswer, DeliverCallback
<1>2. m.call \in Calls /\ call[m.call].transaction \in Transactions /\ Key(m.call) \in Keys
  BY <1>1 DEF CallInv, CallsAreMade, Answers, Message, OrchestratorTypeOK, CallState, Keys,
              Actions, ContractActions
<1>3. /\ c \in Calls /\ call[c].pc = "waiting" /\ Key(c) = Key(m.call) /\ c \in timers
      /\ call[c] \in CallState /\ call[c].responses \in Seq(Message)
  BY <1>1, <1>2 DEF OrchestratorInv, RegistryIsLive, OrchestratorTypeOK, CallState
<1>4. /\ rs \in Seq(Message) /\ Len(rs) = Len(call[c].responses) + 1
      /\ \A i \in DOMAIN rs : IF i = Len(rs) THEN rs[i] = m
                              ELSE i \in DOMAIN call[c].responses /\ rs[i] = call[c].responses[i]
      /\ rs # <<>>
  <2>. DEFINE old == call[c].responses
  <2>1. old \in Seq(Message)
    BY <1>3
  <2>. HIDE DEF old, c
  <2>2. rs = Append(old, m)
    BY DEF old
  <2>. HIDE DEF rs
  <2>3. rs \in Seq(Message) /\ Len(rs) = Len(old) + 1 /\ rs # <<>>
    BY <2>1, <2>2
  <2>4. \A i \in DOMAIN rs : IF i = Len(rs) THEN rs[i] = m
                             ELSE i \in DOMAIN old /\ rs[i] = old[i]
    BY <2>1, <2>2
  <2>. QED  BY <2>3, <2>4 DEF old
<1>5. /\ pc \in CallSteps \ {"idle"} /\ window \in {"open", "complete", "elapsed"}
      /\ pc = "issuing" => call[c].action = "confirm"
  BY <1>3, <1>4, AfterWindowEnds DEF CallSteps, CallState
<1>6. /\ accepted' = accepted \cup {m} /\ UNCHANGED <<requests, callbacks, minted, faults>>
      /\ \A d \in Calls \ {c} : call'[d] = call[d]
      /\ call'[c] = State(c, pc, rs, window) /\ call' \in [Calls -> CallState]
      /\ whole => timers' = timers \ {c} /\ pending' = [pending EXCEPT ![Key(c)] = None]
      /\ ~whole => UNCHANGED <<timers, pending>>
  <2>1. accepted' = accepted \cup {m} /\ UNCHANGED <<requests, callbacks, minted, faults>>
        /\ Collect(m)
    BY DEF DeliverCallback
  <2>2. State(c, pc, rs, window) \in CallState
    BY <1>1, <1>3, <1>4, <1>5, StateInCallState
  <2>3. CASE whole
    <3>1. /\ call' = [call EXCEPT ![c].responses = rs, ![c].window = "complete",
                                  ![c].pc = AfterWindow(c, rs)]
          /\ timers' = timers \ {c} /\ pending' = [pending EXCEPT ![Key(c)] = None]
      BY <1>3, <2>1, <2>3 DEF Collect
    <3>. DEFINE after == AfterWindow(c, rs)
    <3>. HIDE DEF after, rs
    <3>2. /\ \A d \in Calls \ {c} : call'[d] = call[d]
          /\ call'[c] = State(c, after, rs, "complete")
          /\ call' = [d \in Calls |-> call'[d]]
      BY <1>1, <1>3, <3>1 DEF OrchestratorTypeOK, CallState, State, after
    <3>3. call'[c] = State(c, pc, rs, window)
      BY <2>3, <3>2 DEF after
    <3>4. call' \in [Calls -> CallState]
      BY <1>1, <2>2, <3>2, <3>3 DEF OrchestratorTypeOK
    <3>. QED  BY <2>1, <2>3, <3>1, <3>2, <3>3, <3>4
  <2>4. CASE ~whole
    <3>1. call' = [call EXCEPT ![c].responses = rs] /\ UNCHANGED <<timers, pending>>
      BY <2>1, <2>4 DEF Collect
    <3>. HIDE DEF rs
    <3>2. /\ \A d \in Calls \ {c} : call'[d] = call[d]
          /\ call'[c] = State(c, "waiting", rs, call[c].window)
          /\ call' = [d \in Calls |-> call'[d]]
      BY <1>1, <1>3, <3>1 DEF OrchestratorTypeOK, CallState, State
    <3>3. call'[c] = State(c, pc, rs, window)
      BY <2>4, <3>2
    <3>4. call' \in [Calls -> CallState]
      BY <1>1, <2>2, <3>2, <3>3 DEF OrchestratorTypeOK
    <3>. QED  BY <2>1, <2>4, <3>1, <3>2, <3>3, <3>4
  <2>. QED  BY <2>3, <2>4
<1>. HIDE DEF pc, window, rs, c
<1>7. /\ call'[c].pc = pc /\ call'[c].responses = rs /\ call'[c].window = window
      /\ \A d \in Calls : SameQuestion(d)
      /\ whole => pc # "waiting"
      /\ ~whole => pc = "waiting" /\ window = call[c].window
  <2>1. whole => pc # "waiting"
    BY <1>3, <1>4, AfterWindowEnds DEF pc
  <2>2. ~whole => pc = "waiting" /\ window = call[c].window
    BY DEF pc, window
  <2>. QED  BY <1>3, <1>5, <1>6, <2>1, <2>2 DEF State, SameQuestion
<1>8. OrchestratorTypeOK'
  BY <1>1, <1>2, <1>3, <1>6 DEF OrchestratorTypeOK
<1>9. RegistryIsLive'
  <2>1. CASE whole
    <3>1. \A d \in Calls : call'[d].pc = "waiting" <=> d \in timers'
      BY <1>1, <1>3, <1>6, <1>7, <2>1 DEF OrchestratorInv, RegistryIsLive
    <3>2. ASSUME NEW k \in Keys, pending'[k] # None
          PROVE  k # Key(c) /\ pending[k] = pending'[k]
      BY <1>1, <1>2, <1>3, <1>6, <2>1, <3>2 DEF OrchestratorTypeOK
    <3>3. ASSUME NEW k \in Keys, pending'[k] # None
          PROVE  call'[pending'[k]].pc = "waiting" /\ Key(pending[k])' = k
      <4>. DEFINE d == pending[k]
      <4>1. d = pending'[k] /\ d \in Calls /\ call[d].pc = "waiting" /\ Key(d) = k /\ k # Key(c)
        BY <1>1, <3>2, <3>3 DEF OrchestratorInv, RegistryIsLive, OrchestratorTypeOK
      <4>2. call'[d] = call[d]
        BY <1>6, <4>1
      <4>. QED  BY <4>1, <4>2
    <3>. QED  BY <1>1, <1>6, <1>8, <3>1, <3>3 DEF RegistryIsLive
  <2>2. CASE ~whole
    BY <1>1, <1>3, <1>6, <1>7, <1>8, <2>2 DEF OrchestratorInv, RegistryIsLive,
       OrchestratorTypeOK, SameQuestion
  <2>. QED  BY <2>1, <2>2
<1>10. /\ \A n \in Message : Answers(n) => Answers(n)'
       /\ SearchesAreAlone'
       /\ \A d \in Calls : Key(d)' = Key(d) /\ Expected(d)' = Expected(d)
  BY <1>1, <1>7, QuestionsStay DEF CallInv
<1>11. CallsAreMade' /\ MessagesAnswer'
  <2>1. CallsAreMade'
    BY <1>1, <1>3, <1>5, <1>6, <1>7 DEF CallInv, CallsAreMade, SameQuestion
  <2>2. MessagesAnswer'
    BY <1>1, <1>6, <1>10 DEF MessagesAnswer, OrchestratorTypeOK
  <2>. QED  BY <2>1, <2>2
<1>12. CollectedUnderKey'
  <2>. SUFFICES ASSUME NEW d \in Calls, NEW i \in DOMAIN call'[d].responses
       PROVE  FromItsKey(d, call[d].responses[i])'
    BY DEF CollectedUnderKey
  <2>1. PICK n \in Message :
          /\ n = call'[d].responses[i]
          /\ \/ d = c /\ n = m
             \/ i \in DOMAIN call[d].responses /\ n = call[d].responses[i]
    BY <1>1, <1>4, <1>6, <1>7 DEF OrchestratorTypeOK, CallState
  <2>2. CASE d = c /\ n = m
    BY <1>1, <1>2, <1>3, <1>6, <1>10, <2>1, <2>2 DEF FromItsKey
  <2>3. CASE i \in DOMAIN call[d].responses /\ n = call[d].responses[i]
    <3>1. FromItsKey(d, n)
      BY <1>1, <2>3 DEF CallInv, CollectedUnderKey
    <3>2. n.call \in Calls /\ Answers(n)' /\ Key(n.call)' = Key(d)'
      BY <1>10, <3>1 DEF Message, FromItsKey
    <3>3. call'[d].pc = "waiting" => n \in accepted'
      BY <1>3, <1>6, <3>1 DEF FromItsKey
    <3>. QED  BY <2>1, <3>2, <3>3 DEF FromItsKey
  <2>. QED  BY <2>1, <2>2, <2>3
<1>13. CollectedOnce'
  <2>1. \A i \in DOMAIN call[c].responses : call[c].responses[i] # m
    BY <1>1, <1>3 DEF CallInv, CollectedUnderKey, FromItsKey
  <2>2. \A i, j \in DOMAIN call[c].responses :
          call[c].responses[i] = call[c].responses[j] => i = j
    BY <1>1, <1>3 DEF CallInv, CollectedOnce
  <2>3. \A i, j \in DOMAIN rs : rs[i] = rs[j] => i = j
    BY <1>4, <2>1, <2>2
  <2>. QED  BY <1>1, <1>6, <1>7, <2>3 DEF CallInv, CollectedOnce
<1>14. CompleteHasAll'
  <2>1. window = "complete" => Len(rs) >= Expected(c)
    <3>1. CASE whole
      BY <3>1
    <3>2. CASE ~whole
      <4>1. Expected(c) \in Nat
        BY <1>3, BppsAssumption, FS_CardinalityType, FS_Subset DEF CallState, Expected
      <4>2. window = "complete" => Len(call[c].responses) >= Expected(c)
        BY <1>1, <1>3, <1>7, <3>2 DEF CallInv, CompleteHasAll
      <4>3. Len(call[c].responses) \in Nat
        BY <1>3
      <4>. QED  BY <1>4, <4>1, <4>2, <4>3
    <3>. QED  BY <3>1, <3>2
  <2>. QED  BY <1>1, <1>6, <1>7, <1>10, <2>1 DEF CallInv, CompleteHasAll
<1>15. IssuedIsConfirmed'
  BY <1>1, <1>4, <1>5, <1>6, <1>7 DEF CallInv, IssuedIsConfirmed, SameQuestion
<1>. QED  BY <1>9, <1>10, <1>11, <1>12, <1>13, <1>14, <1>15 DEF OrchestratorInv

(* A callback that finds no collector is only remembered.                  *)
LEMMA DeliverKeeps ==
  ASSUME OrchestratorInv, NEW m \in Message, DeliverCallback(m)
  PROVE  OrchestratorInv'
<1>1. CASE pending[Key(m.call)] # None
  BY <1>1, CollectKeeps
<1>2. CASE pending[Key(m.call)] = None
  <2>1. /\ UNCHANGED <<call, timers, pending, requests, callbacks, minted, faults>>
        /\ accepted' = accepted \cup {m}
    BY <1>2 DEF DeliverCallback
  <2>2. CallInv'
    BY <2>1, CallsUnchanged DEF OrchestratorInv, CallInv
  <2>. QED  BY <2>1, <2>2 DEF OrchestratorInv, CallInv, RegistryIsLive,
            MessagesAnswer, Answers, OrchestratorTypeOK
<1>. QED  BY <1>1, <1>2
-----------------------------------------------------------------------------
(* The invariant: the registry holds collectors somebody waits for, what   *)
(* they collected answers a call made under their key and is in no other   *)
(* place of theirs, and only a confirm with an answer goes on to a grant   *)
(* (orchestrator.ts: fanOut, handleCallback, confirm).                     *)
THEOREM OrchestratorInvariant == OrchestratorSpec => []OrchestratorInv
<1>1. OrchestratorInit => OrchestratorInv
  <2>. SUFFICES ASSUME OrchestratorInit PROVE OrchestratorInv
    OBVIOUS
  <2>1. OrchestratorTypeOK
    <3>1. call \in [Calls -> CallState]
      BY DEF OrchestratorInit, CallState, CallSteps, Actions
    <3>2. pending \in [Keys -> Calls \cup {None}]
      BY DEF OrchestratorInit
    <3>3. faults \in 0..MaxFaults
      BY FaultsAssumption DEF OrchestratorInit
    <3>. QED  BY <3>1, <3>2, <3>3 DEF OrchestratorInit, OrchestratorTypeOK
  <2>2. \A c \in Calls : /\ call[c].pc = "idle" /\ call[c].responses = <<>>
                         /\ call[c].window = "open"
    BY DEF OrchestratorInit
  <2>. QED  BY <2>1, <2>2 DEF OrchestratorInit, OrchestratorInv, RegistryIsLive,
            CallsAreMade, MessagesAnswer, SearchesAreAlone, CollectedUnderKey, CollectedOnce,
            CompleteHasAll, IssuedIsConfirmed
<1>2. OrchestratorInv /\ [OrchestratorNext]_orchestratorVars => OrchestratorInv'
  <2>. SUFFICES ASSUME OrchestratorInv, [OrchestratorNext]_orchestratorVars
       PROVE  OrchestratorInv'
    OBVIOUS
  <2>1. ASSUME NEW c \in Calls, NEW t \in Transactions, Search(c, t)
        PROVE  OrchestratorInv'
    BY <2>1, FanOutKeeps DEF Search, Actions
  <2>2. ASSUME NEW c \in Calls, NEW t \in Transactions, NEW action \in ContractActions,
               NEW b \in BPPs, Contract(c, action, t, b)
        PROVE  OrchestratorInv'
    <3>1. action \in Actions /\ action # "discover" /\ {b} \in SUBSET BPPs
      BY DEF Actions, ContractActions
    <3>. QED  BY <2>2, <3>1, FanOutKeeps DEF Contract
  <2>3. ASSUME NEW m \in Message, Respond(m) \/ LoseRequest(m) \/ LoseCallback(m)
        PROVE  OrchestratorInv'
    BY <2>3, MessageStepsKeep
  <2>4. ASSUME NEW m \in Message, DeliverCallback(m)
        PROVE  OrchestratorInv'
    BY <2>4, DeliverKeeps
  <2>5. ASSUME NEW c \in Calls, WindowElapses(c)
        PROVE  OrchestratorInv'
    BY <2>5, WindowElapsesKeeps
  <2>6. ASSUME NEW c \in Calls, IssueGrant(c) \/ IssueFails(c)
        PROVE  OrchestratorInv'
    BY <2>6, IssueKeeps
  <2>7. CASE CrashBap
    BY <2>7, CrashKeeps
  <2>8. CASE UNCHANGED orchestratorVars
    <3>1. UNCHANGED <<call, pending, timers, requests, callbacks, accepted, minted, faults>>
      BY <2>8 DEF orchestratorVars
    <3>2. CallInv'
      BY <3>1, CallsUnchanged DEF OrchestratorInv, CallInv
    <3>. QED  BY <3>1, <3>2 DEF OrchestratorInv, CallInv, RegistryIsLive,
              MessagesAnswer, Answers, OrchestratorTypeOK
  <2>. QED  BY <2>1, <2>2, <2>3, <2>4, <2>5, <2>6, <2>7, <2>8 DEF OrchestratorNext
<1>. QED  BY <1>1, <1>2, PTL DEF OrchestratorSpec

(* The registry cannot fill up: whatever is lost, late or sent again, it   *)
(* holds only collectors that a call waits for and a timer will remove.    *)
THEOREM RegistryStaysLive == OrchestratorSpec => []RegistryIsLive
<1>1. OrchestratorInv => RegistryIsLive
  BY DEF OrchestratorInv
<1>. QED  BY <1>1, OrchestratorInvariant, PTL

(* Answers of different BPPs are as many as the BPPs that gave them.       *)
LEMMA DistinctAreCounted ==
  ASSUME NEW rs \in Seq(Message),
         \A i, j \in DOMAIN rs : rs[i].bpp = rs[j].bpp => i = j
  PROVE  Len(rs) = Cardinality(BppsOf(rs))
<1>. DEFINE f == [i \in 1..Len(rs) |-> rs[i].bpp]
<1>1. DOMAIN rs = 1..Len(rs) /\ Len(rs) \in Nat
  OBVIOUS
<1>2. f \in [1..Len(rs) -> BppsOf(rs)]
  BY <1>1 DEF BppsOf
<1>3. \A i, j \in 1..Len(rs) : f[i] = f[j] => i = j
  BY <1>1
<1>4. \A b \in BppsOf(rs) : \E i \in 1..Len(rs) : f[i] = b
  BY <1>1 DEF BppsOf
<1>5. f \in Bijection(1..Len(rs), BppsOf(rs))
  BY <1>2, <1>3, <1>4 DEF Bijection, Injection, Surjection, IsInjective
<1>. QED  BY <1>1, <1>5, FS_CountingElements DEF ExistsBijection

(* A search that ends early has heard every BPP, each once, and counts no  *)
(* answer to anything else (orchestrator.ts: search, handleCallback).      *)
THEOREM SearchesComplete == OrchestratorSpec => []SearchIsComplete
<1>1. OrchestratorInv => SearchIsComplete
  <2>. SUFFICES ASSUME OrchestratorInv, NEW c \in Calls, call[c].action = "discover"
       PROVE  /\ \A i \in DOMAIN call[c].responses : call[c].responses[i].call = c
              /\ Len(call[c].responses) = Cardinality(BppsOf(call[c].responses))
              /\ call[c].window = "complete" => BppsOf(call[c].responses) = BPPs
    BY DEF SearchIsComplete
  <2>. DEFINE rs == call[c].responses
  <2>1. rs \in Seq(Message)
    BY DEF OrchestratorInv, RegistryIsLive, OrchestratorTypeOK, CallState
  <2>2. ASSUME NEW i \in DOMAIN rs
        PROVE  rs[i].call = c /\ rs[i].bpp \in BPPs /\ rs[i] = [call |-> c, bpp |-> rs[i].bpp]
    <3>1. Made(c)
      BY DEF OrchestratorInv, CallsAreMade
    <3>2. PICK m \in Message : m = rs[i]
      BY <2>1
    <3>3. FromItsKey(c, m)
      BY <3>2 DEF OrchestratorInv, CollectedUnderKey
    <3>4. /\ m.call \in Calls /\ m.bpp \in BPPs /\ m = [call |-> m.call, bpp |-> m.bpp]
          /\ Made(m.call) /\ call[m.call].action = "discover"
          /\ call[m.call].transaction = call[c].transaction
      BY <3>3 DEF Message, FromItsKey, Answers
    <3>5. m.call = c
      BY <3>1, <3>4 DEF OrchestratorInv, SearchesAreAlone
    <3>. QED  BY <3>2, <3>4, <3>5
  <2>3. \A i, j \in DOMAIN rs : rs[i].bpp = rs[j].bpp => i = j
    <3>. SUFFICES ASSUME NEW i \in DOMAIN rs, NEW j \in DOMAIN rs, rs[i].bpp = rs[j].bpp
         PROVE  i = j
      OBVIOUS
    <3>1. rs[i] = rs[j]
      BY <2>2
    <3>. QED  BY <3>1 DEF OrchestratorInv, CollectedOnce
  <2>. HIDE DEF rs
  <2>4. Len(rs) = Cardinality(BppsOf(rs))
    BY <2>1, <2>3, DistinctAreCounted
  <2>5. BppsOf(rs) \in SUBSET BPPs
    BY <2>2 DEF BppsOf
  <2>6. ASSUME call[c].window = "complete" PROVE BppsOf(rs) = BPPs
    <3>1. Len(rs) >= Cardinality(BPPs)
      BY <2>6 DEF OrchestratorInv, CompleteHasAll, CallsAreMade, SearchesAreAlone, Expected, rs
    <3>2. /\ Cardinality(BPPs) \in Nat /\ Cardinality(BppsOf(rs)) \in Nat
          /\ Cardinality(BppsOf(rs)) <= Cardinality(BPPs)
      BY <2>5, BppsAssumption, FS_Subset, FS_CardinalityType
    <3>3. Cardinality(BppsOf(rs)) = Cardinality(BPPs)
      BY <2>4, <3>1, <3>2
    <3>. QED  BY <2>5, <3>3, BppsAssumption, FS_Subset
  <2>. QED  BY <2>2, <2>4, <2>6 DEF rs
<1>. QED  BY <1>1, OrchestratorInvariant, PTL

(* A caller that does not reuse a transaction and action gets the answer   *)
(* of the BPP it named, whatever the other calls do (select, init,         *)
(* confirm).                                                               *)
THEOREM ContractsFromChosenBpp == OrchestratorSpec => []ContractFromChosenBpp
<1>1. OrchestratorInv => ContractFromChosenBpp
  <2>. SUFFICES ASSUME OrchestratorInv, NEW c \in Calls, AloneUnderKey(c),
                       NEW i \in DOMAIN call[c].responses
       PROVE  call[c].responses[i].bpp \in call[c].targets
    BY DEF ContractFromChosenBpp, BppsOf
  <2>1. PICK m \in Message : m = call[c].responses[i]
    BY DEF OrchestratorInv, RegistryIsLive, OrchestratorTypeOK, CallState
  <2>2. FromItsKey(c, m)
    BY <2>1 DEF OrchestratorInv, CollectedUnderKey
  <2>3. m.call = c
    BY <2>2 DEF FromItsKey, AloneUnderKey, Message
  <2>. QED  BY <2>1, <2>2, <2>3 DEF FromItsKey, Answers
<1>. QED  BY <1>1, OrchestratorInvariant, PTL

(* No grant is minted without a contract: the confirm collected an answer  *)
(* to a confirm of its transaction (confirm, after its fan-out).           *)
THEOREM GrantsNeedContracts == OrchestratorSpec => []GrantNeedsContract
<1>1. OrchestratorInv => GrantNeedsContract
  <2>. SUFFICES ASSUME OrchestratorInv, NEW c \in minted
       PROVE  /\ call[c].action = "confirm"
              /\ \E i \in DOMAIN call[c].responses :
                   LET asked == call[call[c].responses[i].call] IN
                   asked.action = "confirm" /\ asked.transaction = call[c].transaction
    BY DEF GrantNeedsContract
  <2>1. c \in Calls /\ call[c].responses \in Seq(Message)
    BY DEF OrchestratorInv, RegistryIsLive, OrchestratorTypeOK, CallState
  <2>2. call[c].action = "confirm" /\ call[c].responses # <<>>
    BY <2>1 DEF OrchestratorInv, IssuedIsConfirmed
  <2>3. 1 \in DOMAIN call[c].responses
    BY <2>1, <2>2
  <2>4. FromItsKey(c, call[c].responses[1])
    BY <2>1, <2>3 DEF OrchestratorInv, CollectedUnderKey
  <2>. QED  BY <2>2, <2>3, <2>4 DEF FromItsKey
<1>. QED  BY <1>1, OrchestratorInvariant, PTL
=============================================================================
