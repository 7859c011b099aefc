----------------------------- MODULE MessageAuth -----------------------------
(***************************************************************************)
(* Per-hop message authentication (packages/crypto-utils/src/beckn-auth.ts)*)
(* between a sender and a verifier: the window of validity and the cache   *)
(* that makes a message single-use.  A message may arrive any number of    *)
(* times, late, or damaged on its way.  A verification reads the clock,    *)
(* awaits the signature, then asks the cache: two steps.                   *)
(*                                                                         *)
(* A missing or malformed header or an unknown key is refused before the   *)
(* clock is read, whatever the state, and is not modelled.                 *)
(***************************************************************************)
EXTENDS Integers

CONSTANTS
  Messages,     \* messages, each signed once, under a nonce of its own
  Arrivals,     \* deliveries of a message to the verifier
  Ttl,          \* ttlSeconds of the sender
  Skew,         \* clockSkewSeconds of the verifier
  MaxDrift,     \* how many seconds the sender's clock is ahead or behind
  TicksPerSecond,  \* resolution of the clocks: the cache counts milliseconds
  MaxTime,      \* bound: ticks
  MaxRestarts,  \* bound: restarts of the verifier
  None

ASSUME NumbersAssumption ==
  /\ Ttl \in Nat /\ Skew \in Nat /\ MaxDrift \in Nat
  /\ TicksPerSecond \in Nat \ {0} /\ MaxTime \in Nat /\ MaxRestarts \in Nat
Verdicts == {"ok", "not-yet-valid", "expired", "bad-signature", "replayed"}

ASSUME NoneAssumption == None \notin Messages \cup Int \cup Verdicts

VARIABLES
  now,        \* the verifier's clock, in ticks
  header,     \* message -> when it was signed, in its sender's seconds and in ticks
  arrival,    \* arrival -> its message, whether it is intact, step and verdict
  cache,      \* message -> until when its nonce is remembered, in ticks, or None
  restarts

authVars == <<now, header, arrival, cache, restarts>>

ArrivalState ==
  [message : Messages \cup {None}, intact : BOOLEAN,
   pc : {"idle", "verifying", "done"}, verdict : Verdicts \cup {None},
   at : Nat, life : Nat]

AuthTypeOK ==
  /\ now \in 0..MaxTime
  /\ header \in [Messages -> [created : Int, signed : Nat] \cup {None}]
  /\ arrival \in [Arrivals -> ArrivalState]
  /\ cache \in [Messages -> Int \cup {None}]
  /\ restarts \in 0..MaxRestarts

AuthInit ==
  /\ now = 0
  /\ header = [m \in Messages |-> None]
  /\ arrival = [a \in Arrivals |->
       [message |-> None, intact |-> TRUE, pc |-> "idle", verdict |-> None,
        at |-> 0, life |-> 0]]
  /\ cache = [m \in Messages |-> None]
  /\ restarts = 0

Seconds(ticks) == ticks \div TicksPerSecond
Created(m) == header[m].created
Expires(m) == Created(m) + Ttl

-----------------------------------------------------------------------------
Tick ==
  /\ now < MaxTime
  /\ now' = now + 1
  /\ UNCHANGED <<header, arrival, cache, restarts>>

(* signMessage, by a clock that differs from the verifier's.               *)
SignMessage(m) ==
  /\ header[m] = None
  /\ \E drift \in (-MaxDrift)..MaxDrift :
       header' = [header EXCEPT ![m] = [created |-> Seconds(now) + drift, signed |-> now]]
  /\ UNCHANGED <<now, arrival, cache, restarts>>

(* Defect: the tolerance is applied on the wrong side.                     *)
WindowVerdictDefect(m) ==
  IF Created(m) > Seconds(now) - Skew THEN "not-yet-valid"
  ELSE IF Expires(m) < Seconds(now) - Skew THEN "expired"
  ELSE "ok"

(* The sender's seconds against the verifier's, both rounded down.         *)
WindowVerdict(m) ==
  IF Created(m) > Seconds(now) + Skew THEN "not-yet-valid"
  ELSE IF Expires(m) < Seconds(now) - Skew THEN "expired"
  ELSE "ok"

(* verifyMessage up to its await: outside the window nothing else is       *)
(* looked at.                                                              *)
Receive(a, m, intact) ==
  LET verdict == WindowVerdict(m) IN
  /\ arrival[a].pc = "idle"
  /\ header[m] # None
  /\ arrival' = [arrival EXCEPT ![a] =
       [message |-> m, intact |-> intact, at |-> now, life |-> restarts,
        pc |-> IF verdict = "ok" THEN "verifying" ELSE "done",
        verdict |-> IF verdict = "ok" THEN None ELSE verdict]]
  /\ UNCHANGED <<now, header, cache, restarts>>

Done(a, verdict) ==
  arrival' = [arrival EXCEPT ![a].pc = "done", ![a].verdict = verdict]

(* prune: what expired, by the verifier's clock, is forgotten.             *)
Pruned ==
  [m \in Messages |-> IF cache[m] # None /\ cache[m] < now THEN None ELSE cache[m]]

(* Defect: the nonce is recorded before the signature is known to be good. *)
FinishDefect(a) ==
  LET m == arrival[a].message IN
  /\ arrival[a].pc = "verifying"
  /\ IF Pruned[m] # None
     THEN Done(a, "replayed") /\ cache' = Pruned
     ELSE /\ Done(a, IF arrival[a].intact THEN "ok" ELSE "bad-signature")
          /\ cache' = [Pruned EXCEPT ![m] = Expires(m) * TicksPerSecond]
  /\ UNCHANGED <<now, header, restarts>>

(* Defect: the nonce is only looked up.                                    *)
FinishForgets(a) ==
  LET m == arrival[a].message IN
  /\ arrival[a].pc = "verifying"
  /\ Done(a, IF ~arrival[a].intact THEN "bad-signature"
             ELSE IF Pruned[m] # None THEN "replayed" ELSE "ok")
  /\ cache' = Pruned
  /\ UNCHANGED <<now, header, restarts>>

(* The signature is known to be good or not, and only a good one reaches   *)
(* the cache, which forgets what expired, then looks the nonce up and      *)
(* records it.                                                             *)
Finish(a) ==
  LET m == arrival[a].message IN
  /\ arrival[a].pc = "verifying"
  /\ IF ~arrival[a].intact
     THEN Done(a, "bad-signature") /\ UNCHANGED cache
     ELSE IF Pruned[m] # None
     THEN Done(a, "replayed") /\ cache' = Pruned
     ELSE /\ Done(a, "ok")
          /\ cache' = [Pruned EXCEPT ![m] = Expires(m) * TicksPerSecond]
  /\ UNCHANGED <<now, header, restarts>>

(* The process dies, and its cache and its verifications with it.          *)
RestartVerifier ==
  /\ restarts < MaxRestarts
  /\ restarts' = restarts + 1
  /\ cache' = [m \in Messages |-> None]
  /\ arrival' = [a \in Arrivals |->
       IF arrival[a].pc = "verifying" THEN [arrival[a] EXCEPT !.pc = "done"] ELSE arrival[a]]
  /\ UNCHANGED <<now, header>>

-----------------------------------------------------------------------------
AuthNext ==
  \/ Tick
  \/ \E m \in Messages : SignMessage(m)
  \/ \E a \in Arrivals, m \in Messages, intact \in BOOLEAN : Receive(a, m, intact)
  \/ \E a \in Arrivals : Finish(a)
  \/ RestartVerifier

AuthSpec == AuthInit /\ [][AuthNext]_authVars

-----------------------------------------------------------------------------
AcceptedAs(m) == { a \in Arrivals : arrival[a].message = m /\ arrival[a].verdict = "ok" }

(* Until it expires a message is accepted at most once by a process that   *)
(* keeps running, however the verifications of its copies interleave       *)
(* across the await: whoever is accepted by then finds no other copy       *)
(* accepted before it.                                                     *)
OnceWhileRemembered ==
  [][\A a \in Arrivals :
       LET m == arrival[a].message IN
       /\ arrival[a].pc = "verifying"
       /\ arrival'[a].verdict = "ok"
       /\ now <= Expires(m) * TicksPerSecond
       => \A b \in AcceptedAs(m) : arrival[b].life # restarts
    ]_authVars

(* A message sent by a clock that differs by no more than the skew is not  *)
(* refused for its time if it arrives within its lifetime, and is not      *)
(* accepted once lifetime, skew and drift are over.                        *)
FreshIsTimely ==
  MaxDrift <= Skew =>
    \A a \in Arrivals : LET m == arrival[a].message IN
      arrival[a].pc # "idle" =>
        /\ arrival[a].at <= header[m].signed + Ttl * TicksPerSecond =>
             arrival[a].verdict \notin {"not-yet-valid", "expired"}
        /\ arrival[a].verdict = "ok" =>
             arrival[a].at <= header[m].signed
                              + (Ttl + Skew + MaxDrift + 1) * TicksPerSecond

(* Every variable keeps its type; a damaged copy is never accepted, and it *)
(* does not use up the nonce: who is told of a replay comes after a copy   *)
(* that was accepted.                                                      *)
OnlyAcceptanceBurnsNonce ==
  /\ AuthTypeOK
  /\ \A a \in Arrivals :
       /\ arrival[a].verdict = "ok" => arrival[a].intact
       /\ arrival[a].verdict = "replayed" => AcceptedAs(arrival[a].message) # {}

(* Each message is accepted once in one process: single-use inside the     *)
(* window of validity, the skew included.                                  *)
AcceptedOnce ==
  \A a, b \in Arrivals :
    /\ arrival[a].verdict = "ok"
    /\ arrival[b].verdict = "ok"
    /\ arrival[a].message = arrival[b].message
    /\ arrival[a].life = arrival[b].life
    => a = b
=============================================================================
