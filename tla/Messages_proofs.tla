--------------------------- MODULE Messages_proofs ---------------------------
(***************************************************************************)
(* Theorems about what a node checks of a message.  MessageAuth: for any   *)
(* messages, arrivals, lifetime, skew, drift, resolution of the clocks and *)
(* number of restarts.  SignedJson: for any names, scalars, values, keys   *)
(* and headers, however deep the values nest.                              *)
(*                                                                         *)
(* What the recursive functions of SignedJson compute is proved by         *)
(* induction over nesting, from first-order facts about the least number   *)
(* that has not a property (SmallestExists) and so about every level       *)
(* (CountUp).  That no two values have one text is unique readability:     *)
(* texts that begin the same way tell where the first part of them ends.   *)
(***************************************************************************)
EXTENDS MessageAuth, SignedJson, FiniteSetTheorems, SequenceTheorems, TLAPS

-----------------------------------------------------------------------------
(* Arrival in time and only once.                                          *)

(* A message is signed by a clock that differs by at most MaxDrift.        *)
SignedByClock ==
  \A m \in Messages : header[m] # None =>
    /\ header[m].signed <= now
    /\ \E drift \in (-MaxDrift)..MaxDrift : Created(m) = Seconds(header[m].signed) + drift

TooEarly(m, t) == Created(m) > Seconds(t) + Skew
TooLate(m, t) == Expires(m) < Seconds(t) - Skew

(* A verification was begun on a signed message, and its verdict is that   *)
(* of the window then, of the signature and of the cache.                  *)
VerdictOf(a) ==
  LET m == arrival[a].message
      t == arrival[a].at
  IN
  /\ m \in Messages /\ header[m] # None
  /\ header[m].signed <= t /\ t <= now /\ arrival[a].life <= restarts
  /\ arrival[a].verdict = "not-yet-valid" => TooEarly(m, t)
  /\ arrival[a].verdict = "expired" => TooLate(m, t)
  /\ arrival[a].pc = "verifying" => arrival[a].verdict = None
  /\ arrival[a].pc = "verifying" \/ arrival[a].verdict = "ok" => ~TooEarly(m, t) /\ ~TooLate(m, t)

VerdictsHold ==
  \A a \in Arrivals :
    IF arrival[a].pc = "idle" THEN arrival[a].verdict = None ELSE VerdictOf(a)

(* What this process accepted it remembers until it expires, and what it   *)
(* remembers it accepted.                                                  *)
CacheRemembers ==
  /\ \A a \in Arrivals : arrival[a].verdict = "ok" /\ arrival[a].life = restarts =>
       LET m == arrival[a].message IN
       \/ cache[m] = Expires(m) * TicksPerSecond
       \/ Expires(m) * TicksPerSecond < now
  /\ \A m \in Messages : cache[m] # None => AcceptedAs(m) # {}

AuthInv ==
  /\ OnlyAcceptanceBurnsNonce /\ SignedByClock /\ VerdictsHold /\ CacheRemembers

-----------------------------------------------------------------------------
(* Rounding down to seconds is monotone, and loses less than a second.     *)
LEMMA SecondsBounds ==
  ASSUME NEW t \in Nat
  PROVE  /\ Seconds(t) \in Nat
         /\ Seconds(t) * TicksPerSecond <= t
         /\ t < (Seconds(t) + 1) * TicksPerSecond
<1>1. TicksPerSecond \in Nat \ {0}
  BY NumbersAssumption
<1>. QED  BY <1>1, Z3 DEF Seconds

(* Multiplication by the resolution preserves and reflects order.          *)
LEMMA TimesMonotone ==
  ASSUME NEW i \in Int, NEW j \in Int, NEW n \in Nat \ {0}
  PROVE  /\ i <= j => i * n <= j * n
         /\ i * n < j * n => i < j
BY Z3

(* A delay of k seconds moves the rounded time by at most k.               *)
LEMMA SecondsWithin ==
  ASSUME NEW t \in Nat, NEW u \in Nat, NEW k \in Nat, t <= u + k * TicksPerSecond
  PROVE  Seconds(t) <= Seconds(u) + k
<1>. DEFINE T == TicksPerSecond
<1>1. T \in Nat \ {0}
  BY NumbersAssumption
<1>2. /\ Seconds(t) \in Nat /\ Seconds(u) \in Nat
      /\ Seconds(t) * T <= t /\ u < (Seconds(u) + 1) * T
  BY SecondsBounds
<1>. HIDE DEF T
<1>3. (Seconds(u) + 1) * T + k * T = (Seconds(u) + 1 + k) * T
  BY <1>1, <1>2, Z3
<1>4. Seconds(t) * T < (Seconds(u) + 1) * T + k * T
  <2>1. /\ Seconds(t) * T \in Int /\ (Seconds(u) + 1) * T \in Int /\ k * T \in Int
        /\ t <= u + k * T
    BY <1>1, <1>2 DEF T
  <2>. QED  BY <1>2, <2>1
<1>5. Seconds(t) < Seconds(u) + 1 + k
  BY <1>1, <1>2, <1>3, <1>4, TimesMonotone
<1>. QED  BY <1>2, <1>5

(* Rounded times k apart are less than k + 1 seconds apart.                *)
LEMMA WithinOfSeconds ==
  ASSUME NEW t \in Nat, NEW u \in Nat, NEW k \in Nat, Seconds(t) <= Seconds(u) + k
  PROVE  t <= u + (k + 1) * TicksPerSecond
<1>. DEFINE T == TicksPerSecond
<1>1. T \in Nat \ {0}
  BY NumbersAssumption
<1>2. /\ Seconds(t) \in Nat /\ Seconds(u) \in Nat
      /\ Seconds(u) * T <= u /\ t < (Seconds(t) + 1) * T
  BY SecondsBounds
<1>. HIDE DEF T
<1>3. (Seconds(t) + 1) * T <= (Seconds(u) + k + 1) * T
  BY <1>1, <1>2, TimesMonotone
<1>4. (Seconds(u) + k + 1) * T = Seconds(u) * T + (k + 1) * T
  BY <1>1, <1>2, Z3
<1>5. /\ (Seconds(t) + 1) * T \in Int /\ (Seconds(u) + k + 1) * T \in Int
      /\ Seconds(u) * T \in Int /\ (k + 1) * T \in Int
  BY <1>1, <1>2
<1>6. t <= u + (k + 1) * T
  BY <1>2, <1>3, <1>4, <1>5
<1>. QED  BY <1>6 DEF T

-----------------------------------------------------------------------------
(* What a time is, for a message that was signed.                          *)
LEMMA TimesAreNumbers ==
  ASSUME AuthTypeOK
  PROVE  /\ now \in Nat /\ Seconds(now) \in Nat
         /\ \A m \in Messages : header[m] # None =>
              /\ header[m].signed \in Nat /\ Created(m) \in Int /\ Expires(m) \in Int
              /\ Expires(m) * TicksPerSecond \in Int
<1>1. now \in Nat /\ TicksPerSecond \in Nat /\ Ttl \in Nat
  BY NumbersAssumption DEF AuthTypeOK
<1>2. Seconds(now) \in Nat
  BY <1>1, SecondsBounds
<1>. QED  BY <1>1, <1>2 DEF AuthTypeOK, Created, Expires

(* Time only makes what is remembered expire.                              *)
LEMMA TickKeeps ==
  ASSUME AuthInv, Tick
  PROVE  AuthInv'
<1>1. /\ AuthTypeOK /\ now' = now + 1 /\ now' \in 0..MaxTime
      /\ UNCHANGED <<header, arrival, cache, restarts>>
  BY NumbersAssumption DEF Tick, AuthInv, OnlyAcceptanceBurnsNonce, AuthTypeOK
<1>2. now \in Nat /\ \A m \in Messages : header[m] # None =>
        header[m].signed \in Nat /\ Expires(m) * TicksPerSecond \in Int
  BY <1>1, TimesAreNumbers
<1>3. OnlyAcceptanceBurnsNonce'
  BY <1>1 DEF AuthInv, OnlyAcceptanceBurnsNonce, AuthTypeOK, AcceptedAs
<1>4. SignedByClock'
  BY <1>1, <1>2 DEF AuthInv, SignedByClock, Created, Seconds
<1>5. VerdictsHold'
  <2>. SUFFICES ASSUME NEW a \in Arrivals, arrival[a].pc # "idle" PROVE VerdictOf(a)'
    BY <1>1 DEF AuthInv, VerdictsHold
  <2>1. VerdictOf(a) /\ arrival[a].at \in Nat
    BY <1>1 DEF AuthInv, VerdictsHold, AuthTypeOK, ArrivalState
  <2>2. arrival[a].at <= now'
    BY <1>1, <1>2, <2>1 DEF VerdictOf
  <2>. QED  BY <1>1, <2>1, <2>2 DEF VerdictOf, TooEarly, TooLate, Created, Expires
<1>6. CacheRemembers'
  <2>1. \A m \in Messages : AcceptedAs(m)' = AcceptedAs(m) /\ Expires(m)' = Expires(m)
    BY <1>1 DEF AcceptedAs, Expires, Created
  <2>. SUFFICES ASSUME NEW a \in Arrivals, arrival[a].verdict = "ok", arrival[a].life = restarts
       PROVE  LET m == arrival[a].message IN
              \/ cache[m] = Expires(m) * TicksPerSecond
              \/ Expires(m) * TicksPerSecond < now'
    BY <1>1, <2>1 DEF AuthInv, CacheRemembers, Expires, Created
  <2>2. arrival[a].message \in Messages /\ header[arrival[a].message] # None
    BY NoneAssumption DEF AuthInv, VerdictsHold, VerdictOf, Verdicts
  <2>. QED  BY <1>1, <1>2, <2>2 DEF AuthInv, CacheRemembers
<1>. QED  BY <1>3, <1>4, <1>5, <1>6 DEF AuthInv

(* No arrival is of a message that is still unsigned.                      *)
LEMMA SignMessageKeeps ==
  ASSUME AuthInv, NEW m \in Messages, SignMessage(m)
  PROVE  AuthInv'
<1>1. /\ AuthTypeOK /\ header[m] = None /\ UNCHANGED <<now, arrival, cache, restarts>>
      /\ now \in Nat /\ Seconds(now) \in Nat
  BY TimesAreNumbers DEF SignMessage, AuthInv, OnlyAcceptanceBurnsNonce
<1>2. PICK drift \in (-MaxDrift)..MaxDrift :
        header' = [header EXCEPT ![m] = [created |-> Seconds(now) + drift, signed |-> now]]
  BY DEF SignMessage
<1>3. /\ header'[m] = [created |-> Seconds(now) + drift, signed |-> now]
      /\ \A n \in Messages \ {m} : header'[n] = header[n]
      /\ header' \in [Messages -> [created : Int, signed : Nat] \cup {None}]
  BY <1>1, <1>2, NumbersAssumption DEF AuthTypeOK
<1>4. OnlyAcceptanceBurnsNonce'
  BY <1>1, <1>3 DEF AuthInv, OnlyAcceptanceBurnsNonce, AuthTypeOK, AcceptedAs
<1>5. SignedByClock'
  BY <1>1, <1>3 DEF AuthInv, SignedByClock, Created, Seconds
<1>6. \A a \in Arrivals : arrival[a].pc # "idle" =>
        /\ arrival[a].message \in Messages \ {m}
        /\ header'[arrival[a].message] = header[arrival[a].message]
  BY <1>1, <1>3 DEF AuthInv, VerdictsHold, VerdictOf
<1>7. VerdictsHold'
  BY <1>1, <1>6 DEF AuthInv, VerdictsHold, VerdictOf, TooEarly, TooLate, Created, Expires, Seconds
<1>8. \A a \in Arrivals : arrival[a].verdict = "ok" => arrival[a].pc # "idle"
  BY NoneAssumption DEF AuthInv, VerdictsHold, Verdicts
<1>9. CacheRemembers'
  BY <1>1, <1>6, <1>8 DEF AuthInv, CacheRemembers, AcceptedAs, Expires, Created
<1>. QED  BY <1>4, <1>5, <1>7, <1>9 DEF AuthInv

(* A message that arrives is not accepted before its signature is checked. *)
LEMMA ReceiveKeeps ==
  ASSUME AuthInv, NEW a \in Arrivals, NEW m \in Messages, NEW whole \in BOOLEAN,
         Receive(a, m, whole)
  PROVE  AuthInv'
<1>. DEFINE verdict == WindowVerdict(m)
            new == [message |-> m, intact |-> whole, at |-> now, life |-> restarts,
                    pc |-> IF verdict = "ok" THEN "verifying" ELSE "done",
                    verdict |-> IF verdict = "ok" THEN None ELSE verdict]
<1>1. /\ AuthTypeOK /\ arrival[a].pc = "idle" /\ header[m] # None
      /\ arrival' = [arrival EXCEPT ![a] = new] /\ UNCHANGED <<now, header, cache, restarts>>
      /\ now \in Nat /\ restarts \in Nat
  BY NumbersAssumption DEF Receive, AuthInv, OnlyAcceptanceBurnsNonce, AuthTypeOK
<1>2. /\ verdict \in {"ok", "not-yet-valid", "expired"}
      /\ verdict = "not-yet-valid" => TooEarly(m, now)
      /\ verdict = "expired" => TooLate(m, now)
      /\ verdict = "ok" => ~TooEarly(m, now) /\ ~TooLate(m, now)
  BY DEF WindowVerdict, TooEarly, TooLate
<1>. HIDE DEF verdict
<1>3. new \in ArrivalState /\ new.verdict \notin {"ok", "replayed"}
  BY <1>1, <1>2, NoneAssumption DEF ArrivalState, Verdicts
<1>4. /\ arrival'[a] = new /\ \A b \in Arrivals \ {a} : arrival'[b] = arrival[b]
      /\ arrival' \in [Arrivals -> ArrivalState]
  BY <1>1, <1>3 DEF AuthTypeOK
<1>5. arrival[a].verdict \notin {"ok", "replayed"}
  BY <1>1, NoneAssumption DEF AuthInv, VerdictsHold, Verdicts
<1>6. \A n \in Messages : AcceptedAs(n)' = AcceptedAs(n)
  BY <1>3, <1>4, <1>5 DEF AcceptedAs
<1>7. OnlyAcceptanceBurnsNonce'
  <2>1. ASSUME NEW b \in Arrivals, arrival'[b].verdict = "ok" \/ arrival'[b].verdict = "replayed"
        PROVE  /\ b # a /\ arrival'[b] = arrival[b]
               /\ AcceptedAs(arrival[b].message)' = AcceptedAs(arrival[b].message)
    <3>1. b # a /\ arrival'[b] = arrival[b]
      BY <1>3, <1>4, <2>1
    <3>2. arrival[b].message \in Messages
      BY <2>1, <3>1, NoneAssumption DEF AuthInv, VerdictsHold, VerdictOf, Verdicts
    <3>. QED  BY <1>6, <3>1, <3>2
  <2>. QED  BY <1>1, <1>4, <2>1 DEF AuthInv, OnlyAcceptanceBurnsNonce, AuthTypeOK
<1>8. SignedByClock'
  BY <1>1 DEF AuthInv, SignedByClock, Created, Seconds
<1>9. VerdictsHold'
  <2>1. VerdictOf(a)'
    <3>1. header[m].signed <= now
      BY <1>1 DEF AuthInv, SignedByClock
    <3>2. /\ new.message = m /\ new.at = now /\ new.life = restarts /\ new.pc # "idle"
          /\ new.verdict = "not-yet-valid" => verdict = "not-yet-valid"
          /\ new.verdict = "expired" => verdict = "expired"
          /\ new.pc = "verifying" => verdict = "ok" /\ new.verdict = None
          /\ new.verdict # "ok"
      BY <1>2, <1>3, NoneAssumption DEF Verdicts
    <3>3. /\ TooEarly(m, now)' = TooEarly(m, now) /\ TooLate(m, now)' = TooLate(m, now)
      BY <1>1 DEF TooEarly, TooLate, Created, Expires, Seconds
    <3>. HIDE DEF new
    <3>. QED  BY <1>1, <1>2, <1>4, <3>1, <3>2, <3>3 DEF VerdictOf
  <2>2. \A b \in Arrivals \ {a} : VerdictOf(b) => VerdictOf(b)'
    BY <1>1, <1>4 DEF VerdictOf, TooEarly, TooLate, Created, Expires, Seconds
  <2>. QED  BY <1>4, <2>1, <2>2 DEF AuthInv, VerdictsHold
<1>10. CacheRemembers'
  <2>1. \A b \in Arrivals : arrival'[b].verdict = "ok" => arrival'[b] = arrival[b]
    BY <1>3, <1>4
  <2>. QED  BY <1>1, <1>6, <2>1 DEF AuthInv, CacheRemembers, Expires, Created
<1>. QED  BY <1>7, <1>8, <1>9, <1>10 DEF AuthInv

(* What is forgotten has expired.                                          *)
LEMMA PrunedHasExpired ==
  ASSUME NEW m \in Messages
  PROVE  /\ Pruned[m] # None => Pruned[m] = cache[m]
         /\ Pruned[m] = cache[m] \/ cache[m] < now
BY DEF Pruned

(* What Finish makes of its arrival, with the signature and the cache.     *)
LEMMA FinishOutcome ==
  ASSUME AuthInv, NEW a \in Arrivals, Finish(a)
  PROVE  LET m == arrival[a].message IN
         \E verdict \in {"bad-signature", "replayed", "ok"} :
           /\ arrival' = [arrival EXCEPT ![a].pc = "done", ![a].verdict = verdict]
           /\ verdict = "ok" => /\ arrival[a].intact /\ Pruned[m] = None
                                /\ cache' = [Pruned EXCEPT ![m] = Expires(m) * TicksPerSecond]
           /\ verdict = "replayed" => Pruned[m] # None
           /\ verdict # "ok" => cache' \in {cache, Pruned}
<1>. DEFINE m == arrival[a].message
<1>1. CASE ~arrival[a].intact
  <2>1. /\ arrival' = [arrival EXCEPT ![a].pc = "done", ![a].verdict = "bad-signature"]
        /\ cache' = cache
    BY <1>1 DEF Finish, Done
  <2>. QED  BY <2>1
<1>2. CASE arrival[a].intact /\ Pruned[m] # None
  <2>1. /\ arrival' = [arrival EXCEPT ![a].pc = "done", ![a].verdict = "replayed"]
        /\ cache' = Pruned
    BY <1>2 DEF Finish, Done
  <2>. QED  BY <1>2, <2>1
<1>3. CASE arrival[a].intact /\ Pruned[m] = None
  <2>1. /\ arrival' = [arrival EXCEPT ![a].pc = "done", ![a].verdict = "ok"]
        /\ cache' = [Pruned EXCEPT ![m] = Expires(m) * TicksPerSecond]
    BY <1>3 DEF Finish, Done
  <2>. QED  BY <1>3, <2>1
<1>. QED  BY <1>1, <1>2, <1>3

(* An acceptance is remembered as it is made.                              *)
LEMMA FinishKeeps ==
  ASSUME AuthInv, NEW a \in Arrivals, Finish(a)
  PROVE  AuthInv'
<1>1. PICK m \in Messages :
        /\ m = arrival[a].message /\ header[m] # None /\ VerdictOf(a)
        /\ AuthTypeOK /\ arrival[a].pc = "verifying" /\ arrival[a].verdict = None
        /\ UNCHANGED <<now, header, restarts>>
  BY DEF Finish, AuthInv, OnlyAcceptanceBurnsNonce, VerdictsHold, VerdictOf
<1>2. PICK verdict \in {"bad-signature", "replayed", "ok"} :
        /\ arrival' = [arrival EXCEPT ![a].pc = "done", ![a].verdict = verdict]
        /\ verdict = "ok" => /\ arrival[a].intact /\ Pruned[m] = None
                             /\ cache' = [Pruned EXCEPT ![m] = Expires(m) * TicksPerSecond]
        /\ verdict = "replayed" => Pruned[m] # None
        /\ verdict # "ok" => cache' \in {cache, Pruned}
  BY <1>1, FinishOutcome
<1>3. now \in Nat /\ \A n \in Messages : header[n] # None => Expires(n) * TicksPerSecond \in Int
  BY <1>1, TimesAreNumbers
<1>4. Pruned \in [Messages -> Int \cup {None}]
  BY <1>1 DEF Pruned, AuthTypeOK
<1>5. /\ arrival'[a].pc = "done" /\ arrival'[a].verdict = verdict /\ arrival'[a].message = m
      /\ arrival'[a].intact = arrival[a].intact /\ arrival'[a].at = arrival[a].at
      /\ arrival'[a].life = arrival[a].life
      /\ \A b \in Arrivals \ {a} : arrival'[b] = arrival[b]
      /\ arrival' \in [Arrivals -> ArrivalState]
  <2>1. arrival[a] \in ArrivalState
    BY <1>1 DEF AuthTypeOK
  <2>2. arrival'[a] = [[arrival[a] EXCEPT !.pc = "done"] EXCEPT !.verdict = verdict]
    BY <1>1, <1>2, <2>1 DEF AuthTypeOK, ArrivalState
  <2>3. arrival'[a] \in ArrivalState
    BY <2>1, <2>2 DEF ArrivalState, Verdicts
  <2>4. \A b \in Arrivals \ {a} : arrival'[b] = arrival[b]
    BY <1>1, <1>2 DEF AuthTypeOK
  <2>5. arrival' \in [Arrivals -> ArrivalState]
    BY <1>1, <1>2, <2>3, <2>4 DEF AuthTypeOK
  <2>. QED  BY <1>1, <2>1, <2>2, <2>4, <2>5 DEF ArrivalState
<1>6. AuthTypeOK'
  <2>1. cache' \in [Messages -> Int \cup {None}]
    BY <1>1, <1>2, <1>3, <1>4 DEF AuthTypeOK
  <2>. QED  BY <1>1, <1>5, <2>1 DEF AuthTypeOK
<1>7. \A n \in Messages : AcceptedAs(n) \subseteq AcceptedAs(n)'
  BY <1>1, <1>5, NoneAssumption DEF AcceptedAs, Verdicts
<1>8. /\ verdict = "ok" => AcceptedAs(m)' # {}
      /\ verdict = "replayed" => AcceptedAs(m)' # {}
  <2>1. verdict = "ok" => a \in AcceptedAs(m)'
    BY <1>5 DEF AcceptedAs
  <2>2. verdict = "replayed" => AcceptedAs(m) # {}
    BY <1>1, <1>2, PrunedHasExpired DEF AuthInv, CacheRemembers
  <2>. QED  BY <1>1, <1>7, <2>1, <2>2
<1>9. OnlyAcceptanceBurnsNonce'
  <2>1. ASSUME NEW b \in Arrivals, arrival'[b].verdict = "replayed"
        PROVE  \E n \in Messages : n = arrival'[b].message /\ AcceptedAs(n)' # {}
    <3>1. CASE b = a
      BY <1>1, <1>5, <1>8, <2>1, <3>1
    <3>2. CASE b # a
      <4>1. arrival'[b] = arrival[b]
        BY <1>5, <3>2
      <4>2. PICK n \in Messages : n = arrival[b].message
        BY <2>1, <4>1, NoneAssumption DEF AuthInv, VerdictsHold, VerdictOf, Verdicts
      <4>3. AcceptedAs(n) # {}
        BY <2>1, <4>1, <4>2 DEF AuthInv, OnlyAcceptanceBurnsNonce
      <4>. QED  BY <1>7, <4>1, <4>2, <4>3
    <3>. QED  BY <3>1, <3>2
  <2>2. ASSUME NEW b \in Arrivals, arrival'[b].verdict = "ok"
        PROVE  arrival'[b].intact
    BY <1>2, <1>5, <2>2 DEF AuthInv, OnlyAcceptanceBurnsNonce
  <2>. QED  BY <1>6, <2>1, <2>2 DEF OnlyAcceptanceBurnsNonce, AcceptedAs
<1>10. SignedByClock'
  BY <1>1 DEF AuthInv, SignedByClock, Created, Seconds
<1>11. VerdictsHold'
  <2>1. VerdictOf(a)'
    BY <1>1, <1>2, <1>5 DEF VerdictOf, TooEarly, TooLate, Created, Expires, Seconds
  <2>2. \A b \in Arrivals \ {a} : VerdictOf(b) => VerdictOf(b)'
    BY <1>1, <1>5 DEF VerdictOf, TooEarly, TooLate, Created, Expires, Seconds
  <2>. QED  BY <1>5, <2>1, <2>2 DEF AuthInv, VerdictsHold
<1>12. CacheRemembers'
  <2>1. \A n \in Messages : Expires(n)' = Expires(n)
    BY <1>1 DEF Expires, Created
  <2>2. \A n \in Messages : \/ cache'[n] = cache[n]
                            \/ cache'[n] = None /\ cache[n] < now
                            \/ n = m /\ verdict = "ok" /\ cache'[n] = Expires(m) * TicksPerSecond
    BY <1>1, <1>2, <1>4 DEF AuthTypeOK, Pruned
  <2>3. ASSUME NEW b \in Arrivals, arrival'[b].verdict = "ok", arrival'[b].life = restarts
        PROVE  LET n == arrival'[b].message IN
               /\ n \in Messages
               /\ \/ cache'[n] = Expires(n) * TicksPerSecond
                  \/ Expires(n) * TicksPerSecond < now
    <3>1. CASE b = a
      BY <1>1, <1>2, <1>4, <1>5, <2>3, <3>1
    <3>2. CASE b # a
      <4>1. arrival'[b] = arrival[b]
        BY <1>5, <3>2
      <4>2. arrival[b].message \in Messages
        BY <2>3, <4>1, NoneAssumption DEF AuthInv, VerdictsHold, VerdictOf, Verdicts
      <4>3. LET n == arrival[b].message IN
            \/ cache[n] = Expires(n) * TicksPerSecond
            \/ Expires(n) * TicksPerSecond < now
        BY <2>3, <4>1 DEF AuthInv, CacheRemembers
      <4>. QED  BY <2>2, <4>1, <4>2, <4>3
    <3>. QED  BY <3>1, <3>2
  <2>4. ASSUME NEW n \in Messages, cache'[n] # None
        PROVE  AcceptedAs(n)' # {}
    <3>1. cache[n] # None => AcceptedAs(n) # {}
      BY DEF AuthInv, CacheRemembers
    <3>. QED  BY <1>7, <1>8, <2>2, <2>4, <3>1
  <2>. QED  BY <1>1, <1>5, <2>1, <2>3, <2>4 DEF CacheRemembers
<1>. QED  BY <1>9, <1>10, <1>11, <1>12 DEF AuthInv

(* A new process remembers nothing, and has accepted nothing.              *)
LEMMA RestartKeeps ==
  ASSUME AuthInv, RestartVerifier
  PROVE  AuthInv'
<1>1. /\ AuthTypeOK /\ restarts' = restarts + 1 /\ restarts' \in 0..MaxRestarts
      /\ restarts \in Nat /\ cache' = [m \in Messages |-> None] /\ UNCHANGED <<now, header>>
      /\ arrival' = [a \in Arrivals |->
           IF arrival[a].pc = "verifying" THEN [arrival[a] EXCEPT !.pc = "done"] ELSE arrival[a]]
  BY NumbersAssumption DEF RestartVerifier, AuthInv, OnlyAcceptanceBurnsNonce, AuthTypeOK
<1>2. \A a \in Arrivals :
        /\ arrival'[a] \in ArrivalState
        /\ arrival'[a].message = arrival[a].message /\ arrival'[a].verdict = arrival[a].verdict
        /\ arrival'[a].intact = arrival[a].intact /\ arrival'[a].at = arrival[a].at
        /\ arrival'[a].life = arrival[a].life
        /\ arrival'[a].pc \in {arrival[a].pc, "done"} /\ arrival'[a].pc # "verifying"
        /\ arrival'[a].pc = "idle" <=> arrival[a].pc = "idle"
  BY <1>1 DEF AuthTypeOK, ArrivalState
<1>3. \A m \in Messages \cup {None} : AcceptedAs(m)' = AcceptedAs(m)
  BY <1>2 DEF AcceptedAs
<1>4. AuthTypeOK'
  BY <1>1, <1>2 DEF AuthTypeOK
<1>5. OnlyAcceptanceBurnsNonce'
  <2>1. \A a \in Arrivals : arrival[a].message \in Messages \cup {None}
    BY <1>1 DEF AuthTypeOK, ArrivalState
  <2>. QED  BY <1>2, <1>3, <1>4, <2>1 DEF AuthInv, OnlyAcceptanceBurnsNonce
<1>6. SignedByClock'
  BY <1>1 DEF AuthInv, SignedByClock, Created, Seconds
<1>7. VerdictsHold'
  <2>1. ASSUME NEW a \in Arrivals, VerdictOf(a) PROVE VerdictOf(a)'
    <3>1. arrival[a].life \in Nat
      BY <1>1 DEF AuthTypeOK, ArrivalState
    <3>2. arrival'[a].life <= restarts'
      BY <1>1, <1>2, <2>1, <3>1 DEF VerdictOf
    <3>. QED  BY <1>1, <1>2, <2>1, <3>2 DEF VerdictOf, TooEarly, TooLate, Created, Expires, Seconds
  <2>. QED  BY <1>2, <2>1 DEF AuthInv, VerdictsHold
<1>8. CacheRemembers'
  <2>1. ASSUME NEW a \in Arrivals, arrival'[a].verdict = "ok" PROVE arrival'[a].life # restarts'
    <3>1. arrival[a].life \in Nat /\ arrival[a].life <= restarts
      BY <1>1, <1>2, <2>1, NoneAssumption
         DEF AuthInv, VerdictsHold, VerdictOf, Verdicts, AuthTypeOK, ArrivalState
    <3>. QED  BY <1>1, <1>2, <3>1
  <2>. QED  BY <1>1, <2>1 DEF CacheRemembers
<1>. QED  BY <1>5, <1>6, <1>7, <1>8 DEF AuthInv

-----------------------------------------------------------------------------
(* The invariant: every verdict is that of the window, the signature and   *)
(* the cache, and what a process accepted it remembers until it expires    *)
(* (beckn-auth.ts: verifyMessage, InMemoryReplayCache).                    *)
THEOREM AuthInvariant == AuthSpec => []AuthInv
<1>1. AuthInit => AuthInv
  <2>. SUFFICES ASSUME AuthInit PROVE AuthInv
    OBVIOUS
  <2>1. arrival \in [Arrivals -> ArrivalState]
    BY DEF AuthInit, ArrivalState
  <2>2. /\ \A m \in Messages : header[m] = None /\ cache[m] = None
        /\ \A a \in Arrivals : arrival[a].pc = "idle" /\ arrival[a].verdict = None
    BY DEF AuthInit
  <2>3. header \in [Messages -> {None}] /\ cache \in [Messages -> {None}]
    BY DEF AuthInit
  <2>4. now \in 0..MaxTime /\ restarts \in 0..MaxRestarts
    BY NumbersAssumption DEF AuthInit
  <2>5. AuthTypeOK
    BY <2>1, <2>3, <2>4 DEF AuthTypeOK
  <2>. QED  BY <2>2, <2>5, NoneAssumption DEF AuthInv, OnlyAcceptanceBurnsNonce, SignedByClock,
            VerdictsHold, CacheRemembers, Verdicts
<1>2. AuthInv /\ [AuthNext]_authVars => AuthInv'
  <2>. SUFFICES ASSUME AuthInv, [AuthNext]_authVars PROVE AuthInv'
    OBVIOUS
  <2>1. CASE Tick
    BY <2>1, TickKeeps
  <2>2. ASSUME NEW m \in Messages, SignMessage(m) PROVE AuthInv'
    BY <2>2, SignMessageKeeps
  <2>3. ASSUME NEW a \in Arrivals, NEW m \in Messages, NEW whole \in BOOLEAN,
               Receive(a, m, whole)
        PROVE  AuthInv'
    BY <2>3, ReceiveKeeps
  <2>4. ASSUME NEW a \in Arrivals, Finish(a) PROVE AuthInv'
    BY <2>4, FinishKeeps
  <2>5. CASE RestartVerifier
    BY <2>5, RestartKeeps
  <2>6. CASE UNCHANGED authVars
    BY <2>6 DEF authVars, AuthInv, OnlyAcceptanceBurnsNonce, AuthTypeOK, AcceptedAs,
       SignedByClock, VerdictsHold, VerdictOf, TooEarly, TooLate, CacheRemembers, Created,
       Expires, Seconds
  <2>. QED  BY <2>1, <2>2, <2>3, <2>4, <2>5, <2>6 DEF AuthNext
<1>. QED  BY <1>1, <1>2, PTL DEF AuthSpec

(* A damaged copy is never accepted and never costs the intact one its     *)
(* nonce: the cache is asked after the signature (verifyMessage).          *)
THEOREM NoncesAreBurntByAcceptance == AuthSpec => []OnlyAcceptanceBurnsNonce
<1>1. AuthInv => OnlyAcceptanceBurnsNonce
  BY DEF AuthInv
<1>. QED  BY <1>1, AuthInvariant, PTL

(* Until it expires no second copy of a message is accepted by the process *)
(* that accepted one, for any number of copies verified at once: the       *)
(* lookup and the record are one step (InMemoryReplayCache.checkAndAdd).   *)
THEOREM AcceptedOnceInItsLifetime == AuthSpec => OnceWhileRemembered
<1>. DEFINE Once == \A a \in Arrivals :
       LET m == arrival[a].message IN
       /\ arrival[a].pc = "verifying"
       /\ arrival'[a].verdict = "ok"
       /\ now <= Expires(m) * TicksPerSecond
       => \A b \in AcceptedAs(m) : arrival[b].life # restarts
<1>1. AuthInv /\ [AuthNext]_authVars => [Once]_authVars
  <2>. SUFFICES ASSUME AuthInv, AuthNext, NEW a \in Arrivals, arrival[a].pc = "verifying",
                       arrival'[a].verdict = "ok",
                       now <= Expires(arrival[a].message) * TicksPerSecond,
                       NEW b \in AcceptedAs(arrival[a].message), arrival[b].life = restarts
       PROVE  FALSE
    OBVIOUS
  <2>. DEFINE m == arrival[a].message
  <2>1. /\ AuthTypeOK /\ arrival[a].verdict = None /\ m \in Messages /\ header[m] # None
    BY DEF AuthInv, OnlyAcceptanceBurnsNonce, VerdictsHold, VerdictOf
  <2>2. now \in Nat /\ Expires(m) * TicksPerSecond \in Int
    BY <2>1, TimesAreNumbers
  <2>3. Finish(a)
    <3>1. arrival'[a].verdict # arrival[a].verdict
      BY <2>1, NoneAssumption DEF Verdicts
    <3>2. ASSUME NEW d \in Arrivals, NEW n \in Messages, NEW whole \in BOOLEAN,
                 Receive(d, n, whole)
          PROVE  FALSE
      BY <2>1, <3>1, <3>2 DEF Receive, AuthTypeOK
    <3>3. ASSUME NEW d \in Arrivals \ {a}, Finish(d) PROVE FALSE
      BY <2>1, <3>1, <3>3 DEF Finish, Done, AuthTypeOK
    <3>4. ~Tick /\ \A n \in Messages : ~SignMessage(n)
      BY <3>1 DEF Tick, SignMessage
    <3>5. ~RestartVerifier
      BY <2>1, <3>1 DEF RestartVerifier, AuthTypeOK, ArrivalState
    <3>. QED  BY <3>2, <3>3, <3>4, <3>5 DEF AuthNext
  <2>4. PICK verdict \in {"bad-signature", "replayed", "ok"} :
          /\ arrival' = [arrival EXCEPT ![a].pc = "done", ![a].verdict = verdict]
          /\ verdict = "ok" => Pruned[m] = None
    BY <2>3, FinishOutcome
  <2>5. Pruned[m] = None
    BY <2>1, <2>4 DEF AuthTypeOK, ArrivalState
  <2>6. b \in Arrivals /\ arrival[b].verdict = "ok" /\ arrival[b].message = m
    BY DEF AcceptedAs
  <2>7. cache[m] = Expires(m) * TicksPerSecond
    BY <2>2, <2>6 DEF AuthInv, CacheRemembers
  <2>. QED  BY <2>1, <2>2, <2>5, <2>7, NoneAssumption DEF Pruned
<1>. QED  BY <1>1, AuthInvariant, PTL DEF AuthSpec, OnceWhileRemembered

(* With clocks no further apart than the skew a message that arrives in    *)
(* its lifetime is not refused for its time, and one that is accepted came *)
(* within lifetime, skew, drift and the rounding (verifyMessage).          *)
THEOREM FreshMessagesAreTimely == AuthSpec => []FreshIsTimely
<1>1. AuthInv => FreshIsTimely
  <2>. SUFFICES ASSUME AuthInv, MaxDrift <= Skew, NEW a \in Arrivals, arrival[a].pc # "idle"
       PROVE  LET m == arrival[a].message IN
              /\ arrival[a].at <= header[m].signed + Ttl * TicksPerSecond =>
                   arrival[a].verdict \notin {"not-yet-valid", "expired"}
              /\ arrival[a].verdict = "ok" =>
                   arrival[a].at <= header[m].signed
                                    + (Ttl + Skew + MaxDrift + 1) * TicksPerSecond
    BY DEF FreshIsTimely
  <2>. DEFINE m == arrival[a].message
              t == arrival[a].at
              u == header[m].signed
  <2>1. AuthTypeOK /\ VerdictOf(a) /\ m \in Messages /\ header[m] # None /\ u <= t
    BY DEF AuthInv, OnlyAcceptanceBurnsNonce, VerdictsHold, VerdictOf
  <2>2. t \in Nat /\ u \in Nat /\ Ttl \in Nat /\ Skew \in Nat /\ MaxDrift \in Nat
    BY <2>1, NumbersAssumption, TimesAreNumbers DEF AuthTypeOK, ArrivalState
  <2>3. PICK drift \in (-MaxDrift)..MaxDrift : Created(m) = Seconds(u) + drift
    BY <2>1 DEF AuthInv, SignedByClock
  <2>4. Seconds(t) \in Nat /\ Seconds(u) \in Nat
    BY <2>2, SecondsBounds
  <2>. HIDE DEF m, t, u
  <2>5. Seconds(u) <= Seconds(t)
    <3>1. u <= t + 0 * TicksPerSecond
      BY <2>1, <2>2, NumbersAssumption
    <3>. QED  BY <2>2, <2>4, <3>1, SecondsWithin
  <2>6. ASSUME t <= u + Ttl * TicksPerSecond PROVE ~TooEarly(m, t) /\ ~TooLate(m, t)
    <3>1. Seconds(t) <= Seconds(u) + Ttl
      BY <2>2, <2>6, SecondsWithin
    <3>. QED  BY <2>2, <2>3, <2>4, <2>5, <3>1 DEF TooEarly, TooLate, Expires
  <2>7. ASSUME ~TooLate(m, t) PROVE t <= u + (Ttl + Skew + MaxDrift + 1) * TicksPerSecond
    <3>1. Seconds(t) <= Seconds(u) + (Ttl + Skew + MaxDrift)
      BY <2>2, <2>3, <2>4, <2>7 DEF TooLate, Expires
    <3>2. Ttl + Skew + MaxDrift \in Nat
      BY <2>2
    <3>. QED  BY <2>2, <3>1, <3>2, WithinOfSeconds
  <2>. QED  BY <2>1, <2>6, <2>7 DEF VerdictOf, m, t, u
<1>. QED  BY <1>1, AuthInvariant, PTL

-----------------------------------------------------------------------------
(* Signed JSON: induction.                                                 *)

(* A set of numbers that is not empty has a smallest.                      *)
LEMMA SmallestExists ==
  ASSUME NEW S \in SUBSET Nat, S # {}
  PROVE  \E n \in S : \A m \in S : n <= m
<1>. DEFINE R == OpToRel(<, Nat)
<1>1. IsWellFoundedOn(R, Nat)
  BY Zenon, NatLessThanWellFounded
<1>2. \A m, n \in Nat : m < n => <<m, n>> \in R
  BY Zenon DEF OpToRel
<1>. HIDE DEF R
<1>3. PICK n \in S : \A m \in S : ~(<<m, n>> \in R)
  BY Zenon, <1>1, WFMin
<1>4. ASSUME NEW m \in S PROVE n <= m
  <2>1. ~(m < n)
    BY <1>2, <1>3
  <2>. QED BY <2>1
<1>. QED BY <1>4

(* Counting up from 0 to n.                                                *)
LEMMA CountUp ==
  ASSUME NEW n \in Nat, NEW P, 0 \in P, \A i \in 0 .. n - 1 : i \in P => i + 1 \in P
  PROVE  0 .. n \subseteq P
<1>. DEFINE S == (0 .. n) \ P
<1>. SUFFICES ASSUME S # {} PROVE FALSE
  OBVIOUS
<1>1. PICK k \in S : \A m \in S : k <= m
  <2>1. S \in SUBSET Nat
    OBVIOUS
  <2>. HIDE DEF S
  <2>. QED BY <2>1, SmallestExists
<1>2. k \in 1 .. n /\ k - 1 \in 0 .. n - 1 /\ k - 1 \notin S
  BY <1>1
<1>. QED BY <1>1, <1>2

-----------------------------------------------------------------------------
(* What objects over values of V map their names to.                       *)
Members(V) == [Names -> [at : Nat, value : V \cup {Absent}]]

(* The values that are scalars, or hold values of V.                       *)
Over(V) == Scalars \cup {"array"} \X Seq(V) \cup {"object"} \X Members(V)

(* Json is what its definition says.                                       *)
LEMMA JsonEquation ==
  /\ Json[0] = Scalars
  /\ \A n \in 0 .. MaxNesting - 1 : Json[n + 1] = Over(Json[n])
<1>. DEFINE Body(f, n) == IF n = 0 THEN Scalars ELSE Over(f[n - 1])
            UpTo(n, f) == f = [i \in 0 .. n |-> Body(f, i)]
            P == {n \in 0 .. MaxNesting : \E f : UpTo(n, f)}
<1>1. \E f : UpTo(0, f)
  <2>1. UpTo(0, [i \in 0 .. 0 |-> Scalars])
    OBVIOUS
  <2>. HIDE DEF UpTo
  <2>. QED BY <2>1
<1>2. ASSUME NEW n \in 0 .. MaxNesting - 1, NEW f, UpTo(n, f) PROVE \E g : UpTo(n + 1, g)
  <2>. DEFINE g == [i \in 0 .. n + 1 |-> IF i = n + 1 THEN Over(f[n]) ELSE f[i]]
  <2>2. \A i \in 0 .. n : f[i] = Body(f, i)
    BY <1>2
  <2>3. ASSUME NEW i \in 0 .. n + 1 PROVE g[i] = Body(g, i)
    <3>1. CASE i = n + 1
      BY <3>1
    <3>2. CASE i \in 0 .. n
      <4>1. g[i] = f[i] /\ (i # 0 => g[i - 1] = f[i - 1])
        BY <3>2
      <4>. QED BY <4>1, <2>2, <3>2
    <3>. QED BY <3>1, <3>2
  <2>4. UpTo(n + 1, g)
    BY <2>3
  <2>. HIDE DEF UpTo, g
  <2>. QED BY <2>4
<1>3. 0 .. MaxNesting \subseteq P
  <2>. HIDE DEF UpTo
  <2>1. 0 \in P
    BY <1>1, NestingAssumption
  <2>2. \A n \in 0 .. MaxNesting - 1 : n \in P => n + 1 \in P
    BY <1>2, NestingAssumption
  <2>. HIDE DEF P
  <2>. QED BY <2>1, <2>2, CountUp, NestingAssumption
<1>4. PICK f : UpTo(MaxNesting, f)
  <2>. HIDE DEF UpTo
  <2>. QED BY <1>3, NestingAssumption
<1>5. Json = [n \in 0 .. MaxNesting |-> Body(Json, n)]
  BY <1>4 DEF Json, Over, Members
<1>6. ASSUME NEW n \in 0 .. MaxNesting PROVE Json[n] = Body(Json, n)
  BY <1>5
<1>7. ASSUME NEW n \in 0 .. MaxNesting - 1 PROVE Json[n + 1] = Over(Json[n])
  <2>1. n + 1 \in 0 .. MaxNesting /\ n + 1 # 0 /\ (n + 1) - 1 = n
    BY NestingAssumption
  <2>2. Json[n + 1] = Body(Json, n + 1)
    BY <2>1, <1>6
  <2>. QED BY <2>1, <2>2
<1>. QED BY <1>6, <1>7, NestingAssumption

(* Deeper values include the shallower ones.                               *)
LEMMA OverGrows ==
  ASSUME NEW V, NEW W, V \subseteq W
  PROVE  Over(V) \subseteq Over(W)
<1>1. Seq(V) \subseteq Seq(W)
  BY SeqMonotonic
<1>2. Members(V) \subseteq Members(W)
  BY DEF Members
<1>. QED BY <1>1, <1>2 DEF Over

(* What nests at most so deep also nests at most one deeper.               *)
LEMMA JsonLevels ==
  \A n \in 0 .. MaxNesting - 1 : Json[n] \subseteq Json[n + 1]
<1>. DEFINE P == {n \in 0 .. MaxNesting : n = MaxNesting \/ Json[n] \subseteq Json[n + 1]}
<1>1. 0 \in P
  <2>1. CASE MaxNesting = 0
    BY <2>1
  <2>2. CASE MaxNesting # 0
    <3>1. 0 \in 0 .. MaxNesting - 1
      BY <2>2, NestingAssumption
    <3>2. Json[0] = Scalars /\ Json[0 + 1] = Over(Json[0])
      BY <3>1, JsonEquation
    <3>. QED BY <3>2, NestingAssumption DEF Over
  <2>. QED BY <2>1, <2>2
<1>2. ASSUME NEW n \in 0 .. MaxNesting - 1, n \in P PROVE n + 1 \in P
  <2>1. CASE n + 1 = MaxNesting
    BY <2>1, NestingAssumption
  <2>2. CASE n + 1 # MaxNesting
    <3>1. n + 1 \in 0 .. MaxNesting - 1 /\ n # MaxNesting
      BY <2>2, NestingAssumption
    <3>2. Json[n + 1] = Over(Json[n]) /\ Json[(n + 1) + 1] = Over(Json[n + 1])
      BY <3>1, JsonEquation
    <3>3. Json[n + 1] \subseteq Json[(n + 1) + 1]
      BY <1>2, <3>1, <3>2, OverGrows
    <3>. QED BY <3>1, <3>3, NestingAssumption
  <2>. QED BY <2>1, <2>2
<1>3. 0 .. MaxNesting \subseteq P
  <2>. HIDE DEF P
  <2>. QED BY <1>1, <1>2, CountUp, NestingAssumption
<1>. QED BY <1>3, NestingAssumption

(* Every level holds only values.                                          *)
LEMMA JsonGrows ==
  \A n \in 0 .. MaxNesting : Json[n] \subseteq JsonValues
<1>. DEFINE P == {n \in 0 .. MaxNesting : Json[MaxNesting - n] \subseteq JsonValues}
<1>1. ASSUME NEW n \in 0 .. MaxNesting - 1, n \in P PROVE n + 1 \in P
  <2>. DEFINE m == MaxNesting - (n + 1)
  <2>1. m \in 0 .. MaxNesting - 1 /\ m + 1 = MaxNesting - n /\ n + 1 \in 0 .. MaxNesting
    BY NestingAssumption
  <2>2. Json[m] \subseteq Json[m + 1]
    BY <2>1, JsonLevels
  <2>. QED BY <2>1, <2>2, <1>1
<1>2. 0 .. MaxNesting \subseteq P
  <2>1. 0 \in P
    BY NestingAssumption DEF JsonValues
  <2>. HIDE DEF P
  <2>. QED BY <1>1, <2>1, CountUp, NestingAssumption
<1>3. ASSUME NEW n \in 0 .. MaxNesting PROVE Json[n] \subseteq JsonValues
  <2>1. MaxNesting - n \in P /\ MaxNesting - (MaxNesting - n) = n
    BY <1>2, NestingAssumption
  <2>. QED BY <2>1
<1>. QED BY <1>3

-----------------------------------------------------------------------------
(* The values an array or an object holds.                                 *)
Inside(v) ==
  IF IsArray(v) THEN {v[2][i] : i \in 1 .. Len(v[2])}
  ELSE IF IsObject(v) THEN {v[2][k].value : k \in OwnNames(v[2])}
  ELSE {}

(* The tags tell scalars, arrays, objects and Absent apart.                *)
LEMMA TagsAreDistinct ==
  /\ \A v \in Scalars : ~IsArray(v) /\ ~IsObject(v)
  /\ \A items : IsArray(Array(items)) /\ ~IsObject(Array(items)) /\ Array(items) \notin Scalars
  /\ \A members : /\ IsObject(Object(members)) /\ ~IsArray(Object(members))
                  /\ Object(members) \notin Scalars
  /\ Absent \notin JsonValues
<1>1. \A v \in Scalars : v[1] # "array" /\ v[1] # "object" /\ v[1] # "absent"
  BY ScalarsAssumption
<1>2. \A n \in 0 .. MaxNesting : Absent \notin Json[n]
  <2>1. Absent \notin Json[0]
    BY <1>1, JsonEquation DEF Absent
  <2>2. ASSUME NEW n \in 0 .. MaxNesting - 1 PROVE Absent \notin Json[n + 1]
    BY <1>1, JsonEquation DEF Absent, Over
  <2>3. ASSUME NEW n \in 0 .. MaxNesting PROVE Absent \notin Json[n]
    <3>1. CASE n = 0
      BY <3>1, <2>1
    <3>2. CASE n # 0
      <4>1. n - 1 \in 0 .. MaxNesting - 1 /\ (n - 1) + 1 = n
        BY <3>2, NestingAssumption
      <4>. QED BY <4>1, <2>2
    <3>. QED BY <3>1, <3>2
  <2>. QED BY <2>3
<1>. QED BY <1>1, <1>2, NestingAssumption DEF IsArray, IsObject, Array, Object, JsonValues

(* A value is a scalar, an array or an object.                             *)
LEMMA OverCases ==
  ASSUME NEW V, NEW v \in Over(V)
  PROVE  \/ v \in Scalars
         \/ \E items \in Seq(V) : v = Array(items)
         \/ \E members \in Members(V) : v = Object(members)
BY DEF Over, Array, Object

(* What a value holds is nested one less deep.                             *)
LEMMA InsideIsShallower ==
  /\ \A v \in Json[0] : Inside(v) = {}
  /\ \A n \in 0 .. MaxNesting - 1 : \A v \in Json[n + 1] : Inside(v) \subseteq Json[n]
<1>1. ASSUME NEW v \in Json[0] PROVE Inside(v) = {}
  BY JsonEquation, TagsAreDistinct DEF Inside
<1>2. ASSUME NEW n \in 0 .. MaxNesting - 1, NEW v \in Json[n + 1] PROVE Inside(v) \subseteq Json[n]
  <2>1. v \in Over(Json[n])
    BY JsonEquation
  <2>2. CASE v \in Scalars
    BY <2>2, TagsAreDistinct DEF Inside
  <2>3. ASSUME NEW items \in Seq(Json[n]), v = Array(items) PROVE Inside(v) \subseteq Json[n]
    <3>1. v[2] = items /\ IsArray(v)
      BY <2>3, TagsAreDistinct DEF Array
    <3>. QED BY <3>1, ElementOfSeq DEF Inside
  <2>4. ASSUME NEW members \in Members(Json[n]), v = Object(members)
        PROVE  Inside(v) \subseteq Json[n]
    <3>1. v[2] = members /\ IsObject(v) /\ ~IsArray(v)
      BY <2>4, TagsAreDistinct DEF Object
    <3>2. \A k \in Names : members[k].value \in Json[n] \cup {Absent}
      BY DEF Members
    <3>. QED BY <3>1, <3>2 DEF Inside, OwnNames
  <2>. QED BY <2>1, <2>2, <2>3, <2>4, OverCases
<1>. QED BY <1>1, <1>2

(* Induction over values: a set that has a value as soon as it has those   *)
(* the value holds has every value.                                        *)
LEMMA JsonInduction ==
  ASSUME NEW P, \A v \in JsonValues : Inside(v) \subseteq P => v \in P
  PROVE  JsonValues \subseteq P
<1>. DEFINE Q == {n \in 0 .. MaxNesting : Json[n] \subseteq P}
<1>1. 0 \in Q
  BY InsideIsShallower, JsonGrows, NestingAssumption
<1>2. ASSUME NEW n \in 0 .. MaxNesting - 1, n \in Q PROVE n + 1 \in Q
  <2>1. n + 1 \in 0 .. MaxNesting
    BY NestingAssumption
  <2>. QED BY <1>2, <2>1, InsideIsShallower, JsonGrows
<1>3. 0 .. MaxNesting \subseteq Q
  <2>. HIDE DEF Q
  <2>. QED BY <1>1, <1>2, CountUp, NestingAssumption
<1>. QED BY <1>3, NestingAssumption DEF JsonValues
-----------------------------------------------------------------------------
(* The recursive functions on values are what their definitions say.       *)
LEMMA InsideIsJson ==
  \A v \in JsonValues : Inside(v) \subseteq JsonValues
<1>1. ASSUME NEW v \in JsonValues PROVE Inside(v) \subseteq JsonValues
  <2>1. CASE MaxNesting = 0
    BY <2>1, InsideIsShallower DEF JsonValues
  <2>2. CASE MaxNesting # 0
    <3>1. MaxNesting - 1 \in 0 .. MaxNesting - 1 /\ (MaxNesting - 1) + 1 = MaxNesting
          /\ MaxNesting - 1 \in 0 .. MaxNesting
      BY <2>2, NestingAssumption
    <3>. QED BY <3>1, InsideIsShallower, JsonGrows DEF JsonValues
  <2>. QED BY <2>1, <2>2
<1>. QED BY <1>1

(* Every value is a scalar, an array of values or an object of values.     *)
LEMMA JsonCases ==
  ASSUME NEW v \in JsonValues
  PROVE  \/ v \in Scalars
         \/ \E items \in Seq(JsonValues) : v = Array(items)
         \/ \E members \in Members(JsonValues) : v = Object(members)
<1>1. CASE MaxNesting = 0
  BY <1>1, JsonEquation DEF JsonValues
<1>2. CASE MaxNesting # 0
  <2>1. MaxNesting - 1 \in 0 .. MaxNesting - 1 /\ (MaxNesting - 1) + 1 = MaxNesting
        /\ MaxNesting - 1 \in 0 .. MaxNesting
    BY <1>2, NestingAssumption
  <2>2. v \in Over(Json[MaxNesting - 1]) /\ Json[MaxNesting - 1] \subseteq JsonValues
    BY <2>1, JsonEquation, JsonGrows DEF JsonValues
  <2>3. v \in Over(JsonValues)
    BY <2>2, OverGrows
  <2>. QED BY <2>3, OverCases
<1>. QED BY <1>1, <1>2

(* What SerializeThrows is of a value, were it f of the values inside.     *)
SerializeThrowsBody(f, v) ==
  \/ v \in {Undefined, Number("NaN")}
  \/ IsArray(v) /\ \E i \in DOMAIN v[2] : f[v[2][i]]
  \/ IsObject(v) /\ \E k \in OwnNames(v[2]) : f[v[2][k].value]

(* Whether a value throws depends on what it holds alone.                  *)
LEMMA SerializeThrowsIsLocal ==
  ASSUME NEW f, NEW g, NEW v \in JsonValues, \A u \in Inside(v) : f[u] = g[u]
  PROVE  SerializeThrowsBody(f, v) = SerializeThrowsBody(g, v)
<1>1. CASE v \in Scalars
  BY <1>1, TagsAreDistinct DEF SerializeThrowsBody
<1>2. ASSUME NEW items \in Seq(JsonValues), v = Array(items)
      PROVE  SerializeThrowsBody(f, v) = SerializeThrowsBody(g, v)
  <2>1. v[2] = items /\ DOMAIN items = 1 .. Len(items) /\ IsArray(v) /\ ~IsObject(v)
    BY <1>2, TagsAreDistinct DEF Array
  <2>2. \A i \in DOMAIN v[2] : f[v[2][i]] = g[v[2][i]]
    BY <2>1 DEF Inside
  <2>. QED BY <2>1, <2>2 DEF SerializeThrowsBody
<1>3. ASSUME NEW members \in Members(JsonValues), v = Object(members)
      PROVE  SerializeThrowsBody(f, v) = SerializeThrowsBody(g, v)
  <2>1. IsObject(v) /\ ~IsArray(v)
    BY <1>3, TagsAreDistinct
  <2>2. \A k \in OwnNames(v[2]) : f[v[2][k].value] = g[v[2][k].value]
    BY <2>1 DEF Inside
  <2>. QED BY <2>1, <2>2 DEF SerializeThrowsBody
<1>. QED BY <1>1, <1>2, <1>3, JsonCases

(* So some function satisfies the recursion, and CHOOSE took one.          *)
LEMMA SerializeThrowsEquation ==
  \A v \in JsonValues : SerializeThrows[v] = SerializeThrowsBody(SerializeThrows, v)
<1>. DEFINE Fits(n, f) == \A v \in Json[n] : f[v] = SerializeThrowsBody(f, v)
            P == {n \in 0 .. MaxNesting : \E f : Fits(n, f)}
<1>1. ASSUME NEW n \in 0 .. MaxNesting, NEW f,
             \A v \in Json[n] : \A u \in Inside(v) : f[u] = SerializeThrowsBody(f, u)
      PROVE  \E g : Fits(n, g)
  <2>. DEFINE g == [v \in JsonValues |-> SerializeThrowsBody(f, v)]
  <2>1. ASSUME NEW v \in Json[n] PROVE g[v] = SerializeThrowsBody(g, v)
    <3>1. v \in JsonValues /\ Inside(v) \subseteq JsonValues
      BY JsonGrows, InsideIsJson
    <3>2. \A u \in Inside(v) : f[u] = g[u]
      BY <1>1, <3>1
    <3>3. g[v] = SerializeThrowsBody(f, v)
      BY <3>1
    <3>. HIDE DEF g
    <3>. QED BY <3>1, <3>2, <3>3, SerializeThrowsIsLocal
  <2>2. Fits(n, g)
    BY <2>1
  <2>. HIDE DEF Fits, g
  <2>. QED BY <2>2
<1>2. 0 \in P
  <2>1. \A v \in Json[0] : \A u \in Inside(v) : <<>>[u] = SerializeThrowsBody(<<>>, u)
    BY InsideIsShallower
  <2>. QED BY <1>1, <2>1, NestingAssumption
<1>3. ASSUME NEW n \in 0 .. MaxNesting - 1, n \in P PROVE n + 1 \in P
  <2>1. n + 1 \in 0 .. MaxNesting
    BY NestingAssumption
  <2>2. PICK f : Fits(n, f)
    BY <1>3
  <2>. QED BY <1>1, <2>1, <2>2, InsideIsShallower
<1>4. 0 .. MaxNesting \subseteq P
  <2>. HIDE DEF P
  <2>. QED BY <1>2, <1>3, CountUp, NestingAssumption
<1>5. PICK f : Fits(MaxNesting, f)
  <2>. HIDE DEF Fits
  <2>. QED BY <1>4, NestingAssumption
<1>. DEFINE g == [v \in JsonValues |-> f[v]]
<1>6. ASSUME NEW v \in JsonValues PROVE g[v] = SerializeThrowsBody(g, v)
  <2>1. \A u \in Inside(v) : f[u] = g[u]
    BY InsideIsJson
  <2>2. g[v] = SerializeThrowsBody(f, v)
    BY <1>5 DEF JsonValues
  <2>. HIDE DEF g
  <2>. QED BY <2>1, <2>2, SerializeThrowsIsLocal
<1>7. g = [v \in JsonValues |-> SerializeThrowsBody(g, v)]
  BY <1>6
<1>8. SerializeThrows = [v \in JsonValues |-> SerializeThrowsBody(SerializeThrows, v)]
  BY <1>7 DEF SerializeThrows, SerializeThrowsBody
<1>. QED BY <1>8

(* The same for OnTheWire.                                                 *)
OnTheWireBody(f, v) ==
  IF IsArray(v) THEN Array([i \in 1 .. Len(v[2]) |-> f[v[2][i]]])
  ELSE IF IsObject(v)
    THEN Object([k \in Names |-> [v[2][k] EXCEPT !.value =
           IF @ \in {Absent, Undefined} THEN Absent ELSE f[@]]])
  ELSE IF v \in {Undefined, Number("NaN")} THEN Null
  ELSE ScalarText(v)

(* What a value becomes on the wire depends on what it holds alone.        *)
LEMMA OnTheWireIsLocal ==
  ASSUME NEW f, NEW g, NEW v \in JsonValues, \A u \in Inside(v) : f[u] = g[u]
  PROVE  OnTheWireBody(f, v) = OnTheWireBody(g, v)
<1>1. CASE IsArray(v)
  <2>1. \A i \in 1 .. Len(v[2]) : f[v[2][i]] = g[v[2][i]]
    BY <1>1 DEF Inside
  <2>. QED BY <1>1, <2>1 DEF OnTheWireBody
<1>2. CASE IsObject(v) /\ ~IsArray(v)
  <2>1. \A k \in Names : v[2][k].value # Absent => f[v[2][k].value] = g[v[2][k].value]
    BY <1>2 DEF Inside, OwnNames
  <2>2. \A k \in Names :
          [v[2][k] EXCEPT !.value = IF @ \in {Absent, Undefined} THEN Absent ELSE f[@]]
        = [v[2][k] EXCEPT !.value = IF @ \in {Absent, Undefined} THEN Absent ELSE g[@]]
    BY <2>1
  <2>. QED BY <1>2, <2>2 DEF OnTheWireBody
<1>3. CASE ~IsArray(v) /\ ~IsObject(v)
  BY <1>3 DEF OnTheWireBody
<1>. QED BY <1>1, <1>2, <1>3

(* So OnTheWire satisfies its recursion.                                   *)
LEMMA OnTheWireEquation ==
  \A v \in JsonValues : OnTheWire[v] = OnTheWireBody(OnTheWire, v)
<1>. DEFINE Fits(n, f) == \A v \in Json[n] : f[v] = OnTheWireBody(f, v)
            P == {n \in 0 .. MaxNesting : \E f : Fits(n, f)}
<1>1. ASSUME NEW n \in 0 .. MaxNesting, NEW f,
             \A v \in Json[n] : \A u \in Inside(v) : f[u] = OnTheWireBody(f, u)
      PROVE  \E g : Fits(n, g)
  <2>. DEFINE g == [v \in JsonValues |-> OnTheWireBody(f, v)]
  <2>1. ASSUME NEW v \in Json[n] PROVE g[v] = OnTheWireBody(g, v)
    <3>1. v \in JsonValues /\ Inside(v) \subseteq JsonValues
      BY JsonGrows, InsideIsJson
    <3>2. \A u \in Inside(v) : f[u] = g[u]
      BY <1>1, <3>1
    <3>3. g[v] = OnTheWireBody(f, v)
      BY <3>1
    <3>. HIDE DEF g
    <3>. QED BY <3>1, <3>2, <3>3, OnTheWireIsLocal
  <2>2. Fits(n, g)
    BY <2>1
  <2>. HIDE DEF Fits, g
  <2>. QED BY <2>2
<1>2. 0 \in P
  <2>1. \A v \in Json[0] : \A u \in Inside(v) : <<>>[u] = OnTheWireBody(<<>>, u)
    BY InsideIsShallower
  <2>. QED BY <1>1, <2>1, NestingAssumption
<1>3. ASSUME NEW n \in 0 .. MaxNesting - 1, n \in P PROVE n + 1 \in P
  <2>1. n + 1 \in 0 .. MaxNesting
    BY NestingAssumption
  <2>2. PICK f : Fits(n, f)
    BY <1>3
  <2>. QED BY <1>1, <2>1, <2>2, InsideIsShallower
<1>4. 0 .. MaxNesting \subseteq P
  <2>. HIDE DEF P
  <2>. QED BY <1>2, <1>3, CountUp, NestingAssumption
<1>5. PICK f : Fits(MaxNesting, f)
  <2>. HIDE DEF Fits
  <2>. QED BY <1>4, NestingAssumption
<1>. DEFINE g == [v \in JsonValues |-> f[v]]
<1>6. ASSUME NEW v \in JsonValues PROVE g[v] = OnTheWireBody(g, v)
  <2>1. \A u \in Inside(v) : f[u] = g[u]
    BY InsideIsJson
  <2>2. g[v] = OnTheWireBody(f, v)
    BY <1>5 DEF JsonValues
  <2>. HIDE DEF g
  <2>. QED BY <2>1, <2>2, OnTheWireIsLocal
<1>7. g = [v \in JsonValues |-> OnTheWireBody(g, v)]
  BY <1>6
<1>8. OnTheWire = [v \in JsonValues |-> OnTheWireBody(OnTheWire, v)]
  BY <1>7 DEF OnTheWire, OnTheWireBody
<1>. QED BY <1>8

(* The same for Plain.                                                     *)
PlainBody(f, v) ==
  IF IsArray(v) THEN Array([i \in 1 .. Len(v[2]) |-> f[v[2][i]]])
  ELSE IF IsObject(v)
    THEN Object([k \in Names |-> [at |-> k, value |->
           IF k \in OwnNames(v[2]) THEN f[v[2][k].value] ELSE Absent]])
  ELSE ScalarText(v)

(* What a value is without its order depends on what it holds alone.       *)
LEMMA PlainIsLocal ==
  ASSUME NEW f, NEW g, NEW v \in JsonValues, \A u \in Inside(v) : f[u] = g[u]
  PROVE  PlainBody(f, v) = PlainBody(g, v)
<1>1. CASE IsArray(v)
  <2>1. \A i \in 1 .. Len(v[2]) : f[v[2][i]] = g[v[2][i]]
    BY <1>1 DEF Inside
  <2>. QED BY <1>1, <2>1 DEF PlainBody
<1>2. CASE IsObject(v) /\ ~IsArray(v)
  <2>1. \A k \in OwnNames(v[2]) : f[v[2][k].value] = g[v[2][k].value]
    BY <1>2 DEF Inside
  <2>. QED BY <1>2, <2>1 DEF PlainBody
<1>3. CASE ~IsArray(v) /\ ~IsObject(v)
  BY <1>3 DEF PlainBody
<1>. QED BY <1>1, <1>2, <1>3

(* So Plain satisfies its recursion.                                       *)
LEMMA PlainEquation ==
  \A v \in JsonValues : Plain[v] = PlainBody(Plain, v)
<1>. DEFINE Fits(n, f) == \A v \in Json[n] : f[v] = PlainBody(f, v)
            P == {n \in 0 .. MaxNesting : \E f : Fits(n, f)}
<1>1. ASSUME NEW n \in 0 .. MaxNesting, NEW f,
             \A v \in Json[n] : \A u \in Inside(v) : f[u] = PlainBody(f, u)
      PROVE  \E g : Fits(n, g)
  <2>. DEFINE g == [v \in JsonValues |-> PlainBody(f, v)]
  <2>1. ASSUME NEW v \in Json[n] PROVE g[v] = PlainBody(g, v)
    <3>1. v \in JsonValues /\ Inside(v) \subseteq JsonValues
      BY JsonGrows, InsideIsJson
    <3>2. \A u \in Inside(v) : f[u] = g[u]
      BY <1>1, <3>1
    <3>3. g[v] = PlainBody(f, v)
      BY <3>1
    <3>. HIDE DEF g
    <3>. QED BY <3>1, <3>2, <3>3, PlainIsLocal
  <2>2. Fits(n, g)
    BY <2>1
  <2>. HIDE DEF Fits, g
  <2>. QED BY <2>2
<1>2. 0 \in P
  <2>1. \A v \in Json[0] : \A u \in Inside(v) : <<>>[u] = PlainBody(<<>>, u)
    BY InsideIsShallower
  <2>. QED BY <1>1, <2>1, NestingAssumption
<1>3. ASSUME NEW n \in 0 .. MaxNesting - 1, n \in P PROVE n + 1 \in P
  <2>1. n + 1 \in 0 .. MaxNesting
    BY NestingAssumption
  <2>2. PICK f : Fits(n, f)
    BY <1>3
  <2>. QED BY <1>1, <2>1, <2>2, InsideIsShallower
<1>4. 0 .. MaxNesting \subseteq P
  <2>. HIDE DEF P
  <2>. QED BY <1>2, <1>3, CountUp, NestingAssumption
<1>5. PICK f : Fits(MaxNesting, f)
  <2>. HIDE DEF Fits
  <2>. QED BY <1>4, NestingAssumption
<1>. DEFINE g == [v \in JsonValues |-> f[v]]
<1>6. ASSUME NEW v \in JsonValues PROVE g[v] = PlainBody(g, v)
  <2>1. \A u \in Inside(v) : f[u] = g[u]
    BY InsideIsJson
  <2>2. g[v] = PlainBody(f, v)
    BY <1>5 DEF JsonValues
  <2>. HIDE DEF g
  <2>. QED BY <2>1, <2>2, PlainIsLocal
<1>7. g = [v \in JsonValues |-> PlainBody(g, v)]
  BY <1>6
<1>8. Plain = [v \in JsonValues |-> PlainBody(Plain, v)]
  BY <1>7 DEF Plain, PlainBody
<1>. QED BY <1>8

(* The names of an object sorted: each of them once, in their order.       *)
LEMMA Enumeration ==
  ASSUME NEW K \in SUBSET Names
  PROVE  \E s \in [1 .. Cardinality(K) -> K] : \A i, j \in DOMAIN s : i < j => s[i] < s[j]
<1>. DEFINE Sorts(S, s) == /\ s \in [1 .. Cardinality(S) -> S]
                           /\ \A i, j \in DOMAIN s : i < j => s[i] < s[j]
            P == {n \in Nat : \A S \in SUBSET Names :
                    Cardinality(S) = n => \E s \in [1 .. n -> S] : Sorts(S, s)}
<1>1. \A S \in SUBSET Names : IsFiniteSet(S) /\ Cardinality(S) \in Nat
  BY NamesAssumption, FS_Subset, FS_CardinalityType
<1>2. 0 \in P
  <2>1. ASSUME NEW S \in SUBSET Names, Cardinality(S) = 0
        PROVE  \E s \in [1 .. 0 -> S] : Sorts(S, s)
    <3>. DEFINE s == [i \in 1 .. 0 |-> 0]
    <3>1. s \in [1 .. 0 -> S] /\ Sorts(S, s)
      BY <2>1
    <3>. HIDE DEF Sorts, s
    <3>. QED BY <3>1
  <2>. QED BY <2>1
<1>3. ASSUME NEW n \in Nat, n \in P PROVE n + 1 \in P
  <2>1. ASSUME NEW S \in SUBSET Names, Cardinality(S) = n + 1
        PROVE  \E s \in [1 .. n + 1 -> S] : Sorts(S, s)
    <3>1. S # {} /\ S \in SUBSET Nat
      BY <2>1, FS_EmptySet, NamesAssumption
    <3>2. PICK m \in S : \A k \in S : m <= k
      BY <3>1, SmallestExists
    <3>. DEFINE T == S \ {m}
    <3>. HIDE DEF P, Sorts
    <3>3. T \in SUBSET Names /\ Cardinality(T) = n
      <4>1. IsFiniteSet(S) /\ Cardinality(S) = n + 1 /\ (n + 1) - 1 = n
        BY <1>1, <2>1
      <4>2. Cardinality(T) = Cardinality(S) - 1
        BY <4>1, <3>2, FS_RemoveElement
      <4>. QED BY <4>1, <4>2
    <3>4. PICK t \in [1 .. n -> T] : Sorts(T, t)
      <4>. HIDE DEF T
      <4>. QED BY <1>3, <3>3 DEF P
    <3>. DEFINE s == [i \in 1 .. n + 1 |-> IF i = 1 THEN m ELSE t[i - 1]]
    <3>5. \A i \in 1 .. n + 1 : i # 1 => i - 1 \in 1 .. n
      OBVIOUS
    <3>6. ASSUME NEW i \in 1 .. n PROVE t[i] \in S /\ m < t[i] /\ t[i] \in Nat
      <4>1. t[i] \in S /\ t[i] # m
        OBVIOUS
      <4>2. m \in Nat /\ t[i] \in Nat /\ m <= t[i]
        BY <3>1, <3>2, <4>1
      <4>. QED BY <4>1, <4>2
    <3>7. s \in [1 .. n + 1 -> S]
      BY <3>2, <3>5, <3>6
    <3>8. ASSUME NEW i \in DOMAIN s, NEW j \in DOMAIN s, i < j PROVE s[i] < s[j]
      <4>1. j # 1 /\ j - 1 \in 1 .. n /\ s[j] = t[j - 1]
        BY <3>8
      <4>2. CASE i = 1
        BY <4>1, <4>2, <3>6
      <4>3. CASE i # 1
        <5>1. i - 1 \in 1 .. n /\ s[i] = t[i - 1] /\ i - 1 < j - 1
          BY <3>8, <4>3
        <5>. QED BY <4>1, <5>1, <3>3, <3>4 DEF Sorts
      <4>. QED BY <4>2, <4>3
    <3>9. Sorts(S, s)
      BY <2>1, <3>7, <3>8 DEF Sorts
    <3>. QED BY <3>7, <3>9
  <2>. QED BY <2>1
<1>4. Cardinality(K) \in P
  <2>1. 0 .. Cardinality(K) \subseteq P
    <3>. HIDE DEF P
    <3>. QED BY <1>1, <1>2, <1>3, CountUp
  <2>. QED BY <1>1, <2>1
<1>. QED BY <1>4

(* The sorted names of an object are its names, each of them.              *)
LEMMA SortedNamesEnumerate ==
  ASSUME NEW members
  PROVE  /\ SortedNames(members) \in Seq(OwnNames(members))
         /\ OwnNames(members) = {SortedNames(members)[i] : i \in 1 .. Len(SortedNames(members))}
<1>. DEFINE K == OwnNames(members)
            s == SortedNames(members)
<1>1. K \in SUBSET Names
  BY DEF OwnNames
<1>2. IsFiniteSet(K) /\ Cardinality(K) \in Nat /\ K \subseteq Nat
  BY <1>1, NamesAssumption, FS_Subset, FS_CardinalityType
<1>3. s \in [1 .. Cardinality(K) -> K] /\ \A i, j \in DOMAIN s : i < j => s[i] < s[j]
  BY <1>1, Enumeration DEF SortedNames
<1>. HIDE DEF s, K
<1>4. s \in Injection(1 .. Cardinality(K), K)
  <2>1. ASSUME NEW i \in 1 .. Cardinality(K), NEW j \in 1 .. Cardinality(K), i # j
        PROVE  s[i] # s[j]
    <3>1. s[i] \in Nat /\ s[j] \in Nat
      BY <1>2, <1>3
    <3>. QED BY <1>2, <1>3, <2>1, <3>1
  <2>. QED BY <1>3, <2>1 DEF Injection, IsInjective
<1>5. s \in Surjection(1 .. Cardinality(K), K)
  <2>1. Cardinality(1 .. Cardinality(K)) = Cardinality(K)
    BY <1>2, FS_Interval
  <2>. QED BY <1>2, <1>4, <2>1, FS_Injection
<1>6. s \in Seq(K) /\ Len(s) = Cardinality(K)
  BY <1>2, <1>3
<1>7. K = {s[i] : i \in 1 .. Len(s)}
  BY <1>3, <1>5, <1>6 DEF Surjection
<1>. QED BY <1>6, <1>7 DEF s, K

(* The same for Serialize.                                                 *)
SerializeBody(f, v) ==
  IF IsArray(v)
    THEN Enclosed(LeftBracket, [i \in 1 .. Len(v[2]) |-> f[v[2][i]]], RightBracket)
  ELSE IF IsObject(v)
    THEN LET names == SortedNames(v[2]) IN
         Enclosed(LeftBrace, [i \in 1 .. Len(names) |->
           <<NameToken(names[i])>> \o f[v[2][names[i]].value]], RightBrace)
  ELSE <<ScalarText(v)>>

(* The text of a value depends on what it holds alone.                     *)
LEMMA SerializeIsLocal ==
  ASSUME NEW f, NEW g, NEW v \in JsonValues, \A u \in Inside(v) : f[u] = g[u]
  PROVE  SerializeBody(f, v) = SerializeBody(g, v)
<1>1. CASE IsArray(v)
  <2>1. \A i \in 1 .. Len(v[2]) : f[v[2][i]] = g[v[2][i]]
    BY <1>1 DEF Inside
  <2>. QED BY <1>1, <2>1 DEF SerializeBody
<1>2. CASE IsObject(v) /\ ~IsArray(v)
  <2>. DEFINE names == SortedNames(v[2])
  <2>1. v[2] \in Members(JsonValues)
    BY <1>2, JsonCases, TagsAreDistinct DEF Object
  <2>2. \A i \in 1 .. Len(names) : names[i] \in OwnNames(v[2])
    BY <2>1, SortedNamesEnumerate
  <2>. HIDE DEF names
  <2>3. \A i \in 1 .. Len(names) : f[v[2][names[i]].value] = g[v[2][names[i]].value]
    BY <1>2, <2>2 DEF Inside
  <2>4. [i \in 1 .. Len(names) |-> <<NameToken(names[i])>> \o f[v[2][names[i]].value]]
      = [i \in 1 .. Len(names) |-> <<NameToken(names[i])>> \o g[v[2][names[i]].value]]
    BY <2>3
  <2>. QED BY <1>2, <2>4 DEF SerializeBody, names
<1>3. CASE ~IsArray(v) /\ ~IsObject(v)
  BY <1>3 DEF SerializeBody
<1>. QED BY <1>1, <1>2, <1>3

(* So Serialize satisfies its recursion.                                   *)
LEMMA SerializeEquation ==
  \A v \in JsonValues : Serialize[v] = SerializeBody(Serialize, v)
<1>. DEFINE Fits(n, f) == \A v \in Json[n] : f[v] = SerializeBody(f, v)
            P == {n \in 0 .. MaxNesting : \E f : Fits(n, f)}
<1>1. ASSUME NEW n \in 0 .. MaxNesting, NEW f,
             \A v \in Json[n] : \A u \in Inside(v) : f[u] = SerializeBody(f, u)
      PROVE  \E g : Fits(n, g)
  <2>. DEFINE g == [v \in JsonValues |-> SerializeBody(f, v)]
  <2>1. ASSUME NEW v \in Json[n] PROVE g[v] = SerializeBody(g, v)
    <3>1. v \in JsonValues /\ Inside(v) \subseteq JsonValues
      BY JsonGrows, InsideIsJson
    <3>2. \A u \in Inside(v) : f[u] = g[u]
      BY <1>1, <3>1
    <3>3. g[v] = SerializeBody(f, v)
      BY <3>1
    <3>. HIDE DEF g
    <3>. QED BY <3>1, <3>2, <3>3, SerializeIsLocal
  <2>2. Fits(n, g)
    BY <2>1
  <2>. HIDE DEF Fits, g
  <2>. QED BY <2>2
<1>2. 0 \in P
  <2>1. \A v \in Json[0] : \A u \in Inside(v) : <<>>[u] = SerializeBody(<<>>, u)
    BY InsideIsShallower
  <2>. QED BY <1>1, <2>1, NestingAssumption
<1>3. ASSUME NEW n \in 0 .. MaxNesting - 1, n \in P PROVE n + 1 \in P
  <2>1. n + 1 \in 0 .. MaxNesting
    BY NestingAssumption
  <2>2. PICK f : Fits(n, f)
    BY <1>3
  <2>. QED BY <1>1, <2>1, <2>2, InsideIsShallower
<1>4. 0 .. MaxNesting \subseteq P
  <2>. HIDE DEF P
  <2>. QED BY <1>2, <1>3, CountUp, NestingAssumption
<1>5. PICK f : Fits(MaxNesting, f)
  <2>. HIDE DEF Fits
  <2>. QED BY <1>4, NestingAssumption
<1>. DEFINE g == [v \in JsonValues |-> f[v]]
<1>6. ASSUME NEW v \in JsonValues PROVE g[v] = SerializeBody(g, v)
  <2>1. \A u \in Inside(v) : f[u] = g[u]
    BY InsideIsJson
  <2>2. g[v] = SerializeBody(f, v)
    BY <1>5 DEF JsonValues
  <2>. HIDE DEF g
  <2>. QED BY <2>1, <2>2, SerializeIsLocal
<1>7. g = [v \in JsonValues |-> SerializeBody(g, v)]
  BY <1>6
<1>8. Serialize = [v \in JsonValues |-> SerializeBody(Serialize, v)]
  BY <1>7 DEF Serialize, SerializeBody
<1>. QED BY <1>8

-----------------------------------------------------------------------------
(* What the functions are on scalars, arrays and objects.                  *)
LEMMA OnScalars ==
  ASSUME NEW v \in Scalars
  PROVE  /\ v \in JsonValues /\ ScalarText(v) \in Scalars
         /\ (SerializeThrows[v] <=> v \in {Undefined, Number("NaN")})
         /\ OnTheWire[v] = IF v \in {Undefined, Number("NaN")} THEN Null ELSE ScalarText(v)
         /\ OnTheWire[v] \in Scalars
         /\ Plain[v] = ScalarText(v)
         /\ Serialize[v] = <<ScalarText(v)>>
<1>1. v \in JsonValues
  BY JsonEquation, JsonGrows, NestingAssumption
<1>2. ~IsArray(v) /\ ~IsObject(v)
  BY TagsAreDistinct
<1>3. ScalarText(v) \in Scalars /\ Null \in Scalars
  BY ScalarsAssumption DEF ScalarText
<1>4. (SerializeThrows[v] <=> v \in {Undefined, Number("NaN")})
  <2>1. SerializeThrows[v] = SerializeThrowsBody(SerializeThrows, v)
    BY <1>1, SerializeThrowsEquation
  <2>. QED BY <1>2, <2>1 DEF SerializeThrowsBody
<1>5. OnTheWire[v] = IF v \in {Undefined, Number("NaN")} THEN Null ELSE ScalarText(v)
  BY <1>1, <1>2, OnTheWireEquation DEF OnTheWireBody
<1>6. Plain[v] = ScalarText(v)
  BY <1>1, <1>2, PlainEquation DEF PlainBody
<1>7. Serialize[v] = <<ScalarText(v)>>
  BY <1>1, <1>2, SerializeEquation DEF SerializeBody
<1>. QED BY <1>1, <1>3, <1>4, <1>5, <1>6, <1>7

(* On arrays: item by item.                                                *)
LEMMA OnArrays ==
  ASSUME NEW items \in Seq(JsonValues), Array(items) \in JsonValues
  PROVE  /\ Inside(Array(items)) = {items[i] : i \in 1 .. Len(items)}
         /\ SerializeThrows[Array(items)] <=> \E i \in 1 .. Len(items) : SerializeThrows[items[i]]
         /\ OnTheWire[Array(items)] = Array([i \in 1 .. Len(items) |-> OnTheWire[items[i]]])
         /\ Plain[Array(items)] = Array([i \in 1 .. Len(items) |-> Plain[items[i]]])
         /\ Serialize[Array(items)] =
              Enclosed(LeftBracket, [i \in 1 .. Len(items) |-> Serialize[items[i]]], RightBracket)
<1>. DEFINE v == Array(items)
<1>1. IsArray(v) /\ ~IsObject(v) /\ v \notin Scalars
  BY TagsAreDistinct
<1>2. v[2] = items /\ DOMAIN items = 1 .. Len(items)
  BY DEF Array
<1>3. Undefined \in Scalars /\ v # Number("NaN")
  BY <1>1, ScalarsAssumption DEF Number, Array
<1>. HIDE DEF v
<1>4. v \in JsonValues
  BY DEF v
<1>5. Inside(v) = {items[i] : i \in 1 .. Len(items)}
  BY <1>1, <1>2 DEF Inside
<1>6. SerializeThrows[v] <=> \E i \in 1 .. Len(items) : SerializeThrows[items[i]]
  BY <1>1, <1>2, <1>3, <1>4, SerializeThrowsEquation DEF SerializeThrowsBody
<1>7. OnTheWire[v] = Array([i \in 1 .. Len(items) |-> OnTheWire[items[i]]])
  BY <1>1, <1>2, <1>4, OnTheWireEquation DEF OnTheWireBody
<1>8. Plain[v] = Array([i \in 1 .. Len(items) |-> Plain[items[i]]])
  BY <1>1, <1>2, <1>4, PlainEquation DEF PlainBody
<1>9. Serialize[v] =
        Enclosed(LeftBracket, [i \in 1 .. Len(items) |-> Serialize[items[i]]], RightBracket)
  BY <1>1, <1>2, <1>4, SerializeEquation DEF SerializeBody
<1>. QED BY <1>5, <1>6, <1>7, <1>8, <1>9 DEF v

(* The members an object has on the wire, and those that are told apart.   *)
WireMembers(members) ==
  [k \in Names |-> [members[k] EXCEPT !.value =
     IF @ \in {Absent, Undefined} THEN Absent ELSE OnTheWire[@]]]

PlainMembers(members) ==
  [k \in Names |-> [at |-> k, value |->
     IF k \in OwnNames(members) THEN Plain[members[k].value] ELSE Absent]]

MemberTexts(members) ==
  LET names == SortedNames(members) IN
  [i \in 1 .. Len(names) |-> <<NameToken(names[i])>> \o Serialize[members[names[i]].value]]

(* On objects: member by member.                                           *)
LEMMA OnObjects ==
  ASSUME NEW members \in Members(JsonValues), Object(members) \in JsonValues
  PROVE  /\ Inside(Object(members)) = {members[k].value : k \in OwnNames(members)}
         /\ SerializeThrows[Object(members)] <=>
              \E k \in OwnNames(members) : SerializeThrows[members[k].value]
         /\ OnTheWire[Object(members)] = Object(WireMembers(members))
         /\ Plain[Object(members)] = Object(PlainMembers(members))
         /\ Serialize[Object(members)] = Enclosed(LeftBrace, MemberTexts(members), RightBrace)
<1>. DEFINE v == Object(members)
<1>1. IsObject(v) /\ ~IsArray(v) /\ v \notin Scalars
  BY TagsAreDistinct
<1>2. v[2] = members
  BY DEF Object
<1>3. Undefined \in Scalars /\ v # Number("NaN")
  BY <1>1, ScalarsAssumption DEF Number, Object
<1>. HIDE DEF v
<1>4. v \in JsonValues
  BY DEF v
<1>5. Inside(v) = {members[k].value : k \in OwnNames(members)}
  BY <1>1, <1>2 DEF Inside
<1>6. SerializeThrows[v] <=> \E k \in OwnNames(members) : SerializeThrows[members[k].value]
  BY <1>1, <1>2, <1>3, <1>4, SerializeThrowsEquation DEF SerializeThrowsBody
<1>7. OnTheWire[v] = Object(WireMembers(members))
  BY <1>1, <1>2, <1>4, OnTheWireEquation DEF OnTheWireBody, WireMembers
<1>8. Plain[v] = Object(PlainMembers(members))
  BY <1>1, <1>2, <1>4, PlainEquation DEF PlainBody, PlainMembers
<1>9. Serialize[v] = Enclosed(LeftBrace, MemberTexts(members), RightBrace)
  BY <1>1, <1>2, <1>4, SerializeEquation DEF SerializeBody, MemberTexts
<1>. QED BY <1>5, <1>6, <1>7, <1>8, <1>9 DEF v

(* The transport and forgetting the order of members keep a value a value, *)
(* nested no deeper.                                                       *)
LEMMA WireAndPlainAreJson ==
  \A v \in JsonValues : OnTheWire[v] \in JsonValues /\ Plain[v] \in JsonValues
<1>. DEFINE P == {n \in 0 .. MaxNesting :
                    \A v \in Json[n] : OnTheWire[v] \in Json[n] /\ Plain[v] \in Json[n]}
<1>1. 0 \in P
  BY JsonEquation, OnScalars, NestingAssumption
<1>2. ASSUME NEW n \in 0 .. MaxNesting - 1, n \in P PROVE n + 1 \in P
  <2>. DEFINE V == Json[n]
  <2>1. n + 1 \in 0 .. MaxNesting /\ Json[n + 1] = Over(V) /\ V \subseteq JsonValues
    BY JsonEquation, JsonGrows, NestingAssumption
  <2>2. \A v \in V : OnTheWire[v] \in V /\ Plain[v] \in V
    BY <1>2
  <2>. HIDE DEF V
  <2>3. ASSUME NEW v \in Over(V)
        PROVE  v \in JsonValues /\ OnTheWire[v] \in Over(V) /\ Plain[v] \in Over(V)
    <3>1. v \in JsonValues
      BY <2>1, JsonGrows
    <3>2. CASE v \in Scalars
      BY <3>1, <3>2, OnScalars DEF Over
    <3>3. ASSUME NEW items \in Seq(V), v = Array(items)
          PROVE  OnTheWire[v] \in Over(V) /\ Plain[v] \in Over(V)
      <4>1. items \in Seq(JsonValues)
        BY <2>1, SeqMonotonic
      <4>2. \A i \in 1 .. Len(items) : items[i] \in V
        OBVIOUS
      <4>3. /\ [i \in 1 .. Len(items) |-> OnTheWire[items[i]]] \in Seq(V)
            /\ [i \in 1 .. Len(items) |-> Plain[items[i]]] \in Seq(V)
        BY <2>2, <4>2
      <4>4. /\ OnTheWire[v] = Array([i \in 1 .. Len(items) |-> OnTheWire[items[i]]])
            /\ Plain[v] = Array([i \in 1 .. Len(items) |-> Plain[items[i]]])
        BY <3>1, <3>3, <4>1, OnArrays
      <4>5. \A s \in Seq(V) : Array(s) \in Over(V)
        BY DEF Over, Array
      <4>. QED BY <4>3, <4>4, <4>5
    <3>4. ASSUME NEW members \in Members(V), v = Object(members)
          PROVE  OnTheWire[v] \in Over(V) /\ Plain[v] \in Over(V)
      <4>1. members \in Members(JsonValues)
        BY <2>1 DEF Members
      <4>2. \A k \in Names : members[k] \in [at : Nat, value : V \cup {Absent}]
        BY DEF Members
      <4>3. WireMembers(members) \in Members(V)
        BY <2>2, <4>2 DEF WireMembers, Members
      <4>4. PlainMembers(members) \in Members(V)
        BY <2>2, <4>2, NamesAssumption DEF PlainMembers, Members, OwnNames
      <4>5. /\ OnTheWire[v] = Object(WireMembers(members))
            /\ Plain[v] = Object(PlainMembers(members))
        BY <3>1, <3>4, <4>1, OnObjects
      <4>6. \A m \in Members(V) : Object(m) \in Over(V)
        BY DEF Over, Object
      <4>. QED BY <4>3, <4>4, <4>5, <4>6
    <3>. QED BY <3>1, <3>2, <3>3, <3>4, OverCases
  <2>. QED BY <2>1, <2>3 DEF V
<1>3. 0 .. MaxNesting \subseteq P
  <2>. HIDE DEF P
  <2>. QED BY <1>1, <1>2, CountUp, NestingAssumption
<1>. QED BY <1>3, NestingAssumption DEF JsonValues

-----------------------------------------------------------------------------
(* The transport leaves nothing that serialize throws on.                  *)
LEMMA WireNeverThrows ==
  ASSUME NEW v \in JsonValues
  PROVE  ~Throws(OnTheWire[v])
<1>. DEFINE P == {u \in JsonValues : ~SerializeThrows[OnTheWire[u]]}
<1>1. ASSUME NEW u \in JsonValues, Inside(u) \subseteq P PROVE u \in P
  <2>1. OnTheWire[u] \in JsonValues
    BY WireAndPlainAreJson
  <2>2. CASE u \in Scalars
    <3>1. OnTheWire[u] \in Scalars /\ OnTheWire[u] \notin {Undefined, Number("NaN")}
      BY <2>2, OnScalars DEF ScalarText, Number, Null, Undefined
    <3>. QED BY <3>1, OnScalars
  <2>3. ASSUME NEW items \in Seq(JsonValues), u = Array(items) PROVE u \in P
    <3>. DEFINE w == [i \in 1 .. Len(items) |-> OnTheWire[items[i]]]
    <3>1. Inside(u) = {items[i] : i \in 1 .. Len(items)} /\ OnTheWire[u] = Array(w)
      BY <2>3, OnArrays
    <3>2. OnTheWire[u] = Array(w) /\ \A i \in 1 .. Len(items) : items[i] \in P
      BY <1>1, <3>1
    <3>3. w \in Seq(JsonValues) /\ Len(w) = Len(items)
      BY WireAndPlainAreJson
    <3>4. \A i \in 1 .. Len(w) : ~SerializeThrows[w[i]]
      BY <3>2, <3>3
    <3>. HIDE DEF w
    <3>5. ~SerializeThrows[Array(w)]
      BY <2>1, <3>2, <3>3, <3>4, OnArrays
    <3>. QED BY <3>2, <3>5
  <2>4. ASSUME NEW members \in Members(JsonValues), u = Object(members) PROVE u \in P
    <3>. DEFINE w == WireMembers(members)
    <3>1. /\ Inside(u) = {members[k].value : k \in OwnNames(members)}
          /\ OnTheWire[u] = Object(w)
      BY <2>4, OnObjects
    <3>2. OnTheWire[u] = Object(w) /\ \A k \in OwnNames(members) : members[k].value \in P
      BY <1>1, <3>1
    <3>3. \A k \in Names : members[k] \in [at : Nat, value : JsonValues \cup {Absent}]
      BY DEF Members
    <3>4. \A k \in OwnNames(w) : /\ k \in OwnNames(members)
                                  /\ w[k].value = OnTheWire[members[k].value]
      BY <3>3 DEF OwnNames, WireMembers
    <3>5. w \in Members(JsonValues)
      BY <3>3, WireAndPlainAreJson DEF WireMembers, Members
    <3>. HIDE DEF w
    <3>6. \A k \in OwnNames(w) : ~SerializeThrows[w[k].value]
      BY <3>2, <3>4
    <3>7. ~SerializeThrows[Object(w)]
      BY <2>1, <3>2, <3>5, <3>6, OnObjects
    <3>. QED BY <3>2, <3>7
  <2>. QED BY <2>2, <2>3, <2>4, JsonCases
<1>2. JsonValues \subseteq P
  <2>. HIDE DEF P
  <2>. QED BY <1>1, JsonInduction
<1>. QED BY <1>2 DEF Throws

(* What serialize does not throw on, the transport does not change.        *)
LEMMA WireKeepsSigned ==
  ASSUME NEW v \in JsonValues, ~Throws(v)
  PROVE  SameJson(v, OnTheWire[v])
<1>. DEFINE P == {u \in JsonValues : ~SerializeThrows[u] => Plain[OnTheWire[u]] = Plain[u]}
<1>1. ASSUME NEW u \in JsonValues, Inside(u) \subseteq P, ~SerializeThrows[u]
      PROVE  Plain[OnTheWire[u]] = Plain[u]
  <2>1. OnTheWire[u] \in JsonValues
    BY WireAndPlainAreJson
  <2>2. CASE u \in Scalars
    <3>1. OnTheWire[u] = ScalarText(u) /\ ScalarText(u) \in Scalars
      BY <1>1, <2>2, OnScalars
    <3>2. ScalarText(ScalarText(u)) = ScalarText(u)
      BY DEF ScalarText, Number
    <3>. QED BY <2>2, <3>1, <3>2, OnScalars
  <2>3. ASSUME NEW items \in Seq(JsonValues), u = Array(items)
        PROVE  Plain[OnTheWire[u]] = Plain[u]
    <3>. DEFINE w == [i \in 1 .. Len(items) |-> OnTheWire[items[i]]]
    <3>1. Inside(u) = {items[i] : i \in 1 .. Len(items)} /\ OnTheWire[u] = Array(w)
      BY <2>3, OnArrays
    <3>2. OnTheWire[u] = Array(w) /\ \A i \in 1 .. Len(items) : items[i] \in P
      BY <1>1, <3>1
    <3>3. w \in Seq(JsonValues) /\ Len(w) = Len(items)
      BY WireAndPlainAreJson
    <3>4. \A i \in 1 .. Len(items) : Plain[w[i]] = Plain[items[i]]
      BY <1>1, <2>3, <3>2, OnArrays
    <3>. HIDE DEF w
    <3>5. [i \in 1 .. Len(w) |-> Plain[w[i]]] = [i \in 1 .. Len(items) |-> Plain[items[i]]]
      BY <3>3, <3>4
    <3>6. /\ Plain[Array(w)] = Array([i \in 1 .. Len(w) |-> Plain[w[i]]])
          /\ Plain[Array(items)] = Array([i \in 1 .. Len(items) |-> Plain[items[i]]])
      BY <2>1, <2>3, <3>2, <3>3, OnArrays
    <3>. QED BY <2>3, <3>2, <3>5, <3>6
  <2>4. ASSUME NEW members \in Members(JsonValues), u = Object(members)
        PROVE  Plain[OnTheWire[u]] = Plain[u]
    <3>. DEFINE w == WireMembers(members)
    <3>1. /\ Inside(u) = {members[k].value : k \in OwnNames(members)}
          /\ OnTheWire[u] = Object(w)
      BY <2>4, OnObjects
    <3>2. OnTheWire[u] = Object(w) /\ \A k \in OwnNames(members) : members[k].value \in P
      BY <1>1, <3>1
    <3>3. \A k \in Names : members[k] \in [at : Nat, value : JsonValues \cup {Absent}]
      BY DEF Members
    <3>4. \A k \in OwnNames(members) : ~SerializeThrows[members[k].value]
      BY <1>1, <2>4, OnObjects
    <3>5. \A k \in OwnNames(members) : members[k].value # Undefined
      BY <3>4, OnScalars, ScalarsAssumption
    <3>6. \A k \in OwnNames(members) : members[k].value \in JsonValues /\ k \in Names
      BY <3>3 DEF OwnNames
    <3>7. \A k \in OwnNames(members) : w[k].value = OnTheWire[members[k].value]
      BY <3>3, <3>5, <3>6 DEF OwnNames, WireMembers
    <3>8. OwnNames(w) = OwnNames(members)
      <4>1. \A k \in OwnNames(members) : w[k].value # Absent
        BY <3>6, <3>7, WireAndPlainAreJson, TagsAreDistinct
      <4>2. \A k \in Names \ OwnNames(members) : w[k].value = Absent
        BY <3>3 DEF OwnNames, WireMembers
      <4>. QED BY <4>1, <4>2 DEF OwnNames
    <3>9. w \in Members(JsonValues)
      BY <3>3, WireAndPlainAreJson DEF WireMembers, Members
    <3>10. \A k \in OwnNames(members) : Plain[w[k].value] = Plain[members[k].value]
      BY <3>2, <3>4, <3>7
    <3>. HIDE DEF w
    <3>11. PlainMembers(w) = PlainMembers(members)
      BY <3>8, <3>10 DEF PlainMembers
    <3>12. /\ Plain[Object(w)] = Object(PlainMembers(w))
           /\ Plain[Object(members)] = Object(PlainMembers(members))
      BY <2>1, <2>4, <3>2, <3>9, OnObjects
    <3>. QED BY <2>4, <3>2, <3>11, <3>12
  <2>. QED BY <2>2, <2>3, <2>4, JsonCases
<1>2. JsonValues \subseteq P
  <2>1. \A u \in JsonValues : Inside(u) \subseteq P => u \in P
    BY <1>1
  <2>. HIDE DEF P
  <2>. QED BY <2>1, JsonInduction
<1>. QED BY <1>2 DEF Throws, SameJson

-----------------------------------------------------------------------------
(* Texts.                                                                  *)
Texts == Seq(Tokens)

(* a ** b is a \o b: provers take it as they find it.                      *)
a ** b == a \o b

(* The marks, names, headers and scalars are tokens.                       *)
LEMMA TokensAreTokens ==
  /\ {LeftBracket, RightBracket, LeftBrace, RightBrace, Comma} \subseteq Tokens
  /\ \A k \in Names : NameToken(k) \in Tokens
  /\ \A h \in Headers : HeaderToken(h) \in Tokens
  /\ Scalars \subseteq Tokens
BY DEF Tokens

(* Texts join to a text.                                                   *)
LEMMA Joining ==
  \A a, b \in Texts : a ** b \in Texts
BY ConcatProperties DEF Texts, **

(* Joining is associative.                                                 *)
LEMMA Grouping ==
  \A a, b, c \in Texts : (a ** b) ** c = a ** (b ** c)
<1>. SUFFICES ASSUME NEW a \in Texts, NEW b \in Texts, NEW c \in Texts
              PROVE  (a ** b) ** c = a ** (b ** c)
  OBVIOUS
<1>. QED BY ConcatAssociative DEF Texts, **

(* What follows the same text is told by the whole.                        *)
LEMMA Cancelling ==
  \A a, b, c \in Texts : a ** b = a ** c => b = c
<1>1. \A a, b, c \in Seq(Tokens) : a \o b = a \o c => b = c
  BY ConcatSimplifications
<1>. QED BY Zenon, <1>1 DEF Texts, **

(* A text begins as its first part does, unless that is empty.             *)
LEMMA HeadOfText ==
  ASSUME NEW a \in Texts, NEW b \in Texts, a # <<>>
  PROVE  (a ** b)[1] = a[1] /\ a ** b # <<>>
<1>1. Len(a) \in Nat /\ Len(b) \in Nat /\ Len(a) # 0
  BY EmptySeq DEF Texts, **
<1>2. Len(a ** b) = Len(a) + Len(b) /\ (a ** b)[1] = a[1]
  BY <1>1, ConcatProperties DEF Texts, **
<1>. QED BY <1>1, <1>2

(* A token before a text makes a text that begins with it.                 *)
LEMMA HeadOfToken ==
  ASSUME NEW x \in Tokens, NEW b \in Texts
  PROVE  /\ <<x>> \in Texts /\ <<x>> # <<>> /\ <<x>>[1] = x
         /\ <<x>> ** b \in Texts /\ (<<x>> ** b)[1] = x
<1>1. <<x>> \in Texts /\ <<x>> # <<>> /\ <<x>>[1] = x
  BY DEF Texts, **
<1>2. <<x>> ** b \in Texts
  BY <1>1, ConcatProperties DEF Texts, **
<1>. QED BY <1>1, <1>2, HeadOfText

(* Texts that begin with a token each agree only if the tokens do, and     *)
(* then what follows does too.                                             *)
LEMMA TokenThenText ==
  ASSUME NEW x \in Tokens, NEW y \in Tokens, NEW a \in Texts, NEW b \in Texts,
         <<x>> ** a = <<y>> ** b
  PROVE  x = y /\ a = b
<1>1. x = y
  BY HeadOfToken
<1>2. <<x>> ** a = <<x>> ** b /\ <<x>> \in Texts
  BY <1>1, HeadOfToken
<1>3. a = b
  BY <1>2, Cancelling
<1>. QED BY <1>1, <1>3

(* What stands before the i-th part.                                       *)
Separator(i) == IF i = 1 THEN <<>> ELSE <<Comma>>

(* The text of the parts from the i-th on, up to the closing bracket.      *)
IsTail(parts, close, f) ==
  /\ f \in [1 .. Len(parts) + 1 -> Texts]
  /\ f[Len(parts) + 1] = <<close>>
  /\ \A i \in 1 .. Len(parts) : f[i] = Separator(i) ** parts[i] ** f[i + 1]

(* An enclosed text is its bracket and the tail from the first part on.    *)
LEMMA EnclosedIsText ==
  ASSUME NEW open \in {LeftBracket, LeftBrace}, NEW close \in {RightBracket, RightBrace},
         NEW parts \in Seq(Texts)
  PROVE  \E f : IsTail(parts, close, f) /\ Enclosed(open, parts, close) = <<open>> ** f[1]
<1>. DEFINE N == Len(parts)
            Body(f, i) == IF i > N THEN <<close>> ELSE Separator(i) ** parts[i] ** f[i + 1]
            Fits(n, f) == /\ f \in [N + 1 - n .. N + 1 -> Texts]
                          /\ \A i \in N + 1 - n .. N + 1 : f[i] = Body(f, i)
            P == {n \in 0 .. N : \E f : Fits(n, f)}
<1>1. N \in Nat /\ \A i \in 1 .. N : parts[i] \in Texts
  OBVIOUS
<1>2. /\ <<close>> \in Texts
      /\ \A i \in 1 .. N, t \in Texts : Separator(i) ** parts[i] ** t \in Texts
  <2>1. <<close>> \in Texts /\ <<Comma>> \in Texts /\ <<>> \in Texts
    BY TokensAreTokens DEF Texts, **
  <2>2. \A i : Separator(i) \in Texts
    BY <2>1 DEF Separator
  <2>. QED BY <1>1, <2>1, <2>2, ConcatProperties DEF Texts, **
<1>. HIDE DEF N
<1>3. 0 \in P
  <2>. DEFINE f == [i \in N + 1 .. N + 1 |-> <<close>>]
  <2>1. N + 1 - 0 = N + 1 /\ \A i \in N + 1 .. N + 1 : i = N + 1 /\ i > N
    BY <1>1
  <2>2. Fits(0, f)
    BY <1>1, <1>2, <2>1
  <2>. HIDE DEF Fits, f
  <2>. QED BY <1>1, <2>2
<1>4. ASSUME NEW n \in 0 .. N - 1, n \in P PROVE n + 1 \in P
  <2>1. PICK f : Fits(n, f)
    <3>. HIDE DEF Fits
    <3>. QED BY <1>4
  <2>. DEFINE k == N - n
              g == [i \in k .. N + 1 |->
                     IF i = k THEN Separator(k) ** parts[k] ** f[k + 1] ELSE f[i]]
  <2>2. k \in 1 .. N /\ N + 1 - n = k + 1 /\ N + 1 - (n + 1) = k /\ n + 1 \in 0 .. N
    BY <1>1
  <2>. HIDE DEF k
  <2>3. f \in [k + 1 .. N + 1 -> Texts] /\ \A i \in k + 1 .. N + 1 : f[i] = Body(f, i)
    BY <2>1, <2>2
  <2>4. \A i \in k + 1 .. N + 1 :
          g[i] = f[i] /\ (i <= N => i + 1 \in k + 1 .. N + 1 /\ g[i + 1] = f[i + 1])
    BY <1>1, <2>2
  <2>5. g[k] = Separator(k) ** parts[k] ** f[k + 1] /\ k + 1 \in k + 1 .. N + 1
    <3>1. k \in k .. N + 1 /\ k + 1 \in k + 1 .. N + 1
      BY <1>1, <2>2
    <3>2. g[k] = IF k = k THEN Separator(k) ** parts[k] ** f[k + 1] ELSE f[k]
      BY <3>1
    <3>. HIDE DEF g
    <3>. QED BY <3>1, <3>2
  <2>6. g \in [k .. N + 1 -> Texts]
    <3>1. \A i \in k .. N + 1 : g[i] \in Texts
      BY <1>1, <1>2, <2>2, <2>3, <2>4, <2>5
    <3>. QED BY <3>1
  <2>. HIDE DEF g
  <2>7. ASSUME NEW i \in k .. N + 1 PROVE g[i] = Body(g, i)
    <3>1. CASE i = k
      <4>1. g[k + 1] = f[k + 1] /\ ~(k > N)
        BY <1>1, <2>2, <2>4, <2>5
      <4>. QED BY <3>1, <4>1, <2>5
    <3>2. CASE i # k
      <4>1. i \in k + 1 .. N + 1
        BY <3>2, <1>1, <2>2
      <4>2. f[i] = Body(f, i)
        BY <4>1, <2>3
      <4>. QED BY <4>1, <4>2, <1>1, <2>2, <2>4
    <3>. QED BY <3>1, <3>2
  <2>8. Fits(n + 1, g)
    BY <2>2, <2>6, <2>7
  <2>. HIDE DEF Fits
  <2>. QED BY <2>2, <2>8
<1>5. 0 .. N \subseteq P
  <2>. HIDE DEF P
  <2>. QED BY <1>1, <1>3, <1>4, CountUp
<1>6. PICK f : Fits(N, f)
  <2>. HIDE DEF Fits
  <2>. QED BY <1>1, <1>5
<1>7. f = [i \in 1 .. N + 1 |-> Body(f, i)]
  <2>1. N + 1 - N = 1
    BY <1>1
  <2>. QED BY <1>6, <2>1
<1>. DEFINE From[i \in 1 .. Len(parts) + 1] ==
              IF i > Len(parts) THEN <<close>>
              ELSE (IF i = 1 THEN <<>> ELSE <<Comma>>) \o parts[i] \o From[i + 1]
<1>8. From = [i \in 1 .. N + 1 |-> Body(From, i)]
  BY <1>7 DEF N, Separator, **
<1>9. Enclosed(open, parts, close) = <<open>> ** From[1]
  BY DEF Enclosed, **
<1>. HIDE DEF From
<1>10. ASSUME NEW i \in 1 .. N + 1 PROVE f[i] = Body(f, i) /\ From[i] = Body(From, i)
  BY <1>7, <1>8
<1>. DEFINE Q == {n \in 0 .. N : f[N + 1 - n] = From[N + 1 - n]}
<1>11. 0 \in Q
  <2>1. N + 1 \in 1 .. N + 1 /\ N + 1 > N /\ N + 1 - 0 = N + 1 /\ 0 \in 0 .. N
    BY <1>1
  <2>. QED BY <1>10, <2>1
<1>12. ASSUME NEW n \in 0 .. N - 1, n \in Q PROVE n + 1 \in Q
  <2>. DEFINE k == N - n
  <2>1. k \in 1 .. N + 1 /\ ~(k > N) /\ N + 1 - n = k + 1 /\ N + 1 - (n + 1) = k /\ n + 1 \in 0 .. N
    BY <1>1
  <2>2. f[k + 1] = From[k + 1]
    BY <1>12, <2>1
  <2>. HIDE DEF k
  <2>3. f[k] = From[k]
    BY <1>10, <2>1, <2>2
  <2>. QED BY <2>1, <2>3
<1>13. 0 .. N \subseteq Q
  <2>. HIDE DEF Q
  <2>. QED BY <1>1, <1>11, <1>12, CountUp
<1>14. f[1] = From[1]
  <2>1. N \in 0 .. N /\ N + 1 - N = 1
    BY <1>1
  <2>. QED BY <1>13, <2>1
<1>15. IsTail(parts, close, f)
  <2>1. N + 1 - N = 1 /\ N + 1 \in 1 .. N + 1 /\ N + 1 > N
    BY <1>1
  <2>2. f \in [1 .. N + 1 -> Texts]
    BY <1>6, <2>1
  <2>3. f[N + 1] = <<close>>
    BY <1>10, <2>1
  <2>4. ASSUME NEW i \in 1 .. N PROVE f[i] = Separator(i) ** parts[i] ** f[i + 1]
    <3>1. i \in 1 .. N + 1 /\ ~(i > N)
      BY <1>1
    <3>. QED BY <1>10, <3>1
  <2>. QED BY <2>2, <2>3, <2>4 DEF IsTail, N
<1>. QED BY <1>9, <1>14, <1>15

(* Joining is associative, for four texts.                                 *)
LEMMA Regrouped ==
  ASSUME NEW a \in Texts, NEW b \in Texts, NEW c \in Texts, NEW d \in Texts
  PROVE  ((a ** b) ** c) ** d = a ** (b ** (c ** d))
BY Joining, Grouping

(* The same token before two texts makes no difference.                    *)
LEMMA AfterToken ==
  ASSUME NEW x \in Tokens, NEW a \in Texts, NEW b \in Texts, NEW s \in Texts, NEW t \in Texts,
         (<<x>> ** a) ** s = (<<x>> ** b) ** t
  PROVE  a ** s = b ** t
<1>1. <<x>> \in Texts
  BY HeadOfToken
<1>. QED BY <1>1, Joining, Grouping, Cancelling

(* Every part but the first follows a comma.                               *)
LEMMA PartBegins ==
  ASSUME NEW i, NEW x \in Texts, NEW y \in Texts, NEW c \in Tokens,
         x # <<>>, x[1] # c, Comma # c
  PROVE  (Separator(i) ** x) ** y # <<>> /\ ((Separator(i) ** x) ** y)[1] # c
<1>1. x ** y # <<>> /\ (x ** y)[1] # c /\ x ** y \in Texts
  BY HeadOfText, ConcatProperties DEF Texts, **
<1>2. CASE i = 1
  <2>1. <<>> ** x = x
    BY ConcatEmptySeq DEF Texts, **
  <2>. QED BY <1>1, <1>2, <2>1 DEF Separator
<1>3. CASE i # 1
  <2>1. Comma \in Tokens /\ <<Comma>> # <<>>
    BY TokensAreTokens
  <2>2. <<Comma>> ** x # <<>> /\ (<<Comma>> ** x)[1] = Comma /\ <<Comma>> ** x \in Texts
    BY <2>1, HeadOfToken, HeadOfText
  <2>3. (<<Comma>> ** x) ** y # <<>> /\ ((<<Comma>> ** x) ** y)[1] = Comma
    BY <2>2, HeadOfText
  <2>. QED BY <1>3, <2>3 DEF Separator
<1>. QED BY <1>2, <1>3

(* Each of the two can be the beginning of one and the same text.          *)
BeginTheSame(a, b) == \E s, t \in Texts : a ** s = b ** t

(* None of the parts is empty or begins with the token x.                  *)
NeverBegins(x, parts) == \A i \in 1 .. Len(parts) : parts[i] # <<>> /\ parts[i][1] # x

(* Parts that begin the same leave the same behind them.                   *)
ShowTheirEnd(p, q) ==
  \A i \in 1 .. Len(p) : i <= Len(q) =>
    \A s, t \in Texts : p[i] ** s = q[i] ** t => s = t

(* Two lists in brackets that are followed by something are the same text  *)
(* only if they are equally long, their parts pairwise begin the same text *)
(* and what follows is the same; provided that a part shows where it ends  *)
(* and none begins with the closing bracket.                               *)
LEMMA EnclosedIsUnambiguous ==
  ASSUME NEW open \in {LeftBracket, LeftBrace}, NEW close \in {RightBracket, RightBrace},
         NEW p \in Seq(Texts), NEW q \in Seq(Texts), NEW s \in Texts, NEW t \in Texts
  PROVE  /\ NeverBegins(close, p) /\ NeverBegins(close, q) /\ ShowTheirEnd(p, q)
         /\ Enclosed(open, p, close) ** s = Enclosed(open, q, close) ** t
         => /\ Len(p) = Len(q) /\ s = t
            /\ \A i \in 1 .. Len(p) : BeginTheSame(p[i], q[i])
<1>1. SUFFICES ASSUME NeverBegins(close, p), NeverBegins(close, q), ShowTheirEnd(p, q),
                      Enclosed(open, p, close) ** s = Enclosed(open, q, close) ** t
               PROVE  /\ Len(p) = Len(q) /\ s = t
                      /\ \A i \in 1 .. Len(p) : BeginTheSame(p[i], q[i])
  OBVIOUS
<1>2. PICK f : IsTail(p, close, f) /\ Enclosed(open, p, close) = <<open>> ** f[1]
  BY EnclosedIsText
<1>3. PICK g : IsTail(q, close, g) /\ Enclosed(open, q, close) = <<open>> ** g[1]
  BY EnclosedIsText
<1>. DEFINE M == Len(p)
            N == Len(q)
            Agree(n) == /\ f[n + 1] ** s = g[n + 1] ** t
                        /\ \A i \in 1 .. n : BeginTheSame(p[i], q[i])
            P == {n \in Nat : n <= M /\ n <= N => Agree(n)}
<1>4. /\ M \in Nat /\ N \in Nat
      /\ \A i \in 1 .. M : p[i] \in Texts
      /\ \A i \in 1 .. N : q[i] \in Texts
  BY ElementOfSeq, LenProperties
<1>5. /\ f \in [1 .. M + 1 -> Texts] /\ f[M + 1] = <<close>>
      /\ g \in [1 .. N + 1 -> Texts] /\ g[N + 1] = <<close>>
  BY <1>2, <1>3 DEF IsTail
<1>6. /\ \A i \in 1 .. M : f[i] = Separator(i) ** p[i] ** f[i + 1]
      /\ \A i \in 1 .. N : g[i] = Separator(i) ** q[i] ** g[i + 1]
  BY <1>2, <1>3 DEF IsTail
<1>7. /\ open \in Tokens /\ close \in Tokens /\ Comma \in Tokens /\ Comma # close
      /\ \A i : Separator(i) \in Texts
  <2>1. <<>> \in Texts /\ <<Comma>> \in Texts
    BY TokensAreTokens DEF Texts, **
  <2>. QED BY <2>1, TokensAreTokens DEF Separator, Comma, RightBracket, RightBrace
<1>. HIDE DEF M, N
<1>10. 0 \in P
  <2>1. f[1] \in Texts /\ g[1] \in Texts
    BY <1>4, <1>5
  <2>2. (<<open>> ** f[1]) ** s = (<<open>> ** g[1]) ** t
    BY Zenon, <1>1, <1>2, <1>3
  <2>3. f[1] ** s = g[1] ** t
    <3>. DEFINE x == f[1]
                y == g[1]
    <3>1. x \in Texts /\ y \in Texts /\ open \in Tokens
      BY <1>7, <2>1
    <3>2. (<<open>> ** x) ** s = (<<open>> ** y) ** t
      BY Zenon, <2>2
    <3>. HIDE DEF x, y
    <3>3. x ** s = y ** t
      BY <3>1, <3>2, AfterToken
    <3>. QED BY Zenon, <3>3 DEF x, y
  <2>4. Agree(0)
    <3>1. 0 + 1 = 1 /\ \A i \in 1 .. 0 : FALSE
      OBVIOUS
    <3>. QED BY Zenon, <2>3, <3>1
  <2>. HIDE DEF Agree
  <2>. QED BY <2>4
<1>11. ASSUME NEW n \in Nat, n \in P PROVE n + 1 \in P
  <2>. DEFINE k == n + 1
  <2>1. ASSUME k <= M, k <= N
        PROVE  Agree(k)
    <3>1. k \in 1 .. M /\ k \in 1 .. N /\ k <= N /\ n <= M /\ n <= N
          /\ k + 1 \in 1 .. M + 1 /\ k + 1 \in 1 .. N + 1
      BY <1>4, <2>1
    <3>2. f[k] ** s = g[k] ** t /\ \A i \in 1 .. n : BeginTheSame(p[i], q[i])
      <4>1. Agree(n)
        <5>. HIDE DEF Agree
        <5>. QED BY <1>11, <3>1
      <4>. QED BY Zenon, <4>1
    <3>. HIDE DEF k
    <3>. DEFINE a == f[k + 1] ** s
                b == g[k + 1] ** t
    <3>3. f[k + 1] \in Texts /\ g[k + 1] \in Texts /\ p[k] \in Texts /\ q[k] \in Texts
          /\ Separator(k) \in Texts
      BY <1>4, <1>5, <1>7, <3>1
    <3>4. f[k] ** s = Separator(k) ** (p[k] ** a)
      <4>1. f[k] = (Separator(k) ** p[k]) ** f[k + 1]
        BY Zenon, <1>6, <3>1
      <4>2. ((Separator(k) ** p[k]) ** f[k + 1]) ** s = Separator(k) ** (p[k] ** a)
        <5>. DEFINE x == Separator(k)
                    y == p[k]
                    z == f[k + 1]
        <5>1. x \in Texts /\ y \in Texts /\ z \in Texts
          BY <3>3
        <5>. HIDE DEF x, y, z
        <5>2. ((x ** y) ** z) ** s = x ** (y ** (z ** s))
          BY <5>1, Regrouped
        <5>. QED BY Zenon, <5>2 DEF x, y, z
      <4>. QED BY Zenon, <4>1, <4>2
    <3>5. g[k] ** t = Separator(k) ** (q[k] ** b)
      <4>1. g[k] = (Separator(k) ** q[k]) ** g[k + 1]
        BY Zenon, <1>6, <3>1
      <4>2. ((Separator(k) ** q[k]) ** g[k + 1]) ** t = Separator(k) ** (q[k] ** b)
        <5>. DEFINE x == Separator(k)
                    y == q[k]
                    z == g[k + 1]
        <5>1. x \in Texts /\ y \in Texts /\ z \in Texts
          BY <3>3
        <5>. HIDE DEF x, y, z
        <5>2. ((x ** y) ** z) ** t = x ** (y ** (z ** t))
          BY <5>1, Regrouped
        <5>. QED BY Zenon, <5>2 DEF x, y, z
      <4>. QED BY Zenon, <4>1, <4>2
    <3>10. a \in Texts /\ b \in Texts
      BY <3>3, Joining
    <3>. HIDE DEF a, b
    <3>11. p[k] ** a \in Texts /\ q[k] ** b \in Texts
      BY <3>3, <3>10, Joining
    <3>12. Separator(k) ** (p[k] ** a) = Separator(k) ** (q[k] ** b)
      BY Zenon, <3>2, <3>4, <3>5
    <3>6. p[k] ** a = q[k] ** b
      BY Zenon, Cancelling, <3>3, <3>11, <3>12
    <3>7. a = b
      <4>1. \A x, y \in Texts : p[k] ** x = q[k] ** y => x = y
        BY <1>1, <3>1 DEF M, N, ShowTheirEnd
      <4>. QED BY Zenon, <4>1, <3>6, <3>10
    <3>8. BeginTheSame(p[k], q[k])
      BY <3>6, <3>10 DEF BeginTheSame
    <3>9. \A i \in 1 .. k : i \in 1 .. n \/ i = k
      BY DEF k
    <3>. QED BY <3>2, <3>7, <3>8, <3>9 DEF a, b
  <2>. HIDE DEF Agree
  <2>. QED BY <2>1
<1>12. Nat \subseteq P
  <2>1. ASSUME NEW n \in Nat PROVE n \in P
    <3>. HIDE DEF P
    <3>1. 0 .. n \subseteq P
      BY <1>10, <1>11, CountUp
    <3>. QED BY <3>1
  <2>. QED BY <2>1
(* The text after the shorter list goes on in the longer one.              *)
<1>13. ~(M < N)
  <2>. SUFFICES ASSUME M < N PROVE FALSE
    OBVIOUS
  <2>1. f[M + 1] ** s = g[M + 1] ** t
    <3>1. M <= M /\ M <= N
      BY <1>4
    <3>2. Agree(M)
      <4>. HIDE DEF Agree
      <4>. QED BY <1>4, <1>12, <3>1
    <3>. QED BY Zenon, <3>2
  <2>2. M + 1 \in 1 .. N /\ M + 2 \in 1 .. N + 1
    BY <1>4
  <2>3. g[M + 1] = Separator(M + 1) ** q[M + 1] ** g[M + 2] /\ g[M + 2] \in Texts
    <3>1. (M + 1) + 1 = M + 2
      BY <1>4
    <3>2. g[M + 1] = Separator(M + 1) ** q[M + 1] ** g[(M + 1) + 1]
      BY Zenon, <1>6, <2>2
    <3>. QED BY <1>5, <2>2, <3>1, <3>2
  <2>4. g[M + 1] # <<>> /\ g[M + 1][1] # close
    <3>1. q[M + 1] \in Texts /\ q[M + 1] # <<>> /\ q[M + 1][1] # close
      BY <1>1, <1>4, <2>2 DEF N, NeverBegins
    <3>. DEFINE x == q[M + 1]
                y == g[M + 2]
                i == M + 1
    <3>2. x \in Texts /\ x # <<>> /\ x[1] # close /\ y \in Texts /\ close \in Tokens /\ Comma # close
      BY <1>7, <2>3, <3>1
    <3>. HIDE DEF x, y, i
    <3>3. (Separator(i) ** x) ** y # <<>> /\ ((Separator(i) ** x) ** y)[1] # close
      BY <3>2, PartBegins
    <3>. QED BY Zenon, <2>3, <3>3 DEF x, y, i
  <2>5. (f[M + 1] ** s)[1] = close
    BY <1>5, <1>7, HeadOfToken
  <2>6. (g[M + 1] ** t)[1] # close
    <3>1. g[M + 1] \in Texts
      BY <1>4, <1>5, <2>2
    <3>. QED BY <2>4, <3>1, HeadOfText
  <2>. QED BY Zenon, <2>1, <2>5, <2>6
<1>14. ~(N < M)
  <2>. SUFFICES ASSUME N < M PROVE FALSE
    OBVIOUS
  <2>1. f[N + 1] ** s = g[N + 1] ** t
    <3>1. N <= N /\ N <= M
      BY <1>4
    <3>2. Agree(N)
      <4>. HIDE DEF Agree
      <4>. QED BY <1>4, <1>12, <3>1
    <3>. QED BY Zenon, <3>2
  <2>2. N + 1 \in 1 .. M /\ N + 2 \in 1 .. M + 1
    BY <1>4
  <2>3. f[N + 1] = Separator(N + 1) ** p[N + 1] ** f[N + 2] /\ f[N + 2] \in Texts
    <3>1. (N + 1) + 1 = N + 2
      BY <1>4
    <3>2. f[N + 1] = Separator(N + 1) ** p[N + 1] ** f[(N + 1) + 1]
      BY Zenon, <1>6, <2>2
    <3>. QED BY <1>5, <2>2, <3>1, <3>2
  <2>4. f[N + 1] # <<>> /\ f[N + 1][1] # close
    <3>1. p[N + 1] \in Texts /\ p[N + 1] # <<>> /\ p[N + 1][1] # close
      BY <1>1, <1>4, <2>2 DEF M, NeverBegins
    <3>. DEFINE x == p[N + 1]
                y == f[N + 2]
                i == N + 1
    <3>2. x \in Texts /\ x # <<>> /\ x[1] # close /\ y \in Texts /\ close \in Tokens /\ Comma # close
      BY <1>7, <2>3, <3>1
    <3>. HIDE DEF x, y, i
    <3>3. (Separator(i) ** x) ** y # <<>> /\ ((Separator(i) ** x) ** y)[1] # close
      BY <3>2, PartBegins
    <3>. QED BY Zenon, <2>3, <3>3 DEF x, y, i
  <2>5. (g[N + 1] ** t)[1] = close
    BY <1>5, <1>7, HeadOfToken
  <2>6. (f[N + 1] ** s)[1] # close
    <3>1. f[N + 1] \in Texts
      BY <1>4, <1>5, <2>2
    <3>. QED BY <2>4, <3>1, HeadOfText
  <2>. QED BY Zenon, <2>1, <2>5, <2>6
<1>15. M = N
  BY <1>4, <1>13, <1>14
<1>16. f[M + 1] ** s = g[N + 1] ** t /\ \A i \in 1 .. M : BeginTheSame(p[i], q[i])
  <2>1. M <= M /\ M <= N
    BY <1>4, <1>15
  <2>2. Agree(M)
    <3>. HIDE DEF Agree
    <3>. QED BY <1>4, <1>12, <2>1
  <2>. QED BY Zenon, <1>15, <2>2
<1>17. s = t
  BY <1>5, <1>7, <1>15, <1>16, TokenThenText
<1>. QED BY <1>15, <1>16, <1>17 DEF M, N

-----------------------------------------------------------------------------
(* The text of a value.                                                    *)
ArrayTexts(items) == [i \in 1 .. Len(items) |-> Serialize[items[i]]]

(* Marks, scalars and names are not taken for each other.                  *)
LEMMA PunctuationIsNoScalar ==
  /\ LeftBracket \notin Scalars /\ LeftBrace \notin Scalars /\ LeftBracket # LeftBrace
  /\ RightBracket \notin Scalars \cup {LeftBracket, LeftBrace}
  /\ \A k : NameToken(k) # RightBrace
  /\ \A k, j : NameToken(k) = NameToken(j) => k = j
  /\ \A h, j : HeaderToken(h) = HeaderToken(j) => h = j
BY ScalarsAssumption DEF LeftBracket, LeftBrace, RightBracket, RightBrace, NameToken, HeaderToken

(* An enclosed text is a text, and begins with its bracket.                *)
LEMMA EnclosedBegins ==
  ASSUME NEW open \in {LeftBracket, LeftBrace}, NEW close \in {RightBracket, RightBrace},
         NEW parts \in Seq(Texts)
  PROVE  /\ Enclosed(open, parts, close) \in Texts
         /\ Enclosed(open, parts, close) # <<>>
         /\ Enclosed(open, parts, close)[1] = open
<1>1. PICK f : IsTail(parts, close, f) /\ Enclosed(open, parts, close) = <<open>> ** f[1]
  BY EnclosedIsText
<1>2. f[1] \in Texts /\ open \in Tokens
  <2>1. Len(parts) \in Nat /\ f \in [1 .. Len(parts) + 1 -> Texts]
    BY <1>1, LenProperties DEF IsTail
  <2>. QED BY <2>1, TokensAreTokens
<1>3. <<open>> \in Texts /\ <<open>> # <<>>
  BY <1>2, HeadOfToken
<1>. QED BY <1>1, <1>2, <1>3, HeadOfToken, HeadOfText

(* The parts of an object's text, one for each member.                     *)
LEMMA MemberTextsAre ==
  ASSUME NEW members
  PROVE  LET names == SortedNames(members) IN
         /\ MemberTexts(members) = [i \in 1 .. Len(names) |->
              <<NameToken(names[i])>> ** Serialize[members[names[i]].value]]
         /\ Len(names) \in Nat
         /\ \A i \in 1 .. Len(names) : names[i] \in OwnNames(members) /\ names[i] \in Names
         /\ OwnNames(members) = {names[i] : i \in 1 .. Len(names)}
<1>. DEFINE names == SortedNames(members)
<1>1. names \in Seq(OwnNames(members)) /\ OwnNames(members) = {names[i] : i \in 1 .. Len(names)}
  BY SortedNamesEnumerate
<1>2. MemberTexts(members) = [i \in 1 .. Len(names) |->
        <<NameToken(names[i])>> ** Serialize[members[names[i]].value]]
  BY DEF MemberTexts, **
<1>. HIDE DEF names
<1>3. Len(names) \in Nat /\ \A i \in 1 .. Len(names) : names[i] \in OwnNames(members)
  BY <1>1
<1>4. OwnNames(members) \subseteq Names
  BY DEF OwnNames
<1>. QED BY <1>1, <1>2, <1>3, <1>4 DEF names

(* Every value has a text; it begins with the scalar, or with the bracket  *)
(* of an array or an object.                                               *)
LEMMA SerializeIsText ==
  ASSUME NEW v \in JsonValues
  PROVE  /\ Serialize[v] \in Texts /\ Serialize[v] # <<>>
         /\ v \in Scalars => Serialize[v][1] = ScalarText(v)
         /\ IsArray(v) => Serialize[v][1] = LeftBracket
         /\ IsObject(v) => Serialize[v][1] = LeftBrace
<1>. DEFINE Good(u) == /\ Serialize[u] \in Texts /\ Serialize[u] # <<>>
                       /\ u \in Scalars => Serialize[u][1] = ScalarText(u)
                       /\ IsArray(u) => Serialize[u][1] = LeftBracket
                       /\ IsObject(u) => Serialize[u][1] = LeftBrace
            P == {u \in JsonValues : Good(u)}
<1>1. ASSUME NEW u \in JsonValues, Inside(u) \subseteq P PROVE Good(u)
  <2>1. CASE u \in Scalars
    <3>1. Serialize[u] = <<ScalarText(u)>> /\ ScalarText(u) \in Tokens
      BY <2>1, OnScalars, TokensAreTokens
    <3>2. Serialize[u] \in Texts /\ Serialize[u] # <<>> /\ Serialize[u][1] = ScalarText(u)
      <4>1. <<>> \in Texts
        BY DEF Texts
      <4>. QED BY <3>1, <4>1, HeadOfToken
    <3>. QED BY <2>1, <3>2, TagsAreDistinct
  <2>2. ASSUME NEW items \in Seq(JsonValues), u = Array(items) PROVE Good(u)
    <3>1. Serialize[u] = Enclosed(LeftBracket, ArrayTexts(items), RightBracket)
      BY <2>2, OnArrays DEF ArrayTexts
    <3>2. Inside(u) = {items[i] : i \in 1 .. Len(items)}
      BY <2>2, OnArrays
    <3>3. \A i \in 1 .. Len(items) : Serialize[items[i]] \in Texts
      BY <1>1, <3>2
    <3>4. ArrayTexts(items) \in Seq(Texts)
      BY <3>3 DEF ArrayTexts
    <3>. QED BY <2>2, <3>1, <3>4, EnclosedBegins, TagsAreDistinct
  <2>3. ASSUME NEW members \in Members(JsonValues), u = Object(members) PROVE Good(u)
    <3>1. Serialize[u] = Enclosed(LeftBrace, MemberTexts(members), RightBrace)
      BY <2>3, OnObjects
    <3>2. Inside(u) = {members[k].value : k \in OwnNames(members)}
      BY <2>3, OnObjects
    <3>3. \A k \in OwnNames(members) : Serialize[members[k].value] \in Texts
      BY <1>1, <3>2
    <3>4. MemberTexts(members) \in Seq(Texts)
      <4>. DEFINE names == SortedNames(members)
      <4>1. /\ MemberTexts(members) = [i \in 1 .. Len(names) |->
                 <<NameToken(names[i])>> ** Serialize[members[names[i]].value]]
            /\ Len(names) \in Nat
            /\ \A i \in 1 .. Len(names) : names[i] \in OwnNames(members) /\ names[i] \in Names
        BY MemberTextsAre
      <4>. HIDE DEF names
      <4>2. ASSUME NEW i \in 1 .. Len(names)
            PROVE  <<NameToken(names[i])>> ** Serialize[members[names[i]].value] \in Texts
        BY <3>3, <4>1, HeadOfToken, TokensAreTokens
      <4>. QED BY <4>1, <4>2
    <3>. QED BY <2>3, <3>1, <3>4, EnclosedBegins, TagsAreDistinct
  <2>. QED BY <2>1, <2>2, <2>3, JsonCases
<1>2. JsonValues \subseteq P
  <2>1. \A u \in JsonValues : Inside(u) \subseteq P => u \in P
    BY <1>1
  <2>. HIDE DEF P
  <2>. QED BY <2>1, JsonInduction
<1>. QED BY <1>2

(* The parts of an array or of an object are texts.                        *)
LEMMA TextsOfParts ==
  /\ \A items \in Seq(JsonValues) : ArrayTexts(items) \in Seq(Texts)
  /\ \A members \in Members(JsonValues) : MemberTexts(members) \in Seq(Texts)
<1>1. ASSUME NEW items \in Seq(JsonValues) PROVE ArrayTexts(items) \in Seq(Texts)
  <2>1. \A i \in 1 .. Len(items) : Serialize[items[i]] \in Texts
    BY SerializeIsText
  <2>. QED BY <2>1 DEF ArrayTexts
<1>2. ASSUME NEW members \in Members(JsonValues) PROVE MemberTexts(members) \in Seq(Texts)
  <2>. DEFINE names == SortedNames(members)
  <2>1. /\ MemberTexts(members) = [i \in 1 .. Len(names) |->
             <<NameToken(names[i])>> ** Serialize[members[names[i]].value]]
        /\ Len(names) \in Nat
        /\ \A i \in 1 .. Len(names) : names[i] \in OwnNames(members) /\ names[i] \in Names
    BY MemberTextsAre
  <2>. HIDE DEF names
  <2>2. \A k \in OwnNames(members) : members[k].value \in JsonValues
    BY DEF OwnNames, Members
  <2>3. ASSUME NEW i \in 1 .. Len(names)
        PROVE  <<NameToken(names[i])>> ** Serialize[members[names[i]].value] \in Texts
    BY <2>1, <2>2, HeadOfToken, TokensAreTokens, SerializeIsText
  <2>. QED BY <2>1, <2>3
<1>. QED BY <1>1, <1>2

-----------------------------------------------------------------------------
(* Same value, same text.                                                  *)
LEMMA PlainKind ==
  ASSUME NEW v \in JsonValues
  PROVE  /\ v \in Scalars <=> Plain[v] \in Scalars
         /\ IsArray(v) <=> IsArray(Plain[v])
         /\ IsObject(v) <=> IsObject(Plain[v])
<1>1. CASE v \in Scalars
  BY <1>1, OnScalars, TagsAreDistinct
<1>2. ASSUME NEW items \in Seq(JsonValues), v = Array(items)
      PROVE  Plain[v] \notin Scalars /\ IsArray(Plain[v]) /\ ~IsObject(Plain[v])
  <2>1. Plain[v] = Array([i \in 1 .. Len(items) |-> Plain[items[i]]])
    BY <1>2, OnArrays
  <2>. QED BY <2>1, TagsAreDistinct
<1>3. ASSUME NEW members \in Members(JsonValues), v = Object(members)
      PROVE  Plain[v] \notin Scalars /\ ~IsArray(Plain[v]) /\ IsObject(Plain[v])
  BY <1>3, OnObjects, TagsAreDistinct
<1>. QED BY <1>1, <1>2, <1>3, JsonCases, TagsAreDistinct

(* A value is a scalar, an array or an object.                             *)
LEMMA Kinds ==
  ASSUME NEW v \in JsonValues
  PROVE  /\ v \in Scalars \/ IsArray(v) \/ IsObject(v)
         /\ IsArray(v) => \E items \in Seq(JsonValues) : v = Array(items)
         /\ IsObject(v) => \E members \in Members(JsonValues) : v = Object(members)
BY JsonCases, TagsAreDistinct

(* Items are the same pairwise when the arrays are.                        *)
LEMMA SameItems ==
  ASSUME NEW a \in Seq(JsonValues), NEW b \in Seq(JsonValues),
         Array(a) \in JsonValues, Array(b) \in JsonValues
  PROVE  Plain[Array(a)] = Plain[Array(b)] <=>
           Len(a) = Len(b) /\ \A i \in 1 .. Len(a) : Plain[a[i]] = Plain[b[i]]
<1>. DEFINE P(items) == [i \in 1 .. Len(items) |-> Plain[items[i]]]
<1>1. Plain[Array(a)] = Array(P(a)) /\ Plain[Array(b)] = Array(P(b))
  BY OnArrays
<1>2. Array(P(a)) = Array(P(b)) <=> P(a) = P(b)
  BY DEF Array
<1>3. Len(a) \in Nat /\ Len(b) \in Nat
  OBVIOUS
<1>4. P(a) = P(b) => Len(a) = Len(b)
  <2>1. Len(P(a)) = Len(a) /\ Len(P(b)) = Len(b)
    BY <1>3
  <2>. QED BY <2>1
<1>5. P(a) = P(b) => \A i \in 1 .. Len(a) : Plain[a[i]] = Plain[b[i]]
  <2>1. ASSUME P(a) = P(b), NEW i \in 1 .. Len(a) PROVE Plain[a[i]] = Plain[b[i]]
    <3>1. P(a)[i] = P(b)[i] /\ i \in 1 .. Len(b)
      BY <1>4, <2>1
    <3>. QED BY <3>1
  <2>. QED BY <2>1
<1>6. Len(a) = Len(b) /\ (\A i \in 1 .. Len(a) : Plain[a[i]] = Plain[b[i]]) => P(a) = P(b)
  OBVIOUS
<1>. QED BY <1>1, <1>2, <1>4, <1>5, <1>6

(* Members are the same, name by name, when the objects are.               *)
LEMMA SameMembers ==
  ASSUME NEW m \in Members(JsonValues), NEW n \in Members(JsonValues),
         Object(m) \in JsonValues, Object(n) \in JsonValues
  PROVE  Plain[Object(m)] = Plain[Object(n)] <=>
           /\ OwnNames(m) = OwnNames(n)
           /\ \A k \in OwnNames(m) : Plain[m[k].value] = Plain[n[k].value]
<1>1. Plain[Object(m)] = Object(PlainMembers(m)) /\ Plain[Object(n)] = Object(PlainMembers(n))
  BY OnObjects
<1>2. Object(PlainMembers(m)) = Object(PlainMembers(n)) <=> PlainMembers(m) = PlainMembers(n)
  BY DEF Object
<1>3. /\ \A k \in OwnNames(m) : m[k].value \in JsonValues /\ k \in Names
      /\ \A k \in OwnNames(n) : n[k].value \in JsonValues /\ k \in Names
  BY DEF OwnNames, Members
<1>4. /\ \A k \in OwnNames(m) : /\ PlainMembers(m)[k].value = Plain[m[k].value]
                               /\ PlainMembers(m)[k].value # Absent
      /\ \A k \in OwnNames(n) : /\ PlainMembers(n)[k].value = Plain[n[k].value]
                               /\ PlainMembers(n)[k].value # Absent
  BY <1>3, WireAndPlainAreJson, TagsAreDistinct DEF PlainMembers
<1>5. /\ \A k \in Names \ OwnNames(m) : PlainMembers(m)[k].value = Absent
      /\ \A k \in Names \ OwnNames(n) : PlainMembers(n)[k].value = Absent
  BY DEF PlainMembers
<1>6. ASSUME PlainMembers(m) = PlainMembers(n)
      PROVE  /\ OwnNames(m) = OwnNames(n)
             /\ \A k \in OwnNames(m) : Plain[m[k].value] = Plain[n[k].value]
  BY <1>3, <1>4, <1>5, <1>6
<1>7. ASSUME OwnNames(m) = OwnNames(n), \A k \in OwnNames(m) : Plain[m[k].value] = Plain[n[k].value]
      PROVE  PlainMembers(m) = PlainMembers(n)
  BY <1>7 DEF PlainMembers
<1>. QED BY <1>1, <1>2, <1>6, <1>7

(* Values that are the same but for the order of their members have one    *)
(* text: "any verifier regardless of key insertion order".                 *)
THEOREM SameValueSameText ==
  ASSUME NEW v \in JsonValues, NEW w \in JsonValues, SameJson(v, w)
  PROVE  CanonicalJson(v) = CanonicalJson(w)
<1>. DEFINE P == {u \in JsonValues :
                    \A x \in JsonValues : Plain[u] = Plain[x] => Serialize[u] = Serialize[x]}
<1>1. ASSUME NEW u \in JsonValues, Inside(u) \subseteq P, NEW x \in JsonValues, Plain[u] = Plain[x]
      PROVE  Serialize[u] = Serialize[x]
  <2>1. CASE u \in Scalars
    <3>1. x \in Scalars
      BY <1>1, <2>1, PlainKind
    <3>. QED BY <1>1, <2>1, <3>1, OnScalars
  <2>2. CASE IsArray(u)
    <3>1. PICK a \in Seq(JsonValues) : u = Array(a)
      BY <2>2, Kinds
    <3>2. PICK b \in Seq(JsonValues) : x = Array(b)
      BY <1>1, <2>2, PlainKind, Kinds
    <3>3. Len(a) = Len(b) /\ \A i \in 1 .. Len(a) : Plain[a[i]] = Plain[b[i]]
      BY <1>1, <3>1, <3>2, SameItems
    <3>4. \A i \in 1 .. Len(a) : a[i] \in P
      <4>1. Inside(u) = {a[i] : i \in 1 .. Len(a)}
        BY <3>1, OnArrays
      <4>. QED BY <1>1, <4>1
    <3>5. ASSUME NEW i \in 1 .. Len(a) PROVE Serialize[a[i]] = Serialize[b[i]]
      <4>1. b[i] \in JsonValues
        BY <3>3, ElementOfSeq
      <4>. QED BY <3>3, <3>4, <4>1
    <3>. HIDE DEF P
    <3>6. ArrayTexts(a) = ArrayTexts(b)
      BY <3>3, <3>5 DEF ArrayTexts
    <3>7. /\ Serialize[u] = Enclosed(LeftBracket, ArrayTexts(a), RightBracket)
          /\ Serialize[x] = Enclosed(LeftBracket, ArrayTexts(b), RightBracket)
      BY <3>1, <3>2, OnArrays DEF ArrayTexts
    <3>. QED BY <3>6, <3>7
  <2>3. CASE IsObject(u)
    <3>1. PICK m \in Members(JsonValues) : u = Object(m)
      BY <2>3, Kinds
    <3>2. PICK n \in Members(JsonValues) : x = Object(n)
      BY <1>1, <2>3, PlainKind, Kinds
    <3>3. OwnNames(m) = OwnNames(n) /\ \A k \in OwnNames(m) : Plain[m[k].value] = Plain[n[k].value]
      BY <1>1, <3>1, <3>2, SameMembers
    <3>4. \A k \in OwnNames(m) : m[k].value \in P
      <4>1. Inside(u) = {m[k].value : k \in OwnNames(m)}
        BY <3>1, OnObjects
      <4>. QED BY <1>1, <4>1
    <3>5. ASSUME NEW k \in OwnNames(m) PROVE Serialize[m[k].value] = Serialize[n[k].value]
      <4>1. n[k].value \in JsonValues
        <5>1. k \in Names /\ n[k].value # Absent /\ n[k].value \in JsonValues \cup {Absent}
          BY <3>3 DEF OwnNames, Members
        <5>. QED BY <5>1
      <4>. QED BY <3>3, <3>4, <4>1
    <3>. HIDE DEF P
    <3>6. SortedNames(m) = SortedNames(n)
      BY <3>3 DEF SortedNames
    <3>7. MemberTexts(m) = MemberTexts(n)
      <4>. DEFINE names == SortedNames(m)
      <4>1. \A i \in 1 .. Len(names) : names[i] \in OwnNames(m)
        BY MemberTextsAre
      <4>2. /\ MemberTexts(m) = [i \in 1 .. Len(names) |->
                 <<NameToken(names[i])>> ** Serialize[m[names[i]].value]]
            /\ MemberTexts(n) = [i \in 1 .. Len(names) |->
                 <<NameToken(names[i])>> ** Serialize[n[names[i]].value]]
        BY <3>6, MemberTextsAre
      <4>. HIDE DEF names
      <4>. QED BY <3>5, <4>1, <4>2
    <3>8. /\ Serialize[u] = Enclosed(LeftBrace, MemberTexts(m), RightBrace)
          /\ Serialize[x] = Enclosed(LeftBrace, MemberTexts(n), RightBrace)
      BY <3>1, <3>2, OnObjects
    <3>. QED BY <3>7, <3>8
  <2>. QED BY <2>1, <2>2, <2>3, Kinds
<1>2. JsonValues \subseteq P
  <2>1. \A u \in JsonValues : Inside(u) \subseteq P => u \in P
    BY <1>1
  <2>. HIDE DEF P
  <2>. QED BY <2>1, JsonInduction
<1>. QED BY <1>2 DEF SameJson, CanonicalJson

(* One text is not that of two different values, and shows where it ends.  *)
LEMMA TextsAreUnambiguous ==
  ASSUME NEW v \in JsonValues, NEW w \in JsonValues, NEW s \in Texts, NEW t \in Texts,
         Serialize[v] ** s = Serialize[w] ** t
  PROVE  Plain[v] = Plain[w] /\ s = t
<1>. DEFINE Determined(u, x) ==
              \A y, z \in Texts :
                Serialize[u] ** y = Serialize[x] ** z => Plain[u] = Plain[x] /\ y = z
            P == {u \in JsonValues : \A x \in JsonValues : Determined(u, x)}
<1>1. ASSUME NEW u \in JsonValues, Inside(u) \subseteq P, NEW x \in JsonValues, NEW y \in Texts, NEW z \in Texts,
             Serialize[u] ** y = Serialize[x] ** z
      PROVE  Plain[u] = Plain[x] /\ y = z
  <2>1. Serialize[u][1] = Serialize[x][1]
    <3>1. /\ Serialize[u] \in Texts /\ Serialize[u] # <<>>
          /\ Serialize[x] \in Texts /\ Serialize[x] # <<>>
      BY SerializeIsText
    <3>2. /\ (Serialize[u] ** y)[1] = Serialize[u][1]
          /\ (Serialize[x] ** z)[1] = Serialize[x][1]
      BY <3>1, HeadOfText
    <3>. QED BY <1>1, <3>2
  <2>2. CASE u \in Scalars
    <3>1. x \in Scalars
      BY <2>1, <2>2, SerializeIsText, Kinds, OnScalars, PunctuationIsNoScalar
    <3>2. /\ Serialize[u] = <<ScalarText(u)>> /\ Plain[u] = ScalarText(u) /\ ScalarText(u) \in Tokens
          /\ Serialize[x] = <<ScalarText(x)>> /\ Plain[x] = ScalarText(x) /\ ScalarText(x) \in Tokens
      BY <2>2, <3>1, OnScalars, TokensAreTokens
    <3>3. <<ScalarText(u)>> ** y = <<ScalarText(x)>> ** z
      BY Zenon, <1>1, <3>2
    <3>. QED BY <3>2, <3>3, TokenThenText
  <2>3. CASE IsArray(u)
    <3>1. IsArray(x)
      BY <2>1, <2>3, SerializeIsText, Kinds, OnScalars, PunctuationIsNoScalar
    <3>2. PICK a \in Seq(JsonValues) : u = Array(a)
      BY <2>3, Kinds
    <3>3. PICK b \in Seq(JsonValues) : x = Array(b)
      BY <3>1, Kinds
    <3>. DEFINE p == ArrayTexts(a)
                q == ArrayTexts(b)
    <3>4. \A i \in 1 .. Len(a) : a[i] \in P /\ a[i] \in JsonValues
      <4>1. Inside(u) = {a[i] : i \in 1 .. Len(a)}
        BY <3>2, OnArrays
      <4>. QED BY <1>1, <4>1
    <3>5. /\ Len(a) \in Nat /\ Len(b) \in Nat /\ Len(p) = Len(a) /\ Len(q) = Len(b)
          /\ \A i \in 1 .. Len(a) : p[i] = Serialize[a[i]]
          /\ \A i \in 1 .. Len(b) : q[i] = Serialize[b[i]]
      BY DEF ArrayTexts
    <3>6. p \in Seq(Texts) /\ q \in Seq(Texts)
      BY TextsOfParts
    <3>7. Enclosed(LeftBracket, p, RightBracket) ** y = Enclosed(LeftBracket, q, RightBracket) ** z
      <4>1. Serialize[u] = Enclosed(LeftBracket, p, RightBracket)
        BY <3>2, OnArrays DEF ArrayTexts
      <4>2. Serialize[x] = Enclosed(LeftBracket, q, RightBracket)
        BY <3>3, OnArrays DEF ArrayTexts
      <4>. QED BY <1>1, <4>1, <4>2
    <3>8. \A j \in JsonValues : Serialize[j] # <<>> /\ Serialize[j][1] # RightBracket
      BY SerializeIsText, Kinds, OnScalars, PunctuationIsNoScalar
    <3>9. NeverBegins(RightBracket, p) /\ NeverBegins(RightBracket, q)
      BY <3>4, <3>5, <3>8 DEF NeverBegins
    <3>. HIDE DEF p, q
    <3>10. ASSUME NEW i \in 1 .. Len(a), i \in 1 .. Len(b),
                  NEW c \in Texts, NEW d \in Texts, p[i] ** c = q[i] ** d
           PROVE  Plain[a[i]] = Plain[b[i]] /\ c = d
      <4>1. Determined(a[i], b[i])
        <5>. HIDE DEF Determined
        <5>. QED BY <3>4, <3>10
      <4>2. Serialize[a[i]] ** c = Serialize[b[i]] ** d
        BY <3>5, <3>10
      <4>. QED BY Zenon, <4>1, <4>2
    <3>11. ShowTheirEnd(p, q)
      BY <3>5, <3>10 DEF ShowTheirEnd
    <3>12. Len(p) = Len(q) /\ y = z /\ \A i \in 1 .. Len(p) : BeginTheSame(p[i], q[i])
      BY <3>6, <3>7, <3>9, <3>11, EnclosedIsUnambiguous
    <3>13. \A i \in 1 .. Len(a) : Plain[a[i]] = Plain[b[i]]
      BY <3>5, <3>10, <3>12 DEF BeginTheSame
    <3>. QED BY <3>2, <3>3, <3>5, <3>12, <3>13, SameItems
  <2>4. CASE IsObject(u)
    <3>1. IsObject(x)
      BY <2>1, <2>4, SerializeIsText, Kinds, OnScalars, PunctuationIsNoScalar
    <3>2. PICK m \in Members(JsonValues) : u = Object(m)
      BY <2>4, Kinds
    <3>3. PICK n \in Members(JsonValues) : x = Object(n)
      BY <3>1, Kinds
    <3>. DEFINE p == MemberTexts(m)
                q == MemberTexts(n)
                ms == SortedNames(m)
                ns == SortedNames(n)
    <3>4. \A k \in OwnNames(m) : m[k].value \in P /\ m[k].value \in JsonValues
      <4>1. Inside(u) = {m[k].value : k \in OwnNames(m)}
        BY <3>2, OnObjects
      <4>. QED BY <1>1, <4>1
    <3>5. /\ p = [i \in 1 .. Len(ms) |-> <<NameToken(ms[i])>> ** Serialize[m[ms[i]].value]]
          /\ Len(ms) \in Nat /\ \A i \in 1 .. Len(ms) : ms[i] \in OwnNames(m) /\ ms[i] \in Names
          /\ OwnNames(m) = {ms[i] : i \in 1 .. Len(ms)}
      BY MemberTextsAre
    <3>6. /\ q = [i \in 1 .. Len(ns) |-> <<NameToken(ns[i])>> ** Serialize[n[ns[i]].value]]
          /\ Len(ns) \in Nat /\ \A i \in 1 .. Len(ns) : ns[i] \in OwnNames(n) /\ ns[i] \in Names
          /\ OwnNames(n) = {ns[i] : i \in 1 .. Len(ns)}
      BY MemberTextsAre
    <3>7. p \in Seq(Texts) /\ q \in Seq(Texts)
      BY TextsOfParts
    <3>8. Enclosed(LeftBrace, p, RightBrace) ** y = Enclosed(LeftBrace, q, RightBrace) ** z
      <4>1. Serialize[u] = Enclosed(LeftBrace, p, RightBrace)
        BY <3>2, OnObjects
      <4>2. Serialize[x] = Enclosed(LeftBrace, q, RightBrace)
        BY <3>3, OnObjects
      <4>. QED BY <1>1, <4>1, <4>2
    <3>. HIDE DEF p, q, ms, ns
    <3>9. Len(p) = Len(ms) /\ Len(q) = Len(ns)
      BY <3>5, <3>6
    <3>10. \A k \in OwnNames(n) : n[k].value \in JsonValues
      BY DEF OwnNames, Members
    <3>11. /\ \A i \in 1 .. Len(ms) : /\ p[i] = <<NameToken(ms[i])>> ** Serialize[m[ms[i]].value]
                                       /\ Serialize[m[ms[i]].value] \in Texts
                                       /\ NameToken(ms[i]) \in Tokens
           /\ \A i \in 1 .. Len(ns) : /\ q[i] = <<NameToken(ns[i])>> ** Serialize[n[ns[i]].value]
                                       /\ Serialize[n[ns[i]].value] \in Texts
                                       /\ NameToken(ns[i]) \in Tokens
      BY <3>4, <3>5, <3>6, <3>10, SerializeIsText, TokensAreTokens
    <3>12. NeverBegins(RightBrace, p) /\ NeverBegins(RightBrace, q)
      <4>1. \A k \in Names, c \in Texts :
              <<NameToken(k)>> ** c # <<>> /\ (<<NameToken(k)>> ** c)[1] # RightBrace
        BY TokensAreTokens, HeadOfToken, HeadOfText, PunctuationIsNoScalar
      <4>. QED BY <3>5, <3>6, <3>9, <3>11, <4>1 DEF NeverBegins
    <3>13. ASSUME NEW i \in 1 .. Len(ms), i \in 1 .. Len(ns),
                  NEW c \in Texts, NEW d \in Texts, p[i] ** c = q[i] ** d
           PROVE  ms[i] = ns[i] /\ Plain[m[ms[i]].value] = Plain[n[ns[i]].value] /\ c = d
      <4>. DEFINE a == Serialize[m[ms[i]].value]
                  b == Serialize[n[ns[i]].value]
      <4>1. /\ a \in Texts /\ b \in Texts /\ NameToken(ms[i]) \in Tokens /\ NameToken(ns[i]) \in Tokens
            /\ p[i] = <<NameToken(ms[i])>> ** a /\ q[i] = <<NameToken(ns[i])>> ** b
        BY <3>11, <3>13
      <4>. HIDE DEF a, b
      <4>2. /\ <<NameToken(ms[i])>> ** (a ** c) = <<NameToken(ns[i])>> ** (b ** d)
            /\ a ** c \in Texts /\ b ** d \in Texts
        <5>. DEFINE g == <<NameToken(ms[i])>>
                    h == <<NameToken(ns[i])>>
        <5>1. g \in Texts /\ h \in Texts
          BY <4>1, HeadOfToken
        <5>2. (g ** a) ** c = (h ** b) ** d
          <6>. HIDE DEF g, h
          <6>1. p[i] = g ** a /\ q[i] = h ** b
            BY <4>1 DEF g, h
          <6>. QED BY Zenon, <3>13, <6>1
        <5>. HIDE DEF g, h
        <5>3. (g ** a) ** c = g ** (a ** c) /\ (h ** b) ** d = h ** (b ** d)
          BY <4>1, <5>1, <3>13, Grouping
        <5>4. a ** c \in Texts /\ b ** d \in Texts
          BY <4>1, <3>13, Joining
        <5>5. g ** (a ** c) = h ** (b ** d)
          BY Zenon, <5>2, <5>3
        <5>. QED BY <5>4, <5>5 DEF g, h
      <4>3. NameToken(ms[i]) = NameToken(ns[i]) /\ a ** c = b ** d
        BY <4>1, <4>2, TokenThenText
      <4>4. Determined(m[ms[i]].value, n[ns[i]].value)
        <5>. HIDE DEF Determined
        <5>1. m[ms[i]].value \in P /\ n[ns[i]].value \in JsonValues
          BY <3>4, <3>5, <3>6, <3>10, <3>13
        <5>. QED BY <5>1
      <4>5. Plain[m[ms[i]].value] = Plain[n[ns[i]].value] /\ c = d
        BY Zenon, <4>3, <4>4 DEF a, b
      <4>. QED BY <4>3, <4>5, PunctuationIsNoScalar
    <3>14. ShowTheirEnd(p, q)
      BY <3>5, <3>6, <3>9, <3>13 DEF ShowTheirEnd
    <3>15. Len(p) = Len(q) /\ y = z /\ \A i \in 1 .. Len(p) : BeginTheSame(p[i], q[i])
      BY <3>7, <3>8, <3>12, <3>14, EnclosedIsUnambiguous
    <3>16. \A i \in 1 .. Len(ms) : ms[i] = ns[i] /\ Plain[m[ms[i]].value] = Plain[n[ns[i]].value]
      BY <3>9, <3>13, <3>15 DEF BeginTheSame
    <3>17. OwnNames(m) = OwnNames(n)
      BY <3>5, <3>6, <3>9, <3>15, <3>16
    <3>18. \A k \in OwnNames(m) : Plain[m[k].value] = Plain[n[k].value]
      BY <3>5, <3>16
    <3>. QED BY <3>2, <3>3, <3>15, <3>17, <3>18, SameMembers
  <2>. QED BY <2>2, <2>3, <2>4, Kinds
<1>2. JsonValues \subseteq P
  <2>1. \A u \in JsonValues : Inside(u) \subseteq P => u \in P
    BY <1>1
  <2>. HIDE DEF P
  <2>. QED BY <2>1, JsonInduction
<1>. QED BY <1>2

(* "signer and verifier always agree on the exact payload": two values     *)
(* have one text only if they are the same but for the order of members.   *)
THEOREM SameTextSameValue ==
  ASSUME NEW v \in JsonValues, NEW w \in JsonValues, CanonicalJson(v) = CanonicalJson(w)
  PROVE  SameJson(v, w)
<1>1. <<>> \in Texts
  BY DEF Texts
<1>. QED BY <1>1, TextsAreUnambiguous DEF SameJson, CanonicalJson

-----------------------------------------------------------------------------
(* The text a signature over what was handed to the signer is of.          *)
SignedText ==
  IF layer = "grant" THEN CanonicalJson(original) ELSE SigningBase(envelope, original)

(* What VerifyReceived decides by.                                         *)
Verifies ==
  IF layer = "grant"
    THEN VerifyCanonical(signature, received.value, received.key)
    ELSE Verify(signature, SigningBase(received.header, received.value), received.key)

Arrived == stage \in {"sent", "accepted", "rejected"}

SignedTypeOK ==
  /\ stage \in {"new", "signed", "sent", "refused", "accepted", "rejected"}
  /\ layer \in {"grant", "message"}
  /\ original \in Values
  /\ envelope \in Headers
  /\ intact \in BOOLEAN

(* Only a grant is refused, and one that is signed is one that serialises. *)
StrictOnGrants ==
  /\ stage = "refused" => layer = "grant"
  /\ layer = "grant" /\ stage \notin {"new", "refused"} => ~Throws(original)

(* A signature is over the whole of what was signed.                       *)
SignedInFull ==
  /\ stage = "signed" => \E key \in Keys : signature = Sign(SignedText, key)
  /\ Arrived => signature = Malformed \/ \E key \in Keys : signature = Sign(SignedText, key)

(* What the verifier has came over the wire, and is what was signed when   *)
(* nothing but the order of keys changed on the way.                       *)
ReceivedFromTheWire ==
  /\ Arrived => received.value \in {OnTheWire[w] : w \in Values} /\ received.header \in Headers
  /\ intact =>
       /\ Arrived
       /\ SameJson(received.value, OnTheWire[original])
       /\ received.header = envelope
       /\ \E key \in Keys : signature = Sign(SignedText, key) /\ received.key = key

DecidedByVerifying ==
  /\ stage = "accepted" => Verifies
  /\ stage = "rejected" => ~Verifies

SignedInvariant ==
  SignedTypeOK /\ StrictOnGrants /\ SignedInFull /\ ReceivedFromTheWire /\ DecidedByVerifying

(* The normalised body of a message serialises, and is what crosses.       *)
LEMMA NormalizedIsJson ==
  ASSUME NEW v \in JsonValues
  PROVE  /\ Normalized(v) \in JsonValues /\ ~Throws(Normalized(v))
         /\ CanonicalJson(Normalized(v)) \in Texts
<1>1. OnTheWire[v] \in JsonValues /\ ~Throws(OnTheWire[v])
  BY WireAndPlainAreJson, WireNeverThrows
<1>. QED BY <1>1, SerializeIsText DEF Normalized, CanonicalJson

(* Normalising what came over the wire changes nothing but the order of    *)
(* members.                                                                *)
LEMMA NormalizedKeeps ==
  ASSUME NEW v \in {OnTheWire[w] : w \in Values}
  PROVE  v \in JsonValues /\ ~Throws(v) /\ SameJson(v, Normalized(v))
<1>1. PICK w \in JsonValues : v = OnTheWire[w]
  BY ValuesAssumption
<1>2. v \in JsonValues /\ ~Throws(v)
  BY <1>1, WireAndPlainAreJson, WireNeverThrows
<1>. QED BY <1>2, WireKeepsSigned DEF Normalized

(* The text a message is signed by is its header, then its body.           *)
LEMMA SigningBaseIsText ==
  ASSUME NEW h \in Headers, NEW v \in JsonValues
  PROVE  /\ SigningBase(h, v) \in Texts
         /\ SigningBase(h, v) = <<HeaderToken(h)>> ** CanonicalJson(Normalized(v))
<1>1. SigningBase(h, v) = <<HeaderToken(h)>> ** CanonicalJson(Normalized(v))
  BY DEF SigningBase, **
<1>2. HeaderToken(h) \in Tokens /\ CanonicalJson(Normalized(v)) \in Texts
  BY TokensAreTokens, NormalizedIsJson
<1>. QED BY <1>1, <1>2, HeadOfToken

(* Neither a signature nor a key that signs is a malformed string.         *)
LEMMA SignatureIsNotMalformed ==
  ASSUME NEW text \in Texts, NEW key \in Keys
  PROVE  Sign(text, key) # Malformed /\ key # Malformed
BY MalformedAssumption DEF Sign, Texts

(* What is signed is a text.                                               *)
LEMMA SignedTextIsText ==
  SignedTypeOK => SignedText \in Texts
<1>1. SignedTypeOK => original \in JsonValues
  BY ValuesAssumption DEF SignedTypeOK
<1>. QED BY <1>1, SerializeIsText, SigningBaseIsText DEF SignedTypeOK, SignedText, CanonicalJson

(* What was signed, come back in any order of members, verifies.           *)
LEMMA IntactIsVerified ==
  ASSUME SignedTypeOK, StrictOnGrants, ReceivedFromTheWire, intact
  PROVE  Verifies
<1>1. /\ original \in JsonValues /\ envelope \in Headers /\ layer \in {"grant", "message"}
      /\ Arrived /\ received.header = envelope /\ SameJson(received.value, OnTheWire[original])
      /\ received.value \in JsonValues /\ ~Throws(received.value)
      /\ SameJson(received.value, Normalized(received.value))
  BY ValuesAssumption, NormalizedKeeps DEF SignedTypeOK, ReceivedFromTheWire
<1>2. PICK key \in Keys : signature = Sign(SignedText, key) /\ received.key = key
  BY DEF ReceivedFromTheWire
<1>3. signature # Malformed /\ received.key # Malformed
  BY <1>2, SignedTextIsText, SignatureIsNotMalformed
<1>4. CASE layer = "grant"
  <2>1. ~Throws(original)
    BY <1>1, <1>4 DEF StrictOnGrants, Arrived
  <2>2. SameJson(received.value, original)
    BY <1>1, <2>1, WireKeepsSigned DEF SameJson
  <2>3. CanonicalJson(received.value) = CanonicalJson(original)
    BY <1>1, <2>2, SameValueSameText
  <2>. QED BY <1>1, <1>2, <1>3, <1>4, <2>3 DEF Verifies, VerifyCanonical, Verify, SignedText
<1>5. CASE layer = "message"
  <2>1. /\ Normalized(received.value) \in JsonValues /\ Normalized(original) \in JsonValues
        /\ SameJson(Normalized(received.value), Normalized(original))
    BY <1>1, NormalizedIsJson DEF SameJson, Normalized
  <2>2. CanonicalJson(Normalized(received.value)) = CanonicalJson(Normalized(original))
    BY <2>1, SameValueSameText
  <2>3. SigningBase(received.header, received.value) = SigningBase(envelope, original)
    BY <1>1, <2>2 DEF SigningBase
  <2>. QED BY <1>2, <1>3, <1>5, <2>3 DEF Verifies, Verify, SignedText
<1>. QED BY <1>1, <1>4, <1>5

-----------------------------------------------------------------------------
(* Nothing is signed or received at first.                                 *)
LEMMA SignedInitHolds == SignedInit => SignedInvariant
BY DEF SignedInit, SignedInvariant, SignedTypeOK, StrictOnGrants, SignedInFull,
       ReceivedFromTheWire, DecidedByVerifying, Arrived

(* Signing a grant, or refusing to, keeps the invariant.                   *)
LEMMA IssueGrantKeeps ==
  ASSUME SignedInvariant, NEW key \in Keys, IssueGrant(key)
  PROVE  SignedInvariant'
<1>. USE DEF IssueGrant, SignedInvariant
<1>1. stage' \in {"signed", "refused"} /\ layer = "grant" /\ ~intact /\ ~Arrived'
  BY DEF ReceivedFromTheWire, Arrived
<1>2. SignedTypeOK'
  BY <1>1 DEF SignedTypeOK
<1>3. StrictOnGrants'
  BY DEF StrictOnGrants, Throws
<1>4. SignedInFull'
  <2>1. stage' = "signed" => signature' = Sign(SignedText', key)
    BY <1>1 DEF SignedText, CanonicalJson
  <2>. QED BY <1>1, <2>1 DEF SignedInFull
<1>5. ReceivedFromTheWire' /\ DecidedByVerifying'
  BY <1>1 DEF ReceivedFromTheWire, DecidedByVerifying
<1>. QED BY <1>2, <1>3, <1>4, <1>5

(* Signing a message keeps it: a normalised body is never refused.         *)
LEMMA SignBodyKeeps ==
  ASSUME SignedInvariant, NEW key \in Keys, SignBody(key)
  PROVE  SignedInvariant'
<1>. USE DEF SignBody, SignedInvariant
<1>1. ~Throws(Normalized(original))
  BY ValuesAssumption, NormalizedIsJson DEF SignedTypeOK
<1>2. stage' = "signed" /\ layer = "message" /\ layer' = layer /\ ~intact /\ ~Arrived'
  BY <1>1 DEF ReceivedFromTheWire, Arrived
<1>3. SignedTypeOK'
  BY <1>2 DEF SignedTypeOK
<1>4. StrictOnGrants'
  BY <1>2 DEF StrictOnGrants
<1>5. SignedInFull'
  <2>1. signature' = Sign(SignedText', key)
    BY <1>1, <1>2 DEF SignedText, SigningBase, CanonicalJson, Normalized
  <2>. QED BY <1>2, <2>1 DEF SignedInFull
<1>6. ReceivedFromTheWire' /\ DecidedByVerifying'
  BY <1>2 DEF ReceivedFromTheWire, DecidedByVerifying
<1>. QED BY <1>3, <1>4, <1>5, <1>6

(* Delivering what was signed keeps it.                                    *)
LEMMA DeliverKeeps ==
  ASSUME SignedInvariant, Deliver
  PROVE  SignedInvariant'
<1>. USE DEF Deliver, SignedInvariant
<1>1. /\ stage = "signed" /\ stage' = "sent" /\ Arrived'
      /\ layer' = layer /\ original' = original /\ envelope' = envelope /\ signature' = signature
  BY DEF Arrived
<1>2. PICK key \in Keys : signature = Sign(SignedText, key)
  BY <1>1 DEF SignedInFull
<1>3. SignedText' = SignedText
  BY <1>1 DEF SignedText, SigningBase, CanonicalJson, Normalized
<1>4. SignedTypeOK'
  BY <1>1 DEF SignedTypeOK
<1>5. StrictOnGrants'
  BY <1>1 DEF StrictOnGrants, Throws
<1>6. SignedInFull'
  BY <1>1, <1>2, <1>3 DEF SignedInFull
<1>7. ReceivedFromTheWire'
  <2>1. PICK v \in {OnTheWire[w] : w \in Values} :
          /\ SameJson(v, OnTheWire[original])
          /\ received' = [value |-> v, header |-> envelope, key |-> signature.key]
    OBVIOUS
  <2>2. /\ received'.value = v /\ received'.header = envelope /\ received'.key = key
        /\ envelope \in Headers
    BY <1>2, <2>1 DEF Sign, SignedTypeOK
  <2>. QED BY <1>1, <1>2, <1>3, <2>1, <2>2 DEF ReceivedFromTheWire, SameJson
<1>8. DecidedByVerifying'
  BY <1>1 DEF DecidedByVerifying
<1>. QED BY <1>4, <1>5, <1>6, <1>7, <1>8

(* Delivering something else keeps it.                                     *)
LEMMA DeliverOtherKeeps ==
  ASSUME SignedInvariant, DeliverOther
  PROVE  SignedInvariant'
<1>. USE DEF DeliverOther, SignedInvariant
<1>1. /\ stage = "signed" /\ stage' = "sent" /\ Arrived' /\ ~intact /\ ~intact'
      /\ layer' = layer /\ original' = original /\ envelope' = envelope
      /\ signature' \in {signature, Malformed}
  BY DEF Arrived, ReceivedFromTheWire
<1>2. PICK key \in Keys : signature = Sign(SignedText, key)
  BY <1>1 DEF SignedInFull
<1>3. SignedText' = SignedText
  BY <1>1 DEF SignedText, SigningBase, CanonicalJson, Normalized
<1>4. SignedTypeOK'
  BY <1>1 DEF SignedTypeOK
<1>5. StrictOnGrants'
  BY <1>1 DEF StrictOnGrants, Throws
<1>6. SignedInFull'
  BY <1>1, <1>2, <1>3 DEF SignedInFull
<1>7. ReceivedFromTheWire'
  <2>1. original \in Values /\ envelope \in Headers
    BY DEF SignedTypeOK
  <2>2. received'.value \in {OnTheWire[w] : w \in Values} /\ received'.header \in Headers
    BY <2>1
  <2>. QED BY <1>1, <2>2 DEF ReceivedFromTheWire
<1>8. DecidedByVerifying'
  BY <1>1 DEF DecidedByVerifying
<1>. QED BY <1>4, <1>5, <1>6, <1>7, <1>8

(* Verifying keeps it.                                                     *)
LEMMA VerifyReceivedKeeps ==
  ASSUME SignedInvariant, VerifyReceived
  PROVE  SignedInvariant'
<1>. USE DEF VerifyReceived, SignedInvariant
<1>1. /\ stage = "sent" /\ stage' = IF Verifies THEN "accepted" ELSE "rejected"
      /\ UNCHANGED <<layer, original, envelope, signature, received, intact>>
  BY DEF Verifies
<1>2. Arrived /\ Arrived'
  BY <1>1 DEF Arrived
<1>3. SignedText' = SignedText /\ Verifies' = Verifies
  BY <1>1 DEF SignedText, Verifies, VerifyCanonical, SigningBase, CanonicalJson, Normalized, Throws
<1>4. SignedTypeOK'
  BY <1>1 DEF SignedTypeOK
<1>5. StrictOnGrants'
  BY <1>1 DEF StrictOnGrants, Throws
<1>6. SignedInFull'
  BY <1>1, <1>2, <1>3 DEF SignedInFull
<1>7. ReceivedFromTheWire'
  BY <1>1, <1>2, <1>3 DEF ReceivedFromTheWire, SameJson
<1>8. DecidedByVerifying'
  BY <1>1, <1>3 DEF DecidedByVerifying
<1>. QED BY <1>4, <1>5, <1>6, <1>7, <1>8

(* So does a step that changes nothing here.                               *)
LEMMA SignedStutterKeeps ==
  ASSUME SignedInvariant, UNCHANGED signedVars
  PROVE  SignedInvariant'
<1>1. UNCHANGED <<stage, layer, original, envelope, signature, received, intact>>
  BY DEF signedVars
<1>2. SignedText' = SignedText /\ Verifies' = Verifies /\ Arrived' = Arrived
  BY <1>1 DEF SignedText, Verifies, VerifyCanonical, SigningBase, CanonicalJson, Normalized,
             Throws, Arrived
<1>3. SignedTypeOK' /\ StrictOnGrants'
  BY <1>1 DEF SignedInvariant, SignedTypeOK, StrictOnGrants, Throws
<1>4. SignedInFull' /\ ReceivedFromTheWire' /\ DecidedByVerifying'
  BY <1>1, <1>2 DEF SignedInvariant, SignedInFull, ReceivedFromTheWire, DecidedByVerifying, SameJson
<1>. QED BY <1>3, <1>4 DEF SignedInvariant

(* What is known of a signature from signing to verifying.                 *)
THEOREM SignedInvariantHolds == SignedSpec => []SignedInvariant
<1>1. SignedInvariant /\ [SignedNext]_signedVars => SignedInvariant'
  BY IssueGrantKeeps, SignBodyKeeps, DeliverKeeps, DeliverOtherKeeps, VerifyReceivedKeeps,
     SignedStutterKeeps DEF SignedNext
<1>. QED BY <1>1, SignedInitHolds, PTL DEF SignedSpec

(* What a grant's signature covers is all there is in the claims: nothing  *)
(* of a signed grant is lost on the wire.                                  *)
THEOREM NothingSignedIsLost == SignedSpec => []SignedLosesNothing
<1>1. SignedInvariant => SignedLosesNothing
  BY ValuesAssumption, WireKeepsSigned
     DEF SignedInvariant, SignedTypeOK, StrictOnGrants, SignedLosesNothing
<1>. QED BY <1>1, SignedInvariantHolds, PTL

(* A signature made is one that verifies, in whatever key order the value  *)
(* comes back and although the transport dropped undefined members.        *)
THEOREM IntactValuesVerify == SignedSpec => []IntactVerifies
<1>1. SignedInvariant => IntactVerifies
  BY IntactIsVerified DEF SignedInvariant, DecidedByVerifying, IntactVerifies
<1>. QED BY <1>1, SignedInvariantHolds, PTL

(* A message is never refused for what its body holds.                     *)
THEOREM NoMessageIsRefused == SignedSpec => []MessagesAreSigned
<1>1. SignedInvariant => MessagesAreSigned
  BY DEF SignedInvariant, StrictOnGrants, MessagesAreSigned
<1>. QED BY <1>1, SignedInvariantHolds, PTL

(* What verifies is what was signed: the value but for the order of its    *)
(* members, and the header of a message.                                   *)
THEOREM OnlySignedIsAccepted == SignedSpec => []AcceptedIsWhatWasSigned
<1>1. ASSUME SignedInvariant, stage = "accepted"
      PROVE  /\ SameJson(received.value, OnTheWire[original])
             /\ layer = "message" => received.header = envelope
  <2>1. /\ original \in JsonValues /\ envelope \in Headers /\ received.header \in Headers
        /\ layer \in {"grant", "message"}
        /\ received.value \in JsonValues /\ ~Throws(received.value)
        /\ SameJson(received.value, Normalized(received.value))
    BY <1>1, ValuesAssumption, NormalizedKeeps
       DEF SignedInvariant, SignedTypeOK, ReceivedFromTheWire, Arrived
  <2>2. Verifies
    BY <1>1 DEF SignedInvariant, DecidedByVerifying
  <2>3. signature # Malformed
    BY <2>2 DEF Verifies, VerifyCanonical, Verify
  <2>4. PICK key \in Keys : signature = Sign(SignedText, key)
    BY <1>1, <2>3 DEF SignedInvariant, SignedInFull, Arrived
  <2>5. CASE layer = "grant"
    <3>1. CanonicalJson(received.value) = CanonicalJson(original)
      BY <2>2, <2>4, <2>5 DEF Verifies, VerifyCanonical, Verify, Sign, SignedText
    <3>2. SameJson(received.value, original)
      BY <2>1, <3>1, SameTextSameValue
    <3>3. SameJson(original, OnTheWire[original])
      BY <1>1, <2>1, <2>5, WireKeepsSigned DEF SignedInvariant, StrictOnGrants
    <3>. QED BY <2>5, <3>2, <3>3 DEF SameJson
  <2>6. CASE layer = "message"
    <3>. DEFINE a == CanonicalJson(Normalized(received.value))
                b == CanonicalJson(Normalized(original))
    <3>1. SigningBase(received.header, received.value) = SigningBase(envelope, original)
      BY <2>2, <2>4, <2>6 DEF Verifies, Verify, Sign, SignedText
    <3>2. a \in Texts /\ b \in Texts /\ HeaderToken(received.header) \in Tokens
          /\ HeaderToken(envelope) \in Tokens
      BY <2>1, NormalizedIsJson, TokensAreTokens
    <3>3. <<HeaderToken(received.header)>> ** a = <<HeaderToken(envelope)>> ** b
      BY <2>1, <3>1, SigningBaseIsText
    <3>4. HeaderToken(received.header) = HeaderToken(envelope) /\ a = b
      <4>. HIDE DEF a, b
      <4>. QED BY <3>2, <3>3, TokenThenText
    <3>5. received.header = envelope
      BY <3>4, PunctuationIsNoScalar
    <3>6. SameJson(Normalized(received.value), Normalized(original))
      BY <2>1, <3>4, NormalizedIsJson, SameTextSameValue
    <3>. QED BY <2>1, <3>5, <3>6 DEF SameJson, Normalized
  <2>. QED BY <2>1, <2>5, <2>6
<1>2. SignedInvariant => AcceptedIsWhatWasSigned
  BY <1>1 DEF AcceptedIsWhatWasSigned
<1>. QED BY <1>2, SignedInvariantHolds, PTL

=============================================================================
