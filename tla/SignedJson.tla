----------------------------- MODULE SignedJson -----------------------------
(***************************************************************************)
(* What a signature is over.  canonicalJson and signCanonical              *)
(* (packages/crypto-utils) sign the Access Grants, signingBase the Beckn   *)
(* messages; between signer and verifier a value crosses JSON.stringify    *)
(* and JSON.parse, is put into zod's key order, and a stored grant into    *)
(* that of Postgres's JSONB.                                               *)
(*                                                                         *)
(* A value is a tagged tuple.  An object maps each name to the value it    *)
(* has there, Absent when it has none, and the place at which that was     *)
(* inserted.  Text is a sequence of tokens, so two texts are equal exactly *)
(* when their bytes are.                                                   *)
(***************************************************************************)
EXTENDS Naturals, Sequences, FiniteSets

CONSTANTS
  Names,      \* the keys of objects, their order that of JavaScript's string comparison
  Scalars,    \* undefined, null, booleans, numbers and strings
  MaxNesting, \* how deep arrays and objects nest
  Values,     \* what a JavaScript object handed to the signer can be
  Keys,       \* hex private keys, each standing for its public key too
  Headers,    \* keyId, created, expires and nonce of a message
  Malformed   \* a string that is not hex of the expected length

Undefined == <<"undefined">>
Null == <<"null">>
Number(n) == <<"number", n>>   \* "NaN" is the only one that is not finite, "-0" equals "0"
Text(s) == <<"string", s>>
Array(items) == <<"array", items>>
Object(members) == <<"object", members>>
Absent == <<"absent">>

IsArray(v) == v[1] = "array"
IsObject(v) == v[1] = "object"

OwnNames(members) == {k \in Names : members[k].value # Absent}

(* Values whose arrays and objects are nested at most n deep.              *)
Json[n \in 0 .. MaxNesting] ==
  IF n = 0 THEN Scalars
  ELSE Scalars \cup {"array"} \X Seq(Json[n - 1])
         \cup {"object"} \X [Names -> [at : Nat, value : Json[n - 1] \cup {Absent}]]

JsonValues == Json[MaxNesting]

LeftBracket == <<"leftBracket">>
RightBracket == <<"rightBracket">>
LeftBrace == <<"leftBrace">>
RightBrace == <<"rightBrace">>
Comma == <<"comma">>
NameToken(k) == <<"name", k>>     \* with the colon after it
HeaderToken(h) == <<"header", h>>

Tokens ==
  {LeftBracket, RightBracket, LeftBrace, RightBrace, Comma}
    \cup {NameToken(k) : k \in Names}
    \cup {HeaderToken(h) : h \in Headers} \cup Scalars

ASSUME NamesAssumption == IsFiniteSet(Names) /\ Names \subseteq Nat
ASSUME NestingAssumption == MaxNesting \in Nat
ASSUME ScalarsAssumption ==
  /\ {Undefined, Null, Number("0")} \subseteq Scalars
  /\ \A v \in Scalars : v[1] \in {"undefined", "null", "boolean", "number", "string"}
ASSUME ValuesAssumption == Values \subseteq JsonValues
ASSUME MalformedAssumption == Malformed \notin Keys \cup [key : Keys, text : Seq(Tokens)]

(* JSON.stringify of a scalar: the sign of zero is not written.            *)
ScalarText(v) == IF v = Number("-0") THEN Number("0") ELSE v

(* `[${parts.join(',')}]`, and the same with braces.                       *)
Enclosed(open, parts, close) ==
  LET From[i \in 1 .. Len(parts) + 1] ==
        IF i > Len(parts) THEN <<close>>
        ELSE (IF i = 1 THEN <<>> ELSE <<Comma>>) \o parts[i] \o From[i + 1]
  IN <<open>> \o From[1]

(* Defect: the entries keep their insertion order.                         *)
SortedNamesDefect(members) ==
  CHOOSE s \in [1 .. Cardinality(OwnNames(members)) -> OwnNames(members)] :
    \A i, j \in DOMAIN s : i < j => members[s[i]].at < members[s[j]].at

(* Object.entries(value).sort by key.                                      *)
SortedNames(members) ==
  CHOOSE s \in [1 .. Cardinality(OwnNames(members)) -> OwnNames(members)] :
    \A i, j \in DOMAIN s : i < j => s[i] < s[j]

(* serialize throws on undefined, wherever it is, and on a number that is  *)
(* not finite.                                                             *)
SerializeThrows[v \in JsonValues] ==
  \/ v \in {Undefined, Number("NaN")}
  \/ IsArray(v) /\ \E i \in DOMAIN v[2] : SerializeThrows[v[2][i]]
  \/ IsObject(v) /\ \E k \in OwnNames(v[2]) : SerializeThrows[v[2][k].value]

(* Defect: an undefined member is skipped.                                 *)
ThrowsDefect(w) ==
  LET T[v \in JsonValues] ==
        \/ v \in {Undefined, Number("NaN")}
        \/ IsArray(v) /\ \E i \in DOMAIN v[2] : T[v[2][i]]
        \/ IsObject(v) /\ \E k \in OwnNames(v[2]) : v[2][k].value # Undefined /\ T[v[2][k].value]
  IN T[w]

Throws(v) == SerializeThrows[v]

(* The text of a value serialize does not throw on.                        *)
Serialize[v \in JsonValues] ==
  IF IsArray(v)
    THEN Enclosed(LeftBracket, [i \in 1 .. Len(v[2]) |-> Serialize[v[2][i]]], RightBracket)
  ELSE IF IsObject(v)
    THEN LET names == SortedNames(v[2]) IN
         Enclosed(LeftBrace, [i \in 1 .. Len(names) |->
           <<NameToken(names[i])>> \o Serialize[v[2][names[i]].value]], RightBrace)
  ELSE <<ScalarText(v)>>

(* Defect: JSON.stringify with the sorted keys of the outer object as its  *)
(* list of keys, which also filters the keys of the objects inside.        *)
CanonicalJsonDefect(w) ==
  LET keys == IF IsObject(w) THEN OwnNames(w[2]) ELSE {}
      Filtered[v \in JsonValues] ==
        IF IsArray(v) THEN Array([i \in 1 .. Len(v[2]) |-> Filtered[v[2][i]]])
        ELSE IF IsObject(v)
          THEN Object([k \in Names |-> [v[2][k] EXCEPT !.value =
                 IF k \in OwnNames(v[2]) \cap keys THEN Filtered[@] ELSE Absent]])
        ELSE v
  IN Serialize[Filtered[w]]

CanonicalJson(v) == Serialize[v]

(* JSON.parse(JSON.stringify(v)), the transport: members that are          *)
(* undefined are left out, other values without a JSON form become null.   *)
OnTheWire[v \in JsonValues] ==
  IF IsArray(v) THEN Array([i \in 1 .. Len(v[2]) |-> OnTheWire[v[2][i]]])
  ELSE IF IsObject(v)
    THEN Object([k \in Names |-> [v[2][k] EXCEPT !.value =
           IF @ \in {Absent, Undefined} THEN Absent ELSE OnTheWire[@]]])
  ELSE IF v \in {Undefined, Number("NaN")} THEN Null
  ELSE ScalarText(v)

(* A value with its members in the order of their names, to forget theirs, *)
(* and without the sign of zero.                                           *)
Plain[v \in JsonValues] ==
  IF IsArray(v) THEN Array([i \in 1 .. Len(v[2]) |-> Plain[v[2][i]]])
  ELSE IF IsObject(v)
    THEN Object([k \in Names |-> [at |-> k, value |->
           IF k \in OwnNames(v[2]) THEN Plain[v[2][k].value] ELSE Absent]])
  ELSE ScalarText(v)

SameJson(v, w) == Plain[v] = Plain[w]

-----------------------------------------------------------------------------
VARIABLES
  stage,     \* "new", "sent", "refused" (the signer threw), "accepted", "rejected"
  layer,     \* "grant" or "message"
  original,  \* what was signed
  envelope,  \* header of a message, as signed
  signature, \* the key and the text it is over, or Malformed
  received,  \* value, header and public key the verifier has
  intact     \* history: nothing but key order changed on the way

signedVars == <<stage, layer, original, envelope, signature, received, intact>>

Sign(text, key) == [key |-> key, text |-> text]

(* verify: false, never an exception, when either string is no hex.        *)
Verify(sig, text, key) ==
  sig # Malformed /\ key # Malformed /\ sig = Sign(text, key)

VerifyCanonical(sig, v, key) == ~Throws(v) /\ Verify(sig, CanonicalJson(v), key)

(* Defect: the body is signed as the signer holds it.                      *)
NormalizedDefect(v) == v

(* JSON.parse(JSON.stringify(body ?? null)).                               *)
Normalized(v) == OnTheWire[v]

SigningBase(h, v) == <<HeaderToken(h)>> \o CanonicalJson(Normalized(v))

SignedInit ==
  /\ stage = "new"
  /\ layer \in {"grant", "message"}
  /\ original \in Values
  /\ envelope \in Headers
  /\ signature = Malformed
  /\ received = [value |-> Undefined, header |-> envelope, key |-> Malformed]
  /\ intact = FALSE

(* issueGrant: the parsed claims are signed as they are.                   *)
IssueGrant(key) ==
  /\ stage = "new" /\ layer = "grant"
  /\ IF Throws(original)
       THEN stage' = "refused" /\ UNCHANGED signature
       ELSE stage' = "signed" /\ signature' = Sign(CanonicalJson(original), key)
  /\ UNCHANGED <<layer, original, envelope, received, intact>>

SignBody(key) ==
  /\ stage = "new" /\ layer = "message"
  /\ IF Throws(Normalized(original))
       THEN stage' = "refused" /\ UNCHANGED signature
       ELSE stage' = "signed" /\ signature' = Sign(SigningBase(envelope, original), key)
  /\ UNCHANGED <<layer, original, envelope, received, intact>>

(* The verifier gets what was signed, its keys in some order.              *)
Deliver ==
  /\ stage = "signed"
  /\ stage' = "sent"
  /\ \E v \in {OnTheWire[w] : w \in Values} :
       /\ SameJson(v, OnTheWire[original])
       /\ received' = [value |-> v, header |-> envelope, key |-> signature.key]
  /\ intact' = TRUE
  /\ UNCHANGED <<layer, original, envelope, signature>>

(* The verifier gets another value, header or signature, or has the wrong  *)
(* public key configured.                                                  *)
DeliverOther ==
  /\ stage = "signed"
  /\ stage' = "sent"
  /\ \/ /\ \E v \in Values :
             received' = [value |-> OnTheWire[v], header |-> envelope, key |-> signature.key]
        /\ UNCHANGED signature
     \/ /\ \E h \in Headers \ {envelope}, k \in Keys \cup {Malformed} :
             received' = [value |-> OnTheWire[original], header |-> h, key |-> k]
        /\ UNCHANGED signature
     \/ /\ received' = [value |-> OnTheWire[original], header |-> envelope, key |-> signature.key]
        /\ signature' = Malformed
  /\ UNCHANGED <<layer, original, envelope, intact>>

VerifyReceived ==
  /\ stage = "sent"
  /\ LET ok == IF layer = "grant"
                 THEN VerifyCanonical(signature, received.value, received.key)
                 ELSE Verify(signature, SigningBase(received.header, received.value),
                             received.key)
     IN stage' = IF ok THEN "accepted" ELSE "rejected"
  /\ UNCHANGED <<layer, original, envelope, signature, received, intact>>

SignedNext ==
  \/ \E key \in Keys : IssueGrant(key) \/ SignBody(key)
  \/ Deliver \/ DeliverOther \/ VerifyReceived

SignedSpec == SignedInit /\ [][SignedNext]_signedVars

-----------------------------------------------------------------------------
(* "canonicalJson stays strict (a real undefined in a grant is still a     *)
(* bug)": what a grant's signature covers is all there is in the claims,   *)
(* so nothing of a signed grant is lost on the wire.                       *)
SignedLosesNothing ==
  layer = "grant" /\ stage \notin {"new", "refused"} =>
    SameJson(original, OnTheWire[original])

(* A signature made is a signature that verifies, in whatever key order    *)
(* zod, JSONB and the transport hand the value back, and although the      *)
(* transport dropped the undefined members of a message.                   *)
IntactVerifies == intact => stage # "rejected"

(* A message is never refused for what its body holds, undefined members   *)
(* included: the signer normalises it as the transport will.               *)
MessagesAreSigned == layer = "message" => stage # "refused"

(* What verifies is what was signed: the value up to key order, and for a  *)
(* message the header too.  No two different values share a signed text.   *)
AcceptedIsWhatWasSigned ==
  stage = "accepted" =>
    /\ SameJson(received.value, OnTheWire[original])
    /\ layer = "message" => received.header = envelope
=============================================================================
