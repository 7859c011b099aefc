----------------------------- MODULE MCMessages -----------------------------
(* What a node checks of a message, side by side for TLC: its arrival in   *)
(* time and only once (MessageAuth), and the signature over its JSON       *)
(* (SignedJson, which also covers grants).  A behaviour is about one of    *)
(* them; the other stays in an initial state.                              *)
EXTENDS MessageAuth, SignedJson, TLC

\* Every scalar, the arrays and objects of up to two scalars, and objects and
\* arrays that hold one of those; objects with two members in both orders.
MCScalars == {Undefined, Null, Number("0"), Number("-0"), Number("NaN"), Text("0")}
FewScalars == {Undefined, Number("0"), Text("0")}

ArraysOf(V) == {Array(<<>>)} \cup {Array(<<v>>) : v \in V} \cup {Array(<<v, w>>) : v, w \in V}

(* One member inserted before the other; either may be absent.             *)
ObjectsOf(V, W) ==
  {Object(<<[at |-> i, value |-> v], [at |-> 3 - i, value |-> w]>>) :
     i \in {1, 2}, v \in V \cup {Absent}, w \in W \cup {Absent}}

Nested == ObjectsOf(FewScalars, FewScalars) \cup {Array(<<v>>) : v \in FewScalars}

MCValues ==
  MCScalars \cup ArraysOf(MCScalars) \cup ObjectsOf(MCScalars, MCScalars)
    \cup ObjectsOf(Nested, {Undefined, Number("0")})
    \cup {Array(<<v, Null>>) : v \in Nested}

VARIABLE subject   \* "arrivals" or "json"

MessagesInit ==
  /\ subject \in {"arrivals", "json"}
  /\ AuthInit
  /\ SignedInit
  /\ subject = "arrivals" =>
       layer = "grant" /\ original = Null /\ envelope = CHOOSE h \in Headers : TRUE

MessagesNext ==
  /\ UNCHANGED subject
  /\ \/ subject = "arrivals" /\ AuthNext /\ UNCHANGED signedVars
     \/ subject = "json" /\ SignedNext /\ UNCHANGED authVars

MessagesSpec == MessagesInit /\ [][MessagesNext]_<<subject, authVars, signedVars>>

MCSymmetry == Permutations(Messages) \cup Permutations(Arrivals)
=============================================================================
