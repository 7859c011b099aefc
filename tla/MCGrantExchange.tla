-------------------------- MODULE MCGrantExchange --------------------------
(* Instances of GrantExchange for TLC.                                     *)
EXTENDS GrantExchange, TLC

CONSTANTS b1, b2, s1, o1, o2, f1, f2

Full(cap) == [kind |-> "full", fields |-> {}, maxDownloads |-> cap]
Subset(fs) == [kind |-> "subset", fields |-> fs, maxDownloads |-> None]
Issue(scope) ==
  [bpp |-> b1, resource |-> s1, offer |-> o1, scope |-> scope, ttl |-> 1]
Ask(b, o, fs) == [bpp |-> b, resource |-> s1, offer |-> o, fields |-> fs]

\* Grants with a cap of one or two; downloads at the provider they name.
CapRequests == {Issue(Full(1)), Issue(Full(2))}
PlainDownloads == {Ask(b1, o1, None)}

\* Capped and uncapped grants; downloads at the right provider and a wrong one,
\* of the offer, of any, and of another.
MixedRequests == {Issue(Full(1)), Issue(Full(None))}
MixedDownloads == {Ask(b1, None, None), Ask(b2, o1, None), Ask(b1, o2, None)}

\* A grant for one field of two, downloaded with that field named or none.
SubsetRequests == {Issue(Subset({f1}))}
SubsetDownloads ==
  {Ask(b1, o1, None), Ask(b1, o1, {f1}), Ask(b1, o1, {f1, f2})}

MCSymmetry == Permutations(Grants) \cup Permutations(Revokers) \cup Permutations(Downloads)
=============================================================================
