------------------------------ MODULE MCStores ------------------------------
(* An instance of Stores for TLC.                                          *)
EXTENDS Stores, TLC

CONSTANTS b1, s1, o1

MCScope == [kind |-> "full", fields |-> {}, maxDownloads |-> None]
MCRequests ==
  {[bpp |-> b1, resource |-> s1, offer |-> o1, scope |-> MCScope, ttl |-> 1]}
=============================================================================
