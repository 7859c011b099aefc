---------------------------- MODULE MCMcpSession ----------------------------
(* Instances of McpSession for TLC.                                        *)
EXTENDS McpSession, TLC

MCSymmetry ==
  Permutations(Calls) \cup Permutations(Transactions) \cup Permutations(Grants)
=============================================================================
