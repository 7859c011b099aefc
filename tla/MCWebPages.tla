----------------------------- MODULE MCWebPages -----------------------------
(* An instance of WebPages for TLC.                                        *)
EXTENDS WebPages, TLC

CONSTANTS o1, o2

\* One offer without a license class.
MCLicenseOf == (o1 :> "research-only") @@ (o2 :> None)

MCSymmetry == Permutations(Handlers) \cup Permutations(Transactions)
=============================================================================
