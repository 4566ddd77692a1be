--------------------------- MODULE MCLedgerHandoff ---------------------------
(* LedgerHandoff on small instances: the bounds are in the cfg.            *)
EXTENDS LedgerHandoff, TLC

\* Environments and operations are interchangeable, and every property is a
\* safety property.
Symmetry == Permutations(Env) \union Permutations(Ops)
=============================================================================
