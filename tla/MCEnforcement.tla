--------------------------- MODULE MCEnforcement ---------------------------
(* Small instances of Enforcement for TLC. *)
EXTENDS Enforcement, TLC

\* Threads are interchangeable, and so are accounts and invoices: no
\* definition tells two of them apart.
DataSymmetry == Permutations(Callers) \cup Permutations(Accounts) \cup Permutations(Invoices)
=============================================================================
