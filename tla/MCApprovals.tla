---------------------------- MODULE MCApprovals ----------------------------
(* Small instances of Approvals for TLC. *)
EXTENDS Approvals, TLC

\* Calls are interchangeable, and so are the identities of actions.
Symmetry == Permutations(Calls) \cup Permutations(Ids)
=============================================================================
