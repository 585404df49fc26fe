----------------------------- MODULE MCAccounts -----------------------------
(* Instances of Accounts for TLC. *)
EXTENDS Accounts, TLC

Symmetry == Permutations(Requests)

\* Bounds what goes on at once: of two requests one may make its account the default.
Bounded == \E r \in Requests : req[r].act \in {"none", "setDefault", "create", "provision"}
=============================================================================
