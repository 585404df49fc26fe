-------------------------- MODULE MCPasswordChange --------------------------
(* Instances of PasswordChange for TLC. *)
EXTENDS PasswordChange, TLC

Past(k, t, u) == [kind |-> k, at |-> t, until |-> u, by |-> NoRequest]

\* No history, a failure and an old block, an old change.
SomeHistories ==
  { {}, {Past("failure", 2, 0), Past("block", 1, 3)}, {Past("change", 1, 0)} }

NoHistory == {{}}

Symmetry == Permutations(Requests)
=============================================================================
