------------------------- MODULE MCEmailVerification -------------------------
(* Instances of EmailVerification for TLC. *)
EXTENDS EmailVerification, TLC

Symmetry == Permutations(Resends)

\* The account is new, and two links at most are confirmed: enough for two
\* confirmations at once.
Bounded ==
  /\ Sent(Automatic) \/ clock <= 2
  /\ Cardinality({c \in Challenges : challenge[c].st \notin {"none", "open"}}) <= 2
=============================================================================
