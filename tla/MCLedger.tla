------------------------------ MODULE MCLedger ------------------------------
(* Instances of Ledger for TLC. *)
EXTENDS Ledger, TLC

CONSTANTS i1, i2, s1, s2, a1, a2

Kind == (i1 :> "INCOME") @@ (i2 :> "INCOME")
        @@ (s1 :> "TRANSFER") @@ (s2 :> "ADJUSTMENT")

\* A planned income, a transfer made, an adjustment either way.
SomeDrafts ==
  { [st |-> "PENDING", type |-> "INCOME", cat |-> i1, acc |-> a1, dest |-> None,
     dir |-> None, deleted |-> FALSE],
    [st |-> "EFFECTIVE", type |-> "TRANSFER", cat |-> s1, acc |-> a1, dest |-> a2,
     dir |-> None, deleted |-> FALSE],
    [st |-> "EFFECTIVE", type |-> "ADJUSTMENT", cat |-> s2, acc |-> a1, dest |-> None,
     dir |-> "DECREASE", deleted |-> FALSE],
    [st |-> "EFFECTIVE", type |-> "ADJUSTMENT", cat |-> s2, acc |-> a2, dest |-> None,
     dir |-> "INCREASE", deleted |-> FALSE] }

Asked == [type |-> None, cat |-> None, acc |-> None, dest |-> None, dir |-> None]

\* Another category or a type with its category, a type whose category is
\* missing, a transfer.
SomePatches ==
  { [Asked EXCEPT !.type = "INCOME", !.cat = i2], [Asked EXCEPT !.type = "EXPENSE"],
    [Asked EXCEPT !.type = "TRANSFER", !.dest = a2] }

Symmetry == Permutations(Requests)

\* Bounds what goes on at once: two requests meet over the transaction while it is an income.
Bounded ==
  (\E t \in Transactions : Exists(t) /\ tx[t].type # "INCOME")
    => \E r \in Requests : req[r].tx = None
=============================================================================
