------------------------- MODULE MCAccountTemplates -------------------------
(* Instances of AccountTemplates for TLC. *)
EXTENDS AccountTemplates, TLC

CONSTANTS i1, x, foreign

OneProjection == i1 :> x

\* foreign has a colour the application does not know.
Sanitize == [look \in Looks \cup {NoLook} |-> IF look = foreign THEN NoLook ELSE look]

Symmetry == Permutations(Accounts) \cup Permutations(Customs) \cup Permutations(Processes)

Serving == {p \in Processes : req[p].pc # "idle"}
Running(kinds) == {p \in Processes : cmd[p].pc \in kinds}

\* Two accounts or two requests at once.
Crowded == Cardinality(Live) > 1 \/ Cardinality(Serving) > 1

\* Bounds what goes on at once: two requests meet over one account; a foreign colour is
\* written, and the catalogue switched, beside one account and one request; the logos,
\* which no account reads, change before any account exists.  Two requests find at most
\* one custom template.
Bounded ==
  /\ Crowded => Active = Institutional /\ \A a \in Live : row[a].look # foreign
  /\ Cardinality(Live) > 1 => Cardinality(Serving) <= 1 /\ Running({"seed"}) = {}
  /\ Cardinality(Serving) > 1 => Cardinality({t \in Customs : custom[t] # NoRow}) <= 1
  /\ \/ Live = {}
     \/ Running({"inspect", "publish"}) = {} /\ \A i \in Institutional : object[i] = "none"
=============================================================================
