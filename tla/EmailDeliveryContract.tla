------------------------ MODULE EmailDeliveryContract ------------------------
(***************************************************************************)
(* What the notifications module promises to the modules that ask for an   *)
(* e-mail, without handlers, jobs, workers or attempts: an intention ends  *)
(* at most once, SENT only if the provider took the e-mail, CANCELED only  *)
(* behind its deadline, and neither CANCELED nor failed once the provider  *)
(* has taken it; the provider takes it once.  A message in doubt (a lost   *)
(* answer, a crash before the answer is stored, a job taken from a worker  *)
(* that lives) keeps its end but no longer promises how often it was sent. *)
(***************************************************************************)
EXTENDS Naturals

CONSTANTS
  Messages    \* idempotency keys

VARIABLES
  fate,       \* what became of a message
  accepted,   \* times the provider accepted it, while it was not in doubt
  doubted,    \* the messages in doubt
  late        \* the messages whose deadline has passed

vars == <<fate, accepted, doubted, late>>

Init ==
  /\ fate = [m \in Messages |-> "absent"]
  /\ accepted = [m \in Messages |-> 0]
  /\ doubted = {} /\ late = {}

\* The intention commits, once per idempotency key.
Intend(m) ==
  /\ fate[m] = "absent"
  /\ fate' = [fate EXCEPT ![m] = "intended"]
  /\ UNCHANGED <<accepted, doubted, late>>

\* The provider takes an e-mail that is still wanted, and not for the second time.
Accept(m) ==
  /\ fate[m] = "intended" /\ m \notin doubted /\ accepted[m] = 0
  /\ accepted' = [accepted EXCEPT ![m] = 1]
  /\ UNCHANGED <<fate, doubted, late>>

Doubt(m) ==
  /\ fate[m] # "absent"
  /\ doubted' = doubted \cup {m}
  /\ accepted' = [accepted EXCEPT ![m] = 0]
  /\ UNCHANGED <<fate, late>>

TurnLate(m) ==
  /\ fate[m] # "absent"
  /\ late' = late \cup {m}
  /\ UNCHANGED <<fate, accepted, doubted>>

End(m, as) ==
  /\ fate[m] = "intended"
  /\ fate' = [fate EXCEPT ![m] = as]
  /\ UNCHANGED <<accepted, doubted, late>>

MarkSent(m) == (accepted[m] = 1 \/ m \in doubted) /\ End(m, "sent")

MarkFailed(m) == accepted[m] = 0 /\ End(m, "failed")

Cancel(m) == m \in late /\ accepted[m] = 0 /\ End(m, "canceled")

Next ==
  \E m \in Messages :
    Intend(m) \/ Accept(m) \/ Doubt(m) \/ TurnLate(m)
      \/ MarkSent(m) \/ MarkFailed(m) \/ Cancel(m)

Spec == Init /\ [][Next]_vars
==============================================================================
