--------------------------- MODULE OutboxContract ---------------------------
(***************************************************************************)
(* What the transactional outbox promises to the rest of the backend,      *)
(* without workers, leases or claims: a message saved with its domain      *)
(* transaction is delivered at least once to every handler of its event,   *)
(* or given up only after all its attempts were spent.                     *)
(***************************************************************************)
EXTENDS Naturals

CONSTANTS
  Messages,     \* the outbox rows a run may write
  Handlers,     \* the @OnEvent listeners of the event
  MaxAttempts   \* max_attempts of a row

VARIABLES
  fate,      \* what became of a message
  tries,     \* attempts spent on it
  effects    \* handlers that completed for it at least once

vars == <<fate, tries, effects>>

Fates == {"unsaved", "pending", "delivered", "abandoned"}

Init ==
  /\ fate = [m \in Messages |-> "unsaved"]
  /\ tries = [m \in Messages |-> 0]
  /\ effects = [m \in Messages |-> {}]

\* The domain transaction commits together with its message.
Save(m) ==
  /\ fate[m] = "unsaved"
  /\ fate' = [fate EXCEPT ![m] = "pending"]
  /\ UNCHANGED <<tries, effects>>

\* One more attempt begins on each message of S; never beyond the budget.
Try(S) ==
  /\ \A m \in S : fate[m] = "pending" /\ tries[m] < MaxAttempts
  /\ tries' = [m \in Messages |-> IF m \in S THEN tries[m] + 1 ELSE tries[m]]
  /\ UNCHANGED <<fate, effects>>

\* A handler completes, possibly not for the first time and possibly late.
Effect(m, h) ==
  /\ tries[m] > 0
  /\ effects' = [effects EXCEPT ![m] = @ \cup {h}]
  /\ UNCHANGED <<fate, tries>>

\* Delivered only when every handler has completed.
Deliver(m) ==
  /\ fate[m] = "pending"
  /\ effects[m] = Handlers
  /\ fate' = [fate EXCEPT ![m] = "delivered"]
  /\ UNCHANGED <<tries, effects>>

\* Abandoned only when no attempt is left.
Abandon(m) ==
  /\ fate[m] = "pending"
  /\ tries[m] = MaxAttempts
  /\ fate' = [fate EXCEPT ![m] = "abandoned"]
  /\ UNCHANGED <<tries, effects>>

Next ==
  \/ \E m \in Messages : Save(m) \/ Deliver(m) \/ Abandon(m)
  \/ \E S \in SUBSET Messages : Try(S)
  \/ \E m \in Messages, h \in Handlers : Effect(m, h)

Spec == Init /\ [][Next]_vars
=============================================================================
