------------------------ MODULE EmailDeliveryProofs ------------------------
(* Safety of the delivery of e-mails, for any number of messages, handlers, *)
(* executions, attempts and stalls, and the contract of the module.         *)
EXTENDS EmailDelivery, TLAPS

\* Whatever has a job, an execution, or an enqueue ahead has a row.
Presence ==
  /\ \A m \in Messages : job[m].state # "none" => status[m] # "ABSENT"
  /\ \A s \in Slots : ~At(s, "free") => Row(s) # "ABSENT"
  /\ \A h \in Handlers : handler[h].pc = "enqueue" => status[handler[h].msg] # "ABSENT"
  /\ \A m \in batch : status[m] # "ABSENT"

\* An execution ends normally only when nothing is left to send.
CompletingIsTerminal ==
  \A s \in Slots : At(s, "complete") => Row(s) \in Terminal

\* The only execution of a message beyond doubt is the one that owns its job.
SingleExecution ==
  \A s \in Slots :
    ~At(s, "free") /\ exec[s].msg \notin doubted
    => job[exec[s].msg].owner = s /\ job[exec[s].msg].state = "active"

\* On its way to the provider such a message stays PROCESSING.
SendingIsProcessing ==
  \A s \in Slots :
    /\ exec[s].pc \in {"revalidate", "dispatch", "sending", "accepted"}
    /\ exec[s].msg \notin doubted
    => Row(s) = "PROCESSING"

IInv == /\ TypeOK /\ Presence /\ CompletingIsTerminal /\ CompletedJobSettles
        /\ SingleExecution /\ SendingIsProcessing /\ HandedOverOnce

-----------------------------------------------------------------------------
(* What the queue makes of a job is a job.                                  *)
LEMMA JobTypes ==
  /\ NoJob \in Job /\ NewJob \in Job
  /\ \A state \in {"completed", "failed"} : Finished(state) \in Job
  /\ \A j \in Job : Retried(j) \in Job
  /\ \A j \in Job : Stalled(j) \in Job
<1>1. /\ Attempts \in Nat \ {0} /\ MaxStalls \in Nat
  BY LimitAssumption
<1>2. NoJob \in Job /\ NewJob \in Job
  BY <1>1 DEF NoJob, NewJob, Job, JobStates
<1>3. \A state \in {"completed", "failed"} : Finished(state) \in Job
  BY <1>1, <1>2 DEF Finished, Job, JobStates
<1>4. \A j \in Job : Stalled(j) \in Job
  <2> TAKE j \in Job
  <2>1. CASE j.stalls < MaxStalls
    <3>1. j.stalls + 1 \in 0..MaxStalls
      BY <1>1, <2>1 DEF Job
    <3> QED BY <2>1, <3>1 DEF Stalled, Job, JobStates
  <2>2. CASE ~(j.stalls < MaxStalls)
    BY <1>3, <2>2 DEF Stalled
  <2> QED BY <2>1, <2>2
<1>5. \A j \in Job : Retried(j) \in Job
  <2> TAKE j \in Job
  <2>1. CASE j.tries + 1 < Attempts
    <3>1. j.tries + 1 \in 0..Attempts
      BY <1>1, <2>1 DEF Job
    <3> QED BY <2>1, <3>1 DEF Retried, Job, JobStates
  <2>2. CASE ~(j.tries + 1 < Attempts)
    BY <1>3, <2>2 DEF Retried
  <2> QED BY <2>1, <2>2
<1> QED BY <1>2, <1>3, <1>4, <1>5

(* Adding a job keeps the type of the queue.                                *)
LEMMA AddType ==
  ASSUME TypeOK, NEW m \in Messages, Add(m)
  PROVE  job' \in [Messages -> Job]
  BY JobTypes DEF TypeOK, Add

(* An execution that moves to a phase is an execution.                      *)
LEMMA GotoType ==
  ASSUME TypeOK, NEW s \in Slots, NEW p \in Phases, Goto(s, p)
  PROVE  exec' \in [Slots -> [pc : Phases, msg : Messages]]
  BY DEF TypeOK, Goto

(* A handler that moves on is a handler.                                    *)
LEMMA HandlerType ==
  ASSUME TypeOK, NEW h \in Handlers, NEW p \in {"idle", "absent", "enqueue", "done"},
         HandlerGoto(h, p)
  PROVE  handler' \in [Handlers -> [pc : {"idle", "absent", "enqueue", "done"},
                                    msg : Messages]]
  BY DEF TypeOK, HandlerGoto

(* A row that takes a status of the entity keeps the type of the table.     *)
LEMMA RowType ==
  ASSUME TypeOK, NEW s \in Slots, NEW new \in Statuses, SetRow(s, new)
  PROVE  status' \in [Messages -> Statuses \cup {"ABSENT"}]
  BY DEF TypeOK, SetRow

(* The history keeps its type.                                              *)
LEMMA HistoryType ==
  ASSUME TypeOK, NEW m \in Messages, Doubt(m) \/ HandOver(m)
  PROVE  handedOver' \in [Messages -> 0..2] /\ doubted' \in SUBSET Messages
<1>1. CASE Doubt(m)
  BY <1>1 DEF TypeOK, Doubt
<1>2. CASE HandOver(m)
  BY <1>2 DEF TypeOK, HandOver
<1> QED BY <1>1, <1>2

(* Initial states satisfy the invariant.                                    *)
LEMMA InitIInv == Init => IInv
<1> SUFFICES ASSUME Init PROVE IInv
  OBVIOUS
<1>1. \A s \in Slots : At(s, "free")
  BY DEF Init, At
<1>2. TypeOK
  BY JobTypes DEF Init, TypeOK, Phases
<1>3. Presence /\ CompletingIsTerminal /\ SingleExecution
  BY <1>1 DEF Presence, CompletingIsTerminal, SingleExecution, Init, At, NoJob
<1>4. SendingIsProcessing
  BY <1>1 DEF SendingIsProcessing, At
<1>5. CompletedJobSettles /\ HandedOverOnce
  BY DEF CompletedJobSettles, HandedOverOnce, Init, NoJob
<1> QED BY <1>2, <1>3, <1>4, <1>5 DEF IInv

-----------------------------------------------------------------------------
(* What the actions do to one row, one execution, the history.              *)
LEMMA GotoEffect ==
  ASSUME TypeOK, NEW s \in Slots, NEW p, Goto(s, p)
  PROVE  /\ exec'[s].pc = p /\ exec'[s].msg = exec[s].msg
         /\ \A t \in Slots \ {s} : exec'[t] = exec[t]
  BY DEF TypeOK, Goto

LEMMA RowEffect ==
  ASSUME TypeOK, NEW s \in Slots, NEW new, SetRow(s, new)
  PROVE  /\ status'[exec[s].msg] = new
         /\ \A m \in Messages \ {exec[s].msg} : status'[m] = status[m]
  BY DEF TypeOK, SetRow

(* Every step keeps the types.                                              *)
LEMMA TypeStep == TypeOK /\ [Next]_vars => TypeOK'
<1> SUFFICES ASSUME TypeOK, [Next]_vars PROVE TypeOK'
  OBVIOUS
<1> USE DEF history, intentions
<1>1. ASSUME NEW h \in Handlers, FindExisting(h) PROVE TypeOK'
  BY <1>1, HandlerType DEF FindExisting, Resume, TypeOK
<1>2. ASSUME NEW h \in Handlers, Insert(h) PROVE TypeOK'
  <2>1. handler[h].msg \in Messages
    BY DEF TypeOK
  <2>2. created' \in Seq(Messages) /\ old \in 0..Len(created')
    BY <1>2, <2>1 DEF Insert, TypeOK
  <2>3. status' \in [Messages -> Statuses \cup {"ABSENT"}]
    BY <1>2, <2>1 DEF Insert, TypeOK, Statuses, CanBeProcessed, CanBeEnqueued
  <2> QED BY <1>2, <2>2, <2>3, HandlerType DEF Insert, TypeOK
<1>3. ASSUME NEW h \in Handlers, InsertConflicts(h) PROVE TypeOK'
  BY <1>3, HandlerType DEF InsertConflicts, Resume, TypeOK
<1>4. ASSUME NEW h \in Handlers, Enqueue(h) PROVE TypeOK'
  <2>1. handler[h].msg \in Messages
    BY DEF TypeOK
  <2> QED BY <1>4, <2>1, HandlerType, AddType DEF Enqueue, TypeOK
<1>5. ASSUME NEW h \in Handlers, HandlerFails(h) PROVE TypeOK'
  BY <1>5, HandlerType DEF HandlerFails, TypeOK
<1>6. ASSUME NEW s \in Slots, Prepare(s) PROVE TypeOK'
  <2>1. exec' \in [Slots -> [pc : Phases, msg : Messages]]
    BY <1>6, GotoType DEF Prepare, Phases
  <2>2. status' \in [Messages -> Statuses \cup {"ABSENT"}]
    BY <1>6, RowType DEF Prepare, TypeOK, Statuses, Terminal, CanBeProcessed
  <2> QED BY <1>6, <2>1, <2>2 DEF Prepare, TypeOK
<1>7. ASSUME NEW s \in Slots, Revalidate(s) PROVE TypeOK'
  <2>1. exec' \in [Slots -> [pc : Phases, msg : Messages]]
    BY <1>7, GotoType DEF Revalidate, Phases
  <2>2. status' \in [Messages -> Statuses \cup {"ABSENT"}]
    BY <1>7, RowType DEF Revalidate, TypeOK, Statuses, Terminal
  <2> QED BY <1>7, <2>1, <2>2 DEF Revalidate, TypeOK
<1>8. ASSUME NEW s \in Slots, Dispatch(s) PROVE TypeOK'
  BY <1>8, GotoType DEF Dispatch, TypeOK, Phases
<1>9. ASSUME NEW s \in Slots, Send(s) PROVE TypeOK'
  <2>1. exec' \in [Slots -> [pc : Phases, msg : Messages]]
    BY <1>9, GotoType DEF Send, Phases
  <2>2. handedOver' \in [Messages -> 0..2] /\ doubted' \in SUBSET Messages
    BY <1>9, HistoryType DEF Send, TypeOK
  <2> QED BY <1>9, <2>1, <2>2 DEF Send, TypeOK
<1>10. ASSUME NEW s \in Slots, MarkSent(s) PROVE TypeOK'
  <2>1. exec' \in [Slots -> [pc : Phases, msg : Messages]]
    BY <1>10, GotoType DEF MarkSent, Phases
  <2>2. status' \in [Messages -> Statuses \cup {"ABSENT"}]
    BY <1>10, RowType DEF MarkSent, TypeOK, Statuses, Terminal
  <2> QED BY <1>10, <2>1, <2>2 DEF MarkSent, TypeOK
<1>11. ASSUME NEW s \in Slots, MarkFailed(s) PROVE TypeOK'
  <2>1. exec' \in [Slots -> [pc : Phases, msg : Messages]]
    BY <1>11, GotoType DEF MarkFailed, AfterFailure, Phases
  <2>2. status' \in [Messages -> Statuses \cup {"ABSENT"}]
    BY <1>11, RowType DEF MarkFailed, TypeOK, Statuses, Terminal, CanBeProcessed, CanBeEnqueued
  <2> QED BY <1>11, <2>1, <2>2 DEF MarkFailed, TypeOK
<1>12. ASSUME NEW s \in Slots, TransactionFails(s) PROVE TypeOK'
  <2>1. exec' \in [Slots -> [pc : Phases, msg : Messages]]
    BY <1>12, GotoType DEF TransactionFails, Phases
  <2>2. handedOver' \in [Messages -> 0..2] /\ doubted' \in SUBSET Messages
    BY <1>12, HistoryType DEF TransactionFails, TypeOK
  <2> QED BY <1>12, <2>1, <2>2 DEF TransactionFails, TypeOK
<1>13. ASSUME NEW s \in Slots, Finish(s) PROVE TypeOK'
  <2>1. exec' \in [Slots -> [pc : Phases, msg : Messages]]
    BY <1>13, GotoType DEF Finish, Phases
  <2>2. job' \in [Messages -> Job]
    BY <1>13, JobTypes DEF Finish, TypeOK
  <2> QED BY <1>13, <2>1, <2>2 DEF Finish, TypeOK
<1>14. ASSUME NEW s \in Slots, Crash(s) PROVE TypeOK'
  <2>1. exec' \in [Slots -> [pc : Phases, msg : Messages]]
    BY <1>14, GotoType DEF Crash, Phases
  <2>2. handedOver' \in [Messages -> 0..2] /\ doubted' \in SUBSET Messages
    BY <1>14, HistoryType DEF Crash, TypeOK
  <2> QED BY <1>14, <2>1, <2>2 DEF Crash, TypeOK
<1>15. ASSUME NEW m \in Messages, NEW s \in Slots, Take(s, m) PROVE TypeOK'
  <2>1. job' \in [Messages -> Job]
    <3> DEFINE taken == [job[m] EXCEPT !.state = "active", !.owner = s]
    <3>0. job[m] \in Job
      BY DEF TypeOK
    <3>1. taken \in Job
      BY <3>0 DEF Job, JobStates
    <3>2. job' = [job EXCEPT ![m] = taken]
      BY <1>15 DEF Take, TypeOK
    <3> QED BY <3>1, <3>2 DEF TypeOK
  <2>2. exec' \in [Slots -> [pc : Phases, msg : Messages]]
    BY <1>15 DEF Take, TypeOK, Phases
  <2> QED BY <1>15, <2>1, <2>2 DEF Take, TypeOK
<1>16. ASSUME NEW m \in Messages, Stall(m) PROVE TypeOK'
  <2>1. job' \in [Messages -> Job]
    BY <1>16, JobTypes DEF Stall, TypeOK
  <2>2. handedOver' \in [Messages -> 0..2] /\ doubted' \in SUBSET Messages
    BY <1>16, HistoryType DEF Stall, TypeOK
  <2> QED BY <1>16, <2>1, <2>2 DEF Stall, TypeOK
<1>17. ASSUME NEW m \in Messages, Forget(m) PROVE TypeOK'
  BY <1>17, JobTypes DEF Forget, TypeOK
<1>18. ASSUME NEW m \in Messages, ReconcileAdd(m) PROVE TypeOK'
  BY <1>18, AddType DEF ReconcileAdd, TypeOK
<1>19. ASSUME NEW m \in Messages, ReconcileAddFails(m) PROVE TypeOK'
  BY <1>19 DEF ReconcileAddFails, TypeOK
<1>20. ASSUME NEW m \in Messages, DeadlinePasses(m) PROVE TypeOK'
  BY <1>20 DEF DeadlinePasses, TypeOK
<1>21. CASE FindReenqueuable
  <2>1. \A i \in Reenqueuable : created[i] \in Messages
    BY DEF TypeOK, Reenqueuable
  <2>2. batch' \in SUBSET Messages
    BY <1>21, <2>1 DEF FindReenqueuable
  <2> QED BY <1>21, <2>2 DEF FindReenqueuable, TypeOK
<1>22. CASE ReconcilerStops
  BY <1>22 DEF ReconcilerStops, TypeOK
<1>23. CASE Age
  BY <1>23 DEF Age, TypeOK
<1>24. CASE UNCHANGED vars
  BY <1>24 DEF vars, TypeOK
<1> QED BY <1>1, <1>2, <1>3, <1>4, <1>5, <1>6, <1>7, <1>8, <1>9, <1>10, <1>11, <1>12, <1>13,
          <1>14, <1>15, <1>16, <1>17, <1>18, <1>19, <1>20, <1>21, <1>22, <1>23, <1>24
       DEF Next, Handle, Execute, Queue, Reconcile

(* The types hold in every reachable state.                                 *)
THEOREM EmailDeliveryTypeOK == Spec => []TypeOK
<1>1. Init => TypeOK
  BY InitIInv DEF IInv
<1> QED BY <1>1, TypeStep, PTL DEF Spec

-----------------------------------------------------------------------------
(* A step that adds no more than a job, or not even that.                   *)
Quiet == UNCHANGED <<status, job, exec, doubted, handedOver>>
Adds(m) == status[m] # "ABSENT" /\ Add(m) /\ UNCHANGED <<status, exec, doubted, handedOver>>

LEMMA StepKinds ==
  ASSUME TypeOK, Presence, [Next]_vars
  PROVE  \/ Quiet
         \/ \E m \in Messages : Adds(m) \/ Stall(m) \/ Forget(m)
         \/ \E m \in Messages, s \in Slots : Take(s, m)
         \/ \E h \in Handlers : Insert(h)
         \/ \E s \in Slots : Execute(s) \/ Crash(s)
<1> USE DEF history, intentions
<1>1. ASSUME NEW h \in Handlers, Enqueue(h) PROVE Adds(handler[h].msg)
  BY <1>1 DEF Enqueue, Adds, Presence
<1>2. \A h \in Handlers : handler[h].msg \in Messages
  BY DEF TypeOK
<1>3. ASSUME NEW h \in Handlers, FindExisting(h) \/ InsertConflicts(h) \/ HandlerFails(h)
      PROVE  Quiet
  BY <1>3 DEF FindExisting, InsertConflicts, HandlerFails, Quiet
<1>4. ASSUME NEW m \in Messages, ReconcileAdd(m) PROVE Adds(m)
  BY <1>4 DEF ReconcileAdd, Adds, Presence
<1>5. ASSUME NEW m \in Messages, ReconcileAddFails(m) \/ DeadlinePasses(m) PROVE Quiet
  BY <1>5 DEF ReconcileAddFails, DeadlinePasses, Quiet
<1>6. CASE FindReenqueuable \/ ReconcilerStops \/ Age \/ UNCHANGED vars
  BY <1>6 DEF FindReenqueuable, ReconcilerStops, Age, Quiet, vars
<1> QED BY <1>1, <1>2, <1>3, <1>4, <1>5, <1>6 DEF Next, Handle, Queue, Reconcile

(* Only an insert, or an execution that finds its message not terminal,     *)
(* changes a row; no execution makes a row absent.                          *)
LEMMA RowChanges ==
  ASSUME TypeOK, Presence, [Next]_vars
  PROVE  \A m \in Messages :
           \/ status'[m] = status[m]
           \/ status[m] = "ABSENT" /\ status'[m] = "PENDING"
           \/ /\ status[m] \notin Terminal /\ status'[m] \in Statuses
              /\ \E s \in Slots : ~At(s, "free") /\ exec[s].msg = m
<1> USE DEF history, intentions
<1>1. ASSUME NEW h \in Handlers, Insert(h), NEW m \in Messages
      PROVE  status'[m] = status[m] \/ (status[m] = "ABSENT" /\ status'[m] = "PENDING")
  <2>1. /\ status' = [status EXCEPT ![handler[h].msg] = "PENDING"]
        /\ status[handler[h].msg] = "ABSENT"
    BY <1>1 DEF Insert
  <2>2. status \in [Messages -> Statuses \cup {"ABSENT"}]
    BY DEF TypeOK
  <2> QED BY <2>1, <2>2
<1>2. ASSUME NEW s \in Slots, Execute(s) \/ Crash(s), NEW m \in Messages,
             status'[m] # status[m]
      PROVE  /\ status[m] \notin Terminal /\ status'[m] \in Statuses
             /\ ~At(s, "free") /\ exec[s].msg = m
  <2>1. CASE Prepare(s)
    BY <1>2, <2>1, RowEffect
       DEF Prepare, Row, At, Statuses, Terminal, CanBeProcessed, CanBeEnqueued
  <2>2. CASE Revalidate(s)
    BY <1>2, <2>2, RowEffect
       DEF Revalidate, Row, At, Statuses, Terminal, CanBeProcessed, CanBeEnqueued
  <2>3. CASE MarkSent(s)
    BY <1>2, <2>3, RowEffect DEF MarkSent, Row, At, Statuses, Terminal
  <2>4. CASE MarkFailed(s)
    BY <1>2, <2>4, RowEffect
       DEF MarkFailed, Row, At, Statuses, Terminal, CanBeProcessed, CanBeEnqueued
  <2>5. CASE Dispatch(s) \/ Send(s) \/ TransactionFails(s) \/ Finish(s) \/ Crash(s)
    BY <1>2, <2>5 DEF Dispatch, Send, TransactionFails, Finish, Crash
  <2> QED BY <1>2, <2>1, <2>2, <2>3, <2>4, <2>5 DEF Execute
<1>3. ASSUME NEW m \in Messages, Adds(m) \/ Stall(m) \/ Forget(m) PROVE UNCHANGED status
  BY <1>3 DEF Adds, Stall, Forget
<1>4. ASSUME NEW m \in Messages, NEW s \in Slots, Take(s, m) PROVE UNCHANGED status
  BY <1>4 DEF Take
<1>5. CASE Quiet
  BY <1>5 DEF Quiet
<1> QED BY <1>1, <1>2, <1>3, <1>4, <1>5, StepKinds

(* A status that ends a message stays, whatever happens.                    *)
LEMMA TerminalStays ==
  ASSUME TypeOK, Presence, [Next]_vars, NEW m \in Messages, status[m] \in Terminal
  PROVE  status'[m] = status[m]
<1>1. status[m] # "ABSENT"
  BY DEF Terminal
<1> QED BY <1>1, RowChanges

(* A row that exists is never removed.                                      *)
LEMMA RowStays ==
  ASSUME TypeOK, Presence, [Next]_vars, NEW m \in Messages, status[m] # "ABSENT"
  PROVE  status'[m] # "ABSENT"
<1>1. "ABSENT" \notin Statuses
  BY DEF Statuses, Terminal, CanBeProcessed, CanBeEnqueued
<1> QED BY <1>1, RowChanges

-----------------------------------------------------------------------------
(* Jobs, executions and enqueues only ever concern messages that have a row. *)
LEMMA PresenceStep == TypeOK /\ Presence /\ [Next]_vars => Presence'
<1> SUFFICES ASSUME TypeOK, Presence, [Next]_vars PROVE Presence'
  OBVIOUS
<1> USE DEF history, intentions
<1> DEFINE Present(m) == status[m] # "ABSENT"
           HasJob(m) == job[m].state # "none"
<1>1. \A m \in Messages : Present(m) => status'[m] # "ABSENT"
  BY RowStays
<1>2. ASSUME NEW m \in Messages, job'[m].state # "none" PROVE HasJob(m) \/ Present(m)
  <2>1. ASSUME NEW n \in Messages, Adds(n) PROVE HasJob(m) \/ Present(m)
    BY <1>2, <2>1 DEF Adds, Add, TypeOK
  <2>2. ASSUME NEW n \in Messages, Stall(n) PROVE HasJob(m)
    BY <1>2, <2>2 DEF Stall, TypeOK
  <2>3. ASSUME NEW n \in Messages, Forget(n) PROVE HasJob(m)
    BY <1>2, <2>3 DEF Forget, TypeOK, NoJob
  <2>4. ASSUME NEW n \in Messages, NEW s \in Slots, Take(s, n) PROVE HasJob(m)
    BY <1>2, <2>4 DEF Take, TypeOK
  <2>5. ASSUME NEW s \in Slots, Execute(s) \/ Crash(s) PROVE HasJob(m) \/ Present(m)
    <3>1. CASE Finish(s)
      <4>1. CASE m = exec[s].msg
        BY <3>1, <4>1 DEF Finish, Presence, Row, At
      <4>2. CASE m # exec[s].msg
        BY <3>1, <4>2, <1>2 DEF Finish, TypeOK
      <4> QED BY <4>1, <4>2
    <3>2. CASE ~Finish(s)
      BY <1>2, <2>5, <3>2
         DEF Execute, Prepare, Revalidate, Dispatch, Send, MarkSent, MarkFailed,
             TransactionFails, Crash
    <3> QED BY <3>1, <3>2
  <2>6. ASSUME NEW h \in Handlers, Insert(h) PROVE HasJob(m)
    BY <1>2, <2>6 DEF Insert
  <2>7. CASE Quiet
    BY <1>2, <2>7 DEF Quiet
  <2> QED BY <2>1, <2>2, <2>3, <2>4, <2>5, <2>6, <2>7, StepKinds
<1>3. \A m \in Messages : job'[m].state # "none" => status'[m] # "ABSENT"
  BY <1>1, <1>2 DEF Presence
<1>4. \A s \in Slots : ~At(s, "free")' => Row(s)' # "ABSENT"
  <2>1. ASSUME NEW s \in Slots, ~At(s, "free")'
        PROVE  exec'[s].msg \in Messages /\ Present(exec'[s].msg)
    <3>1. exec'[s].msg \in Messages
      BY TypeStep DEF TypeOK
    <3>2. CASE exec'[s] = exec[s]
      BY <2>1, <3>1, <3>2 DEF Presence, At, Row
    <3>3. ASSUME NEW t \in Slots, NEW m \in Messages, Take(t, m)
          PROVE  exec'[s] = exec[s] \/ (exec'[s].msg = m /\ Present(m))
      BY <3>3 DEF Take, TypeOK, Presence
    <3>4. ASSUME NEW t \in Slots, Execute(t) \/ Crash(t)
          PROVE  exec'[s] = exec[s] \/ (exec'[s].msg = exec[s].msg /\ ~At(s, "free"))
      <4>1. ~At(t, "free") /\ \E p \in Phases : Goto(t, p)
        BY <3>4 DEF Execute, Prepare, Revalidate, Dispatch, Send, MarkSent, MarkFailed,
                    AfterFailure, TransactionFails, Finish, Crash, At, Phases
      <4> QED BY <4>1, GotoEffect
    <3>5. CASE UNCHANGED exec
      BY <3>2, <3>5
    <3>6. \A m \in Messages : Adds(m) \/ Stall(m) \/ Forget(m) => UNCHANGED exec
      BY DEF Adds, Stall, Forget
    <3>7. (\E h \in Handlers : Insert(h)) \/ Quiet => UNCHANGED exec
      BY DEF Insert, Quiet
    <3>8. ~At(s, "free") => Present(exec[s].msg)
      BY DEF Presence, Row
    <3> QED BY <3>1, <3>2, <3>3, <3>4, <3>5, <3>6, <3>7, <3>8, StepKinds
  <2> QED BY <2>1, <1>1 DEF Row
<1>5. ASSUME NEW h \in Handlers, handler'[h].pc = "enqueue"
      PROVE  status'[handler'[h].msg] # "ABSENT"
  <2>1. /\ handler'[h].msg \in Messages
        /\ handler \in [Handlers -> [pc : {"idle", "absent", "enqueue", "done"},
                                     msg : Messages]]
    BY TypeStep DEF TypeOK
  <2>2. CASE handler'[h] = handler[h]
    BY <1>5, <2>1, <2>2, <1>1 DEF Presence
  <2>3. ASSUME NEW g \in Handlers, FindExisting(g) \/ InsertConflicts(g)
        PROVE  handler'[h] = handler[h] \/ Present(handler'[h].msg)
    <3>1. CASE g = h
      <4>1. PICK p \in {"absent", "enqueue", "done"} :
              HandlerGoto(h, p) /\ (p = "enqueue" => status[handler[h].msg] \in CanBeEnqueued)
        BY <2>3, <3>1 DEF FindExisting, InsertConflicts, Resume
      <4>2. handler'[h].msg = handler[h].msg /\ p = "enqueue"
        BY <4>1, <2>1, <1>5 DEF HandlerGoto
      <4> QED BY <4>1, <4>2 DEF CanBeEnqueued
    <3>2. CASE g # h
      BY <2>1, <2>3, <3>2 DEF FindExisting, InsertConflicts, Resume, HandlerGoto
    <3> QED BY <3>1, <3>2
  <2>4. ASSUME NEW g \in Handlers, Insert(g)
        PROVE  handler'[h] = handler[h] \/ status'[handler'[h].msg] # "ABSENT"
    <3>1. CASE g = h
      <4>1. handler'[h].msg = handler[h].msg /\ handler[h].msg \in Messages
        BY <2>1, <2>4, <3>1 DEF Insert, HandlerGoto
      <4>2. status' = [status EXCEPT ![handler[h].msg] = "PENDING"]
        BY <2>4, <3>1 DEF Insert
      <4> QED BY <4>1, <4>2 DEF TypeOK
    <3>2. CASE g # h
      BY <2>1, <2>4, <3>2 DEF Insert, HandlerGoto
    <3> QED BY <3>1, <3>2
  <2>5. ASSUME NEW g \in Handlers, Enqueue(g) \/ HandlerFails(g)
        PROVE  handler'[h] = handler[h]
    BY <1>5, <2>1, <2>5 DEF Enqueue, HandlerFails, HandlerGoto
  <2>6. ASSUME NEW s \in Slots, Execute(s) \/ Crash(s) PROVE handler'[h] = handler[h]
    BY <2>6 DEF Execute, Prepare, Revalidate, Dispatch, Send, MarkSent, MarkFailed,
                TransactionFails, Finish, Crash
  <2>7. ASSUME NEW m \in Messages, Queue(m) \/ Reconcile(m) \/ DeadlinePasses(m)
        PROVE  handler'[h] = handler[h]
    BY <2>7 DEF Queue, Take, Stall, Forget, Reconcile, ReconcileAdd, ReconcileAddFails,
                DeadlinePasses
  <2>8. FindReenqueuable \/ ReconcilerStops \/ Age \/ UNCHANGED vars
        => handler'[h] = handler[h]
    BY DEF FindReenqueuable, ReconcilerStops, Age, vars
  <2>9. \/ \E g \in Handlers : Handle(g)
        \/ handler'[h] = handler[h]
    BY <2>6, <2>7, <2>8 DEF Next
  <2>10. ASSUME NEW g \in Handlers, Handle(g)
         PROVE  \/ handler'[h] = handler[h]
                \/ Present(handler'[h].msg)
                \/ status'[handler'[h].msg] # "ABSENT"
    BY <2>3, <2>4, <2>5, <2>10 DEF Handle
  <2> QED BY <2>1, <2>2, <2>9, <2>10, <1>1
<1>6. ASSUME NEW m \in batch' PROVE status'[m] # "ABSENT"
  <2>1. m \in Messages
    BY TypeStep DEF TypeOK
  <2>2. CASE FindReenqueuable
    <3>1. status[m] \in CanBeEnqueued
      BY <2>2 DEF FindReenqueuable, Reenqueuable
    <3> QED BY <2>1, <3>1, <1>1 DEF CanBeEnqueued
  <2>3. CASE m \in batch
    BY <2>1, <2>3, <1>1 DEF Presence
  <2>4. ASSUME NEW h \in Handlers, Handle(h) PROVE m \in batch
    BY <2>4 DEF Handle, FindExisting, Insert, InsertConflicts, Enqueue, HandlerFails
  <2>5. ASSUME NEW s \in Slots, Execute(s) \/ Crash(s) PROVE m \in batch
    BY <2>5 DEF Execute, Prepare, Revalidate, Dispatch, Send, MarkSent, MarkFailed,
                TransactionFails, Finish, Crash
  <2>6. ASSUME NEW n \in Messages, Queue(n) \/ Reconcile(n) \/ DeadlinePasses(n)
        PROVE  m \in batch
    BY <2>6 DEF Queue, Take, Stall, Forget, Reconcile, ReconcileAdd, ReconcileAddFails,
                DeadlinePasses
  <2>7. ReconcilerStops \/ Age \/ UNCHANGED vars => m \in batch
    BY DEF ReconcilerStops, Age, vars
  <2> QED BY <2>2, <2>3, <2>4, <2>5, <2>6, <2>7 DEF Next
<1> QED BY <1>3, <1>4, <1>5, <1>6 DEF Presence

(* Presence holds in every reachable state.                                 *)
LEMMA EmailDeliveryPresence == Spec => [](TypeOK /\ Presence)
<1>1. Init => TypeOK /\ Presence
  BY InitIInv DEF IInv
<1>2. TypeOK /\ Presence /\ [Next]_vars => (TypeOK /\ Presence)'
  BY TypeStep, PresenceStep
<1> QED BY <1>1, <1>2, PTL DEF Spec

(* Sent, failed for good or canceled is final.                              *)
THEOREM EmailDeliveryTerminalIsFinal == Spec => TerminalIsFinal
<1>1. TypeOK /\ Presence /\ [Next]_vars
      => [\A m \in Messages : status[m] \in Terminal => status'[m] = status[m]]_vars
  BY TerminalStays
<1> QED BY <1>1, EmailDeliveryPresence, PTL DEF Spec, TerminalIsFinal

-----------------------------------------------------------------------------
(* An execution that ends normally, and so a completed job, has settled its *)
(* message.                                                                 *)
LEMMA CompletedStep ==
  TypeOK /\ Presence /\ CompletingIsTerminal /\ CompletedJobSettles /\ [Next]_vars
  => CompletingIsTerminal' /\ CompletedJobSettles'
<1> SUFFICES ASSUME TypeOK, Presence, CompletingIsTerminal, CompletedJobSettles, [Next]_vars
             PROVE  CompletingIsTerminal' /\ CompletedJobSettles'
  OBVIOUS
<1> USE DEF history, intentions
<1>0. /\ \A s \in Slots : exec[s].msg \in Messages
      /\ job \in [Messages -> Job]
  BY DEF TypeOK
<1>1. ASSUME NEW s \in Slots, exec'[s].pc = "complete"
      PROVE  status'[exec'[s].msg] \in Terminal
  <2>1. CASE exec'[s] = exec[s]
    BY <1>0, <1>1, <2>1, TerminalStays DEF CompletingIsTerminal, At, Row
  <2>2. CASE Prepare(s) \/ Revalidate(s)
    <3>1. /\ Row(s) \notin CanBeProcessed /\ Row(s) # "ABSENT"
          /\ exec'[s].msg = exec[s].msg
      BY <1>1, <2>2, GotoEffect DEF Prepare, Revalidate, Presence, At
    <3>2. Row(s) \in Terminal
      BY <1>0, <3>1 DEF Row, TypeOK, Statuses
    <3> QED BY <1>0, <3>1, <3>2, TerminalStays DEF Row
  <2>3. CASE MarkSent(s)
    BY <1>1, <2>3, GotoEffect, RowEffect DEF MarkSent, Terminal
  <2>4. CASE MarkFailed(s)
    <3>1. At(s, "failedPermanent") /\ exec'[s].msg = exec[s].msg
      BY <1>1, <2>4, GotoEffect DEF MarkFailed, AfterFailure
    <3>2. CASE Row(s) \in Terminal
      BY <1>0, <3>1, <3>2, TerminalStays DEF Row
    <3>3. CASE Row(s) \notin Terminal
      BY <2>4, <3>1, <3>3, RowEffect DEF MarkFailed, Terminal, At
    <3> QED BY <3>2, <3>3
  <2>5. CASE Dispatch(s) \/ Send(s) \/ TransactionFails(s) \/ Finish(s) \/ Crash(s)
    BY <1>1, <2>5, GotoEffect DEF Dispatch, Send, TransactionFails, Finish, Crash
  <2>6. ASSUME NEW t \in Slots, Execute(t) \/ Crash(t), t # s PROVE exec'[s] = exec[s]
    <3>1. \E p \in Phases : Goto(t, p)
      BY <2>6 DEF Execute, Prepare, Revalidate, Dispatch, Send, MarkSent, MarkFailed,
                  AfterFailure, TransactionFails, Finish, Crash, Phases
    <3> QED BY <2>6, <3>1, GotoEffect
  <2>7. ASSUME NEW m \in Messages, NEW t \in Slots, Take(t, m) PROVE exec'[s] = exec[s]
    BY <1>1, <2>7 DEF Take, TypeOK
  <2>8. ASSUME NEW m \in Messages, Adds(m) \/ Stall(m) \/ Forget(m) PROVE exec'[s] = exec[s]
    BY <2>8 DEF Adds, Stall, Forget
  <2>9. (\E h \in Handlers : Insert(h)) \/ Quiet => exec'[s] = exec[s]
    BY DEF Insert, Quiet
  <2>10. ASSUME NEW t \in Slots, Execute(t) \/ Crash(t)
         PROVE  exec'[s] = exec[s] \/ Execute(s) \/ Crash(s)
    BY <2>6, <2>10
  <2>11. exec'[s] = exec[s] \/ Execute(s) \/ Crash(s)
    BY <2>7, <2>8, <2>9, <2>10, StepKinds
  <2> QED BY <2>1, <2>2, <2>3, <2>4, <2>5, <2>11 DEF Execute
<1>2. ASSUME NEW m \in Messages, job'[m].state = "completed"
      PROVE  status'[m] \in Terminal
  <2>1. CASE job[m].state = "completed"
    BY <2>1, TerminalStays DEF CompletedJobSettles
  <2>2. ASSUME NEW s \in Slots, Finish(s) PROVE job[m].state = "completed" \/ status[m] \in Terminal
    <3>1. CASE job'[m] = job[m]
      BY <1>2, <3>1
    <3>2. CASE job'[m] # job[m]
      <4>1. m = exec[s].msg
        BY <1>0, <2>2, <3>2 DEF Finish
      <4>2. CASE At(s, "retry")
        <5>1. job'[m] = Retried(job[m])
          <6>1. job' = [job EXCEPT ![m] = Retried(job[m])]
            BY <2>2, <3>2, <4>1, <4>2 DEF Finish
          <6> QED BY <1>0, <6>1
        <5>2. job[m] \in Job
          BY <1>0
        <5>3. Retried(job[m]).state \in {"waiting", "failed"}
          BY <5>2 DEF Retried, Finished, NoJob, Job
        <5> QED BY <1>2, <5>1, <5>3
      <4>3. CASE At(s, "complete")
        BY <4>1, <4>3 DEF CompletingIsTerminal, Row
      <4>4. CASE At(s, "fail")
        BY <1>0, <1>2, <2>2, <3>2, <4>1, <4>4 DEF Finish, Finished, NoJob, At
      <4> QED BY <2>2, <4>2, <4>3, <4>4 DEF Finish
    <3> QED BY <3>1, <3>2
  <2>3. ASSUME NEW s \in Slots, Execute(s) \/ Crash(s), ~Finish(s) PROVE job' = job
    BY <2>3 DEF Execute, Prepare, Revalidate, Dispatch, Send, MarkSent, MarkFailed,
                TransactionFails, Crash
  <2>4. ASSUME NEW n \in Messages, NEW s \in Slots, Take(s, n) PROVE job[m].state = "completed"
    BY <1>0, <1>2, <2>4 DEF Take
  <2>5. ASSUME NEW n \in Messages, Adds(n) PROVE job[m].state = "completed"
    BY <1>0, <1>2, <2>5 DEF Adds, Add, NewJob, NoJob
  <2>6. ASSUME NEW n \in Messages, Stall(n) PROVE job[m].state = "completed"
    BY <1>0, <1>2, <2>6 DEF Stall, Stalled, Finished, NoJob
  <2>7. ASSUME NEW n \in Messages, Forget(n) PROVE job[m].state = "completed"
    BY <1>0, <1>2, <2>7 DEF Forget, NoJob
  <2>8. (\E h \in Handlers : Insert(h)) \/ Quiet => job' = job
    BY DEF Insert, Quiet
  <2>9. job[m].state = "completed" \/ status[m] \in Terminal
    BY <1>2, <2>2, <2>3, <2>4, <2>5, <2>6, <2>7, <2>8, StepKinds
  <2> QED BY <2>1, <2>9, TerminalStays
<1> QED BY <1>1, <1>2 DEF CompletingIsTerminal, CompletedJobSettles, At, Row

(* A completed job leaves nothing to send.                                  *)
THEOREM EmailDeliveryCompletedJobSettles == Spec => []CompletedJobSettles
<1> DEFINE I == TypeOK /\ Presence /\ CompletingIsTerminal /\ CompletedJobSettles
<1>1. Init => I
  BY InitIInv DEF IInv
<1>2. I /\ [Next]_vars => I'
  BY TypeStep, PresenceStep, CompletedStep
<1> QED BY <1>1, <1>2, PTL DEF Spec

-----------------------------------------------------------------------------
(* No call of the provider starts after the deadline: without a deadline    *)
(* there is none, with one the last look at the clock comes just before it. *)
THEOREM EmailDeliveryDispatchBeforeDeadline == Spec => DispatchBeforeDeadline
<1> DEFINE Before == \A s \in Slots : ~At(s, "sending") /\ exec'[s].pc = "sending"
                                      => exec'[s].msg \notin expired
<1>1. ASSUME TypeOK, Presence, [Next]_vars, NEW s \in Slots,
             ~At(s, "sending"), exec'[s].pc = "sending"
      PROVE  exec'[s].msg \notin expired
  <2> USE DEF history, intentions
  <2>1. ASSUME NEW t \in Slots, Execute(t) \/ Crash(t), t # s PROVE exec'[s] = exec[s]
    <3>1. \E p \in Phases : Goto(t, p)
      BY <2>1 DEF Execute, Prepare, Revalidate, Dispatch, Send, MarkSent, MarkFailed,
                  AfterFailure, TransactionFails, Finish, Crash, Phases
    <3> QED BY <1>1, <2>1, <3>1, GotoEffect
  <2>2. CASE Prepare(s) \/ Dispatch(s)
    BY <1>1, <2>2, GotoEffect DEF Prepare, Dispatch, Due
  <2>3. CASE \/ Revalidate(s) \/ Send(s) \/ MarkSent(s) \/ MarkFailed(s)
             \/ TransactionFails(s) \/ Finish(s) \/ Crash(s)
    BY <1>1, <2>3, GotoEffect DEF Revalidate, Send, MarkSent, MarkFailed, AfterFailure,
                                  TransactionFails, Finish, Crash
  <2>4. ASSUME NEW m \in Messages, NEW t \in Slots, Take(t, m) PROVE exec'[s] = exec[s]
    BY <1>1, <2>4 DEF Take, TypeOK
  <2>5. ASSUME NEW m \in Messages, Adds(m) \/ Stall(m) \/ Forget(m) PROVE exec'[s] = exec[s]
    BY <2>5 DEF Adds, Stall, Forget
  <2>6. (\E h \in Handlers : Insert(h)) \/ Quiet => exec'[s] = exec[s]
    BY DEF Insert, Quiet
  <2>7. exec'[s] # exec[s]
    BY <1>1 DEF At
  <2>8. Execute(s) \/ Crash(s)
    BY <1>1, <2>1, <2>4, <2>5, <2>6, <2>7, StepKinds
  <2> QED BY <2>2, <2>3, <2>8 DEF Execute
<1>2. TypeOK /\ Presence /\ [Next]_vars => [Before]_vars
  BY <1>1
<1> QED BY <1>2, EmailDeliveryPresence, PTL DEF Spec, DispatchBeforeDeadline

-----------------------------------------------------------------------------
(* What an execution changes: its own phase, never the other executions,    *)
(* never the job unless it finishes, and it doubts its own message at most. *)
LEMMA ExecutionFrame ==
  ASSUME TypeOK, NEW s \in Slots, Execute(s) \/ Crash(s)
  PROVE  /\ ~At(s, "free")
         /\ exec'[s].msg = exec[s].msg
         /\ \A t \in Slots \ {s} : exec'[t] = exec[t]
         /\ \A m \in Messages \ {exec[s].msg} :
              /\ job'[m] = job[m] /\ status'[m] = status[m]
              /\ m \in doubted' <=> m \in doubted
              /\ handedOver'[m] = handedOver[m]
         /\ doubted \subseteq doubted'
         /\ ~Finish(s) => job' = job
<1> USE DEF history, intentions
<1>1. ~At(s, "free") /\ \E p \in Phases : Goto(s, p)
  BY DEF Execute, Prepare, Revalidate, Dispatch, Send, MarkSent, MarkFailed,
         AfterFailure, TransactionFails, Finish, Crash, At, Phases
<1>2. /\ exec'[s].msg = exec[s].msg
      /\ \A t \in Slots \ {s} : exec'[t] = exec[t]
  BY <1>1, GotoEffect
<1>3. ASSUME NEW m \in Messages \ {exec[s].msg} PROVE status'[m] = status[m]
  BY <1>3, RowEffect
     DEF Execute, Prepare, Revalidate, Dispatch, Send, MarkSent, MarkFailed,
         TransactionFails, Finish, Crash
<1>4. ASSUME NEW m \in Messages \ {exec[s].msg} PROVE job'[m] = job[m]
  BY DEF Execute, Prepare, Revalidate, Dispatch, Send, MarkSent, MarkFailed,
         TransactionFails, Finish, Crash, TypeOK
<1>5. ~Finish(s) => job' = job
  BY DEF Execute, Prepare, Revalidate, Dispatch, Send, MarkSent, MarkFailed,
         TransactionFails, Crash
<1>6. UNCHANGED history \/ HandOver(exec[s].msg) \/ Doubt(exec[s].msg)
  BY DEF Execute, Prepare, Revalidate, Dispatch, Send, MarkSent, MarkFailed,
         TransactionFails, Finish, Crash
<1>7. /\ \A m \in Messages \ {exec[s].msg} : /\ m \in doubted' <=> m \in doubted
                                             /\ handedOver'[m] = handedOver[m]
      /\ doubted \subseteq doubted'
  BY <1>6 DEF HandOver, Doubt, TypeOK
<1> QED BY <1>1, <1>2, <1>3, <1>4, <1>5, <1>7

(* A message beyond doubt has one execution, the owner of its job.          *)
LEMMA SingleStep ==
  TypeOK /\ Presence /\ SingleExecution /\ [Next]_vars => SingleExecution'
<1> SUFFICES ASSUME TypeOK, Presence, SingleExecution, [Next]_vars,
                    NEW s \in Slots, exec'[s].pc # "free", exec'[s].msg \notin doubted'
             PROVE  job'[exec'[s].msg].owner = s /\ job'[exec'[s].msg].state = "active"
  BY DEF SingleExecution, At
<1> USE DEF history, intentions
<1> DEFINE n == exec'[s].msg
           Sole == job[n].owner = s /\ job[n].state = "active"
<1>0. /\ job \in [Messages -> Job]
      /\ exec \in [Slots -> [pc : Phases, msg : Messages]]
  BY DEF TypeOK
<1>1. ASSUME exec'[s] = exec[s], n \notin doubted PROVE Sole /\ ~At(s, "free") /\ exec[s].msg = n
  BY <1>1 DEF SingleExecution, At
<1>2. ASSUME NEW t \in Slots, Execute(t) \/ Crash(t)
      PROVE  job'[n].owner = s /\ job'[n].state = "active"
  <2>1. n \in Messages /\ n \notin doubted /\ ~At(s, "free") /\ exec[s].msg = n
    BY <1>0, <1>2, ExecutionFrame DEF At
  <2>2. Sole
    BY <2>1 DEF SingleExecution
  <2>3. CASE job'[n] = job[n]
    BY <2>2, <2>3
  <2>4. CASE job'[n] # job[n]
    <3>1. Finish(t) /\ exec[t].msg = n
      BY <1>2, <2>1, <2>4, ExecutionFrame
    <3>2. job[n].owner = t
      BY <2>4, <3>1 DEF Finish, Owns
    <3>3. exec'[s].pc = "free"
      BY <2>2, <3>1, <3>2, GotoEffect DEF Finish
    <3> QED BY <3>3
  <2> QED BY <2>3, <2>4
<1>3. ASSUME NEW m \in Messages, NEW t \in Slots, Take(t, m)
      PROVE  job'[n].owner = s /\ job'[n].state = "active"
  <2>1. CASE t = s
    BY <1>0, <1>3, <2>1 DEF Take
  <2>2. CASE t # s
    <3>1. exec'[s] = exec[s] /\ n \notin doubted
      BY <1>0, <1>3, <2>2 DEF Take
    <3>2. n # m
      BY <1>1, <1>3, <3>1 DEF Take
    <3> QED BY <1>0, <1>1, <1>3, <3>1, <3>2 DEF Take
  <2> QED BY <2>1, <2>2
<1>4. ASSUME NEW m \in Messages, Adds(m) PROVE job'[n].owner = s /\ job'[n].state = "active"
  <2>1. exec'[s] = exec[s] /\ n \notin doubted
    BY <1>4 DEF Adds
  <2>2. job'[n] = job[n]
    BY <1>0, <1>1, <1>4, <2>1 DEF Adds, Add
  <2> QED BY <1>1, <2>1, <2>2
<1>5. ASSUME NEW m \in Messages, Stall(m) PROVE job'[n].owner = s /\ job'[n].state = "active"
  <2>1. exec'[s] = exec[s] /\ n \notin doubted
    BY <1>5 DEF Stall, Doubt
  <2>2. n # m
    <3>1. SUFFICES ASSUME n = m PROVE FALSE
      OBVIOUS
    <3>2. Owns(job[m].owner, m)
      BY <1>1, <2>1, <3>1 DEF Owns
    <3>3. m \in doubted'
      BY <1>5, <3>2 DEF Stall, Orphan, Doubt
    <3> QED BY <3>1, <3>3
  <2> QED BY <1>0, <1>1, <1>5, <2>1, <2>2 DEF Stall
<1>6. ASSUME NEW m \in Messages, Forget(m) PROVE job'[n].owner = s /\ job'[n].state = "active"
  <2>1. exec'[s] = exec[s] /\ n \notin doubted
    BY <1>6 DEF Forget
  <2>2. n # m
    BY <1>1, <1>6, <2>1 DEF Forget
  <2> QED BY <1>0, <1>1, <1>6, <2>1, <2>2 DEF Forget
<1>7. CASE Quiet \/ \E h \in Handlers : Insert(h)
  BY <1>1, <1>7 DEF Quiet, Insert
<1> QED BY <1>2, <1>3, <1>4, <1>5, <1>6, <1>7, StepKinds

(* Beyond doubt, two executions never concern one message.                  *)
LEMMA SoleExecution ==
  ASSUME SingleExecution, NEW s \in Slots, NEW t \in Slots, ~At(s, "free"), ~At(t, "free"),
         exec[s].msg = exec[t].msg, exec[s].msg \notin doubted
  PROVE  s = t
  BY DEF SingleExecution

(* A message beyond doubt stays PROCESSING from Prepare to the provider's   *)
(* answer.                                                                  *)
LEMMA SendingStep ==
  TypeOK /\ Presence /\ SingleExecution /\ SendingIsProcessing /\ [Next]_vars
  => SendingIsProcessing'
<1> DEFINE OnTheWay == {"revalidate", "dispatch", "sending", "accepted"}
<1> SUFFICES ASSUME TypeOK, Presence, SingleExecution, SendingIsProcessing, [Next]_vars,
                    NEW s \in Slots, exec'[s].pc \in OnTheWay, exec'[s].msg \notin doubted'
             PROVE  status'[exec'[s].msg] = "PROCESSING"
  BY DEF SendingIsProcessing, Row
<1> USE DEF history, intentions
<1> DEFINE n == exec'[s].msg
<1>0. /\ exec \in [Slots -> [pc : Phases, msg : Messages]]
      /\ status \in [Messages -> Statuses \cup {"ABSENT"}]
  BY DEF TypeOK
<1>1. ASSUME exec'[s] = exec[s], n \notin doubted PROVE status[n] = "PROCESSING" /\ ~At(s, "free")
  BY <1>1 DEF SendingIsProcessing, Row, At
<1>2. ASSUME NEW t \in Slots, Execute(t) \/ Crash(t), t # s PROVE status'[n] = "PROCESSING"
  <2>1. exec'[s] = exec[s] /\ n \in Messages /\ n \notin doubted /\ ~At(t, "free")
    BY <1>0, <1>2, ExecutionFrame
  <2>2. exec[t].msg # n
    BY <1>1, <1>2, <2>1, SoleExecution
  <2>3. status'[n] = status[n]
    BY <1>2, <2>1, <2>2, ExecutionFrame
  <2> QED BY <1>1, <2>1, <2>3
<1>3. ASSUME Execute(s) \/ Crash(s) PROVE status'[n] = "PROCESSING"
  <2>1. n = exec[s].msg /\ n \in Messages /\ n \notin doubted
    BY <1>0, <1>3, ExecutionFrame
  <2>2. CASE Prepare(s)
    BY <2>1, <2>2, GotoEffect, RowEffect DEF Prepare
  <2>3. CASE Revalidate(s)
    BY <2>1, <2>3, GotoEffect DEF Revalidate, SendingIsProcessing, Row, At
  <2>4. CASE Dispatch(s) \/ Send(s)
    BY <2>1, <2>4, GotoEffect DEF Dispatch, Send, SendingIsProcessing, Row, At
  <2>5. CASE MarkSent(s) \/ MarkFailed(s) \/ TransactionFails(s) \/ Finish(s) \/ Crash(s)
    BY <2>1, <2>5, GotoEffect
       DEF MarkSent, MarkFailed, AfterFailure, TransactionFails, Finish, Crash
  <2> QED BY <1>3, <2>2, <2>3, <2>4, <2>5 DEF Execute
<1>4. ASSUME NEW m \in Messages, NEW t \in Slots, Take(t, m) PROVE status'[n] = "PROCESSING"
  <2>1. exec'[s] = exec[s] /\ n \notin doubted /\ status' = status
    BY <1>0, <1>4 DEF Take
  <2> QED BY <1>1, <2>1
<1>5. ASSUME NEW m \in Messages, Adds(m) \/ Stall(m) \/ Forget(m)
      PROVE  status'[n] = "PROCESSING"
  <2>1. exec'[s] = exec[s] /\ n \notin doubted /\ status' = status
    BY <1>5 DEF Adds, Stall, Doubt, Forget
  <2> QED BY <1>1, <2>1
<1>6. ASSUME NEW h \in Handlers, Insert(h) PROVE status'[n] = "PROCESSING"
  <2>1. exec'[s] = exec[s] /\ n \notin doubted /\ n \in Messages
    BY <1>0, <1>6 DEF Insert
  <2>2. status[n] = "PROCESSING" /\ n # handler[h].msg
    BY <1>1, <1>6, <2>1 DEF Insert
  <2> QED BY <1>0, <1>6, <2>1, <2>2 DEF Insert
<1>7. CASE Quiet
  BY <1>1, <1>7 DEF Quiet
<1> QED BY <1>2, <1>3, <1>4, <1>5, <1>6, <1>7, StepKinds

(* The provider accepts a message beyond doubt once, and it ends SENT.      *)
LEMMA HandedOverStep ==
  TypeOK /\ Presence /\ SingleExecution /\ SendingIsProcessing /\ HandedOverOnce /\ [Next]_vars
  => HandedOverOnce'
<1> DEFINE Accepting(m) == \E s \in Slots : exec[s].pc = "accepted" /\ exec[s].msg = m
<1> SUFFICES ASSUME TypeOK, Presence, SingleExecution, SendingIsProcessing, HandedOverOnce,
                    [Next]_vars, NEW m \in Messages, m \notin doubted'
             PROVE  /\ handedOver'[m] < 2
                    /\ handedOver'[m] = 1 => status'[m] = "SENT" \/ Accepting(m)'
  BY DEF HandedOverOnce, At
<1> USE DEF history, intentions
<1>0. /\ exec \in [Slots -> [pc : Phases, msg : Messages]]
      /\ status \in [Messages -> Statuses \cup {"ABSENT"}]
      /\ handedOver \in [Messages -> 0..2]
  BY DEF TypeOK
<1>1. ASSUME m \notin doubted
      PROVE  /\ handedOver[m] < 2
             /\ handedOver[m] = 1 => status[m] = "SENT" \/ Accepting(m)
  BY <1>1 DEF HandedOverOnce, At
<1>2. status[m] = "SENT" => status'[m] = "SENT"
  BY TerminalStays DEF Terminal
<1>3. ASSUME NEW t \in Slots, Execute(t) \/ Crash(t), exec[t].msg # m
      PROVE  /\ handedOver'[m] < 2
             /\ handedOver'[m] = 1 => status'[m] = "SENT" \/ Accepting(m)'
  <2>1. handedOver'[m] = handedOver[m] /\ m \notin doubted
    BY <1>3, ExecutionFrame
  <2>2. Accepting(m) => Accepting(m)'
    BY <1>3, ExecutionFrame
  <2> QED BY <1>1, <1>2, <2>1, <2>2
<1>4. ASSUME NEW t \in Slots, Execute(t) \/ Crash(t), exec[t].msg = m
      PROVE  /\ handedOver'[m] < 2
             /\ handedOver'[m] = 1 => status'[m] = "SENT" \/ Accepting(m)'
  <2>1. m \notin doubted /\ ~At(t, "free") /\ exec'[t].msg = m
    BY <1>4, ExecutionFrame
  <2>2. ASSUME NEW s \in Slots, exec[s].pc = "accepted", exec[s].msg = m PROVE s = t
    BY <1>4, <2>1, <2>2, SoleExecution DEF At
  <2>3. Accepting(m) => At(t, "accepted")
    BY <2>2 DEF At
  <2>4. CASE Send(t)
    <3>1. status[m] = "PROCESSING"
      BY <1>4, <2>1, <2>4 DEF Send, SendingIsProcessing, Row, At
    <3>2. handedOver[m] = 0
      BY <1>0, <1>1, <2>1, <2>3, <2>4, <3>1 DEF Send, At
    <3>3. CASE HandOver(m) /\ Goto(t, "accepted")
      <4>1. handedOver'[m] = 1
        BY <1>0, <2>1, <3>2, <3>3 DEF HandOver
      <4>2. Accepting(m)'
        BY <2>1, <3>3, GotoEffect
      <4> QED BY <4>1, <4>2
    <3>4. CASE UNCHANGED history
      BY <3>2, <3>4
    <3>5. ~Doubt(m)
      BY DEF Doubt
    <3> QED BY <1>4, <2>4, <3>3, <3>4, <3>5 DEF Send
  <2>5. CASE MarkSent(t)
    <3>1. status[m] = "PROCESSING"
      BY <1>4, <2>1, <2>5 DEF MarkSent, SendingIsProcessing, Row, At
    <3>2. status'[m] = "SENT"
      BY <1>4, <2>5, <3>1, RowEffect DEF MarkSent, Row, Terminal
    <3> QED BY <1>1, <2>1, <2>5, <3>2 DEF MarkSent
  <2>6. CASE TransactionFails(t) \/ Crash(t)
    <3>1. ~At(t, "accepted") /\ UNCHANGED history
      BY <1>4, <2>6 DEF TransactionFails, Crash, Doubt, At
    <3> QED BY <1>1, <1>2, <2>1, <2>3, <3>1
  <2>7. CASE Prepare(t) \/ Revalidate(t) \/ Dispatch(t) \/ MarkFailed(t) \/ Finish(t)
    <3>1. ~At(t, "accepted") /\ UNCHANGED history
      BY <2>7 DEF Prepare, Revalidate, Dispatch, MarkFailed, Finish, At
    <3> QED BY <1>1, <1>2, <2>1, <2>3, <3>1
  <2> QED BY <1>4, <2>4, <2>5, <2>6, <2>7 DEF Execute
<1>5. ASSUME UNCHANGED handedOver, m \notin doubted,
             \A s \in Slots : exec[s].pc = "accepted" => exec'[s] = exec[s]
      PROVE  /\ handedOver'[m] < 2
             /\ handedOver'[m] = 1 => status'[m] = "SENT" \/ Accepting(m)'
  BY <1>1, <1>2, <1>5
<1>6. ASSUME NEW n \in Messages, NEW t \in Slots, Take(t, n)
      PROVE  /\ UNCHANGED history
             /\ \A s \in Slots : exec[s].pc = "accepted" => exec'[s] = exec[s]
  BY <1>0, <1>6 DEF Take, At
<1>7. ASSUME NEW n \in Messages, Stall(n)
      PROVE  /\ handedOver'[m] < 2
             /\ handedOver'[m] = 1 => status'[m] = "SENT" \/ Accepting(m)'
  <2>1. m \notin doubted /\ handedOver'[m] = handedOver[m] /\ UNCHANGED exec
    BY <1>0, <1>7 DEF Stall, Doubt
  <2> QED BY <1>1, <1>2, <2>1
<1>8. ASSUME NEW n \in Messages, Adds(n) \/ Forget(n) PROVE UNCHANGED history /\ UNCHANGED exec
  BY <1>8 DEF Adds, Forget
<1>9. Quiet \/ (\E h \in Handlers : Insert(h)) => UNCHANGED history /\ UNCHANGED exec
  BY DEF Quiet, Insert
<1> HIDE DEF Accepting
<1> QED BY <1>3, <1>4, <1>5, <1>6, <1>7, <1>8, <1>9, StepKinds

(* Without a lost answer, a crash in between or a stalled worker, a message *)
(* is handed over once and then SENT.                                       *)
THEOREM EmailDeliveryHandedOverOnce == Spec => []HandedOverOnce
<1>1. Init => IInv
  BY InitIInv
<1>2. IInv /\ [Next]_vars => IInv'
  BY TypeStep, PresenceStep, CompletedStep, SingleStep, SendingStep, HandedOverStep DEF IInv
<1>3. IInv => HandedOverOnce
  BY DEF IInv
<1> QED BY <1>1, <1>2, <1>3, PTL DEF Spec

-----------------------------------------------------------------------------
(* The contract of the module.  The history counts what it promises: an     *)
(* acceptance that is not in doubt is counted, and nothing in doubt is.     *)
AcceptedIsCounted ==
  \A s \in Slots : At(s, "accepted") /\ exec[s].msg \notin doubted => handedOver[exec[s].msg] = 1

DoubtedIsUncounted == \A m \in doubted : handedOver[m] = 0

KInv == IInv /\ AcceptedIsCounted /\ DoubtedIsUncounted

LEMMA HistoryKinds ==
  ASSUME TypeOK, Presence, [Next]_vars
  PROVE  \/ UNCHANGED history
         \/ \E m \in Messages : Stall(m) /\ Doubt(m)
         \/ \E s \in Slots : /\ Execute(s) \/ Crash(s)
                             /\ HandOver(exec[s].msg) \/ Doubt(exec[s].msg)
<1> USE DEF history, intentions
<1>1. ASSUME NEW s \in Slots, Execute(s) \/ Crash(s)
      PROVE  UNCHANGED history \/ HandOver(exec[s].msg) \/ Doubt(exec[s].msg)
  BY <1>1 DEF Execute, Prepare, Revalidate, Dispatch, Send, MarkSent, MarkFailed,
     TransactionFails, Finish, Crash
<1>2. ASSUME NEW m \in Messages, Stall(m) PROVE UNCHANGED history \/ Doubt(m)
  BY <1>2 DEF Stall
<1>3. ASSUME NEW m \in Messages, Adds(m) \/ Forget(m) PROVE UNCHANGED history
  BY <1>3 DEF Adds, Forget
<1>4. ASSUME NEW m \in Messages, NEW s \in Slots, Take(s, m) PROVE UNCHANGED history
  BY <1>4 DEF Take
<1>5. Quiet \/ (\E h \in Handlers : Insert(h)) => UNCHANGED history
  BY DEF Quiet, Insert
<1> HIDE DEF history
<1> QED BY <1>1, <1>2, <1>3, <1>4, <1>5, StepKinds

LEMMA UncountedStep ==
  ASSUME TypeOK, Presence, DoubtedIsUncounted, [Next]_vars PROVE DoubtedIsUncounted'
<1>1. handedOver \in [Messages -> 0..2] /\ doubted \subseteq Messages
  BY DEF TypeOK
<1>2. ASSUME NEW m \in Messages, Doubt(m) PROVE DoubtedIsUncounted'
  BY <1>1, <1>2 DEF Doubt, DoubtedIsUncounted
<1>3. ASSUME NEW m \in Messages, HandOver(m) PROVE DoubtedIsUncounted'
  BY <1>1, <1>3 DEF HandOver, DoubtedIsUncounted
<1>4. \A s \in Slots : exec[s].msg \in Messages
  BY DEF TypeOK
<1>5. CASE UNCHANGED history
  BY <1>5 DEF DoubtedIsUncounted, history
<1> QED BY <1>2, <1>3, <1>4, <1>5, HistoryKinds

LEMMA CountedStep ==
  ASSUME IInv, AcceptedIsCounted, [Next]_vars PROVE AcceptedIsCounted'
<1>0. TypeOK /\ Presence /\ SingleExecution /\ SendingIsProcessing /\ HandedOverOnce
  BY DEF IInv
<1>1. /\ exec \in [Slots -> [pc : Phases, msg : Messages]]
      /\ handedOver \in [Messages -> 0..2] /\ doubted \subseteq Messages
  BY <1>0 DEF TypeOK
<1> SUFFICES ASSUME NEW s \in Slots, exec'[s].pc = "accepted", exec'[s].msg \notin doubted'
             PROVE  handedOver'[exec'[s].msg] = 1
  BY DEF AcceptedIsCounted, At
<1> DEFINE m == exec'[s].msg
<1>2. ASSUME exec'[s] = exec[s], m \notin doubted PROVE handedOver[m] = 1 /\ ~At(s, "free") /\ m \in Messages
  BY <1>1, <1>2 DEF AcceptedIsCounted, At
<1>3. ASSUME NEW t \in Slots, Execute(t) \/ Crash(t), t # s PROVE handedOver'[m] = 1
  <2>1. exec'[s] = exec[s] /\ m \notin doubted /\ ~At(t, "free")
    BY <1>0, <1>3, ExecutionFrame
  <2>2. exec[t].msg # m
    BY <1>0, <1>2, <1>3, <2>1, SoleExecution
  <2>3. handedOver'[m] = handedOver[m]
    BY <1>0, <1>2, <1>3, <2>1, <2>2, ExecutionFrame
  <2> QED BY <1>2, <2>1, <2>3
<1>4. ASSUME Execute(s) \/ Crash(s) PROVE handedOver'[m] = 1
  <2>1. m = exec[s].msg /\ m \in Messages /\ m \notin doubted /\ ~At(s, "free")
    BY <1>0, <1>1, <1>4, ExecutionFrame
  <2>2. Send(s)
    BY <1>0, <1>4, GotoEffect
       DEF Execute, Prepare, Revalidate, Dispatch, MarkSent, MarkFailed, AfterFailure,
           TransactionFails, Finish, Crash
  <2>3. HandOver(m)
    BY <1>0, <2>1, <2>2, GotoEffect DEF Send
  <2>4. status[m] = "PROCESSING"
    BY <1>0, <2>1, <2>2 DEF Send, SendingIsProcessing, Row, At
  <2>5. handedOver[m] = 0
    <3>1. handedOver[m] < 2 /\ handedOver[m] # 1
      <4>1. ASSUME NEW t \in Slots, At(t, "accepted"), exec[t].msg = m PROVE FALSE
        <5>1. t = s
          BY <1>0, <2>1, <4>1, SoleExecution DEF At
        <5> QED BY <2>2, <4>1, <5>1 DEF Send, At
      <4> QED BY <1>0, <2>1, <2>4, <4>1 DEF HandedOverOnce
    <3> QED BY <1>1, <2>1, <3>1
  <2> QED BY <1>1, <2>1, <2>3, <2>5 DEF HandOver
<1>5. ASSUME exec'[s] = exec[s], UNCHANGED history PROVE handedOver'[m] = 1
  BY <1>2, <1>5 DEF history
<1>6. ASSUME NEW n \in Messages, NEW t \in Slots, Take(t, n)
      PROVE  exec'[s] = exec[s] /\ UNCHANGED history
  BY <1>1, <1>6 DEF Take
<1>7. ASSUME NEW n \in Messages, Stall(n) PROVE handedOver'[m] = 1
  <2>1. exec'[s] = exec[s] /\ m \notin doubted
    BY <1>7 DEF Stall, Doubt, history
  <2>2. handedOver'[m] = handedOver[m]
    BY <1>1, <1>2, <1>7, <2>1 DEF Stall, Doubt, history
  <2> QED BY <1>2, <2>1, <2>2
<1>8. ASSUME NEW n \in Messages, Adds(n) \/ Forget(n) PROVE UNCHANGED exec /\ UNCHANGED history
  BY <1>8 DEF Adds, Forget, history
<1>9. Quiet \/ (\E h \in Handlers : Insert(h)) => UNCHANGED exec /\ UNCHANGED history
  BY DEF Quiet, Insert, history
<1> QED BY <1>0, <1>3, <1>4, <1>5, <1>6, <1>7, <1>8, <1>9, StepKinds

LEMMA InitKInv == Init => KInv
<1> SUFFICES ASSUME Init PROVE KInv
  OBVIOUS
<1>1. AcceptedIsCounted /\ DoubtedIsUncounted
  BY DEF Init, AcceptedIsCounted, DoubtedIsUncounted, At
<1> QED BY <1>1, InitIInv DEF KInv

LEMMA NextKInv == KInv /\ [Next]_vars => KInv'
<1>1. IInv /\ [Next]_vars => IInv'
  BY TypeStep, PresenceStep, CompletedStep, SingleStep, SendingStep, HandedOverStep DEF IInv
<1>2. IInv => TypeOK /\ Presence
  BY DEF IInv
<1> QED BY <1>1, <1>2, UncountedStep, CountedStep DEF KInv

-----------------------------------------------------------------------------
(* Steps of the contract.                                                   *)
FateMap == [m \in Messages |-> Fate(m)]

\* What a status means to the contract.
LEMMA Fates ==
  ASSUME NEW m
  PROVE  /\ Fate(m) = "absent" <=> status[m] = "ABSENT"
         /\ status[m] \in CanBeProcessed => Fate(m) = "intended"
BY DEF Fate, CanBeProcessed, CanBeEnqueued

LEMMA FateSame ==
  ASSUME TypeOK, NEW m \in Messages,
         status[m] \in CanBeProcessed,
         \E new \in CanBeProcessed : status' = [status EXCEPT ![m] = new]
  PROVE  FateMap' = FateMap
<1>1. PICK new \in CanBeProcessed : status' = [status EXCEPT ![m] = new]
  OBVIOUS
<1>2. \A n \in Messages : Fate(n)' = Fate(n)
  BY <1>1 DEF TypeOK, Fate, CanBeProcessed, CanBeEnqueued
<1> QED BY <1>2 DEF FateMap

LEMMA FateChanged ==
  ASSUME TypeOK, NEW m \in Messages, NEW new, status' = [status EXCEPT ![m] = new]
  PROVE  /\ new = "PENDING" => FateMap' = [FateMap EXCEPT ![m] = "intended"]
         /\ new = "SENT" => FateMap' = [FateMap EXCEPT ![m] = "sent"]
         /\ new = "FAILED_PERMANENT" => FateMap' = [FateMap EXCEPT ![m] = "failed"]
         /\ new = "CANCELED" => FateMap' = [FateMap EXCEPT ![m] = "canceled"]
<1>1. \A n \in Messages \ {m} : Fate(n)' = Fate(n)
  BY DEF TypeOK, Fate
<1>2. /\ new = "PENDING" => Fate(m)' = "intended"
      /\ new = "SENT" => Fate(m)' = "sent"
      /\ new = "FAILED_PERMANENT" => Fate(m)' = "failed"
      /\ new = "CANCELED" => Fate(m)' = "canceled"
  BY DEF TypeOK, Fate
<1> QED BY <1>1, <1>2 DEF FateMap

LEMMA FateUnchanged == ASSUME UNCHANGED status PROVE FateMap' = FateMap
BY DEF FateMap, Fate

\* An execution that has not just been accepted finds nothing counted.
LEMMA NothingCounted ==
  ASSUME KInv, NEW s \in Slots, ~At(s, "free"), ~At(s, "accepted"), Row(s) # "SENT"
  PROVE  handedOver[exec[s].msg] = 0
<1> DEFINE m == exec[s].msg
<1>1. TypeOK /\ SingleExecution /\ HandedOverOnce /\ m \in Messages /\ handedOver[m] \in 0..2
  BY DEF KInv, IInv, TypeOK
<1>2. CASE m \in doubted
  BY <1>2 DEF KInv, DoubtedIsUncounted
<1>3. CASE m \notin doubted
  <2>1. ASSUME NEW t \in Slots, At(t, "accepted"), exec[t].msg = m PROVE FALSE
    <3>1. t = s
      BY <1>1, <1>3, <2>1, SoleExecution DEF At
    <3> QED BY <2>1, <3>1
  <2>2. handedOver[m] < 2 /\ handedOver[m] # 1
    BY <1>1, <1>3, <2>1 DEF HandedOverOnce, Row
  <2> QED BY <1>1, <2>2
<1> QED BY <1>2, <1>3

LEMMA Stutters ==
  ASSUME UNCHANGED <<status, handedOver, doubted, expired>> PROVE UNCHANGED Contract!vars
<1>1. FateMap' = FateMap
  BY FateUnchanged
<1> QED BY <1>1 DEF Contract!vars, FateMap

\* Doubt is a step of the contract.
LEMMA DoubtStep ==
  ASSUME NEW m \in Messages, status[m] # "ABSENT", Doubt(m), UNCHANGED <<status, expired>>
  PROVE  Contract!Next
<1>1. FateMap' = FateMap /\ FateMap[m] # "absent"
  BY FateUnchanged, Fates DEF FateMap
<1>2. Contract!Doubt(m)
  BY <1>1 DEF Contract!Doubt, Doubt, FateMap
<1> QED BY <1>2 DEF Contract!Next

\* A message that ends keeps its count, and keeps it for good.
LEMMA EndStep ==
  ASSUME KInv, NEW s \in Slots, ~At(s, "free"), Row(s) \in CanBeProcessed,
         NEW new \in Terminal, SetRow(s, new), UNCHANGED <<handedOver, doubted, expired>>,
         new = "SENT" => At(s, "accepted"),
         new # "SENT" => ~At(s, "accepted"),
         new = "CANCELED" => Due(s)
  PROVE  Contract!Next
<1> DEFINE m == exec[s].msg
<1>1. TypeOK /\ m \in Messages /\ status' = [status EXCEPT ![m] = new]
  BY DEF KInv, IInv, TypeOK, SetRow
<1>2. FateMap[m] = "intended"
  BY <1>1, Fates DEF FateMap, Row
<1>3. CASE new = "SENT"
  <2>1. handedOver[m] = 1 \/ m \in doubted
    BY <1>3 DEF KInv, AcceptedIsCounted
  <2>2. Contract!MarkSent(m)
    BY <1>1, <1>2, <1>3, <2>1, FateChanged DEF Contract!MarkSent, Contract!End, FateMap
  <2> QED BY <1>1, <2>2 DEF Contract!Next
<1>4. CASE new # "SENT"
  <2>1. handedOver[m] = 0
    <3>1. Row(s) # "SENT"
      BY DEF CanBeProcessed, CanBeEnqueued
    <3> QED BY <1>4, <3>1, NothingCounted
  <2>2. CASE new = "FAILED_PERMANENT"
    <3>1. Contract!MarkFailed(m)
      BY <1>1, <1>2, <2>1, <2>2, FateChanged DEF Contract!MarkFailed, Contract!End, FateMap
    <3> QED BY <1>1, <3>1 DEF Contract!Next
  <2>3. CASE new = "CANCELED"
    <3>1. m \in expired
      BY <2>3 DEF Due
    <3>2. Contract!Cancel(m)
      BY <1>1, <1>2, <2>1, <2>3, <3>1, FateChanged DEF Contract!Cancel, Contract!End, FateMap
    <3> QED BY <1>1, <3>2 DEF Contract!Next
  <2> QED BY <1>4, <2>2, <2>3 DEF Terminal
<1> QED BY <1>3, <1>4

LEMMA ExecutionContract ==
  ASSUME KInv, NEW s \in Slots, Execute(s) \/ Crash(s)
  PROVE  Contract!Next \/ UNCHANGED Contract!vars
<1> DEFINE m == exec[s].msg
<1>1. TypeOK /\ Presence /\ m \in Messages /\ status \in [Messages -> Statuses \cup {"ABSENT"}]
  BY DEF KInv, IInv, TypeOK
<1>2. ~At(s, "free") /\ Row(s) # "ABSENT"
  <2>1. ~At(s, "free")
    BY <1>1, ExecutionFrame
  <2> QED BY <1>1, <2>1 DEF Presence
<1>3. Row(s) \in Terminal \/ Row(s) \in CanBeProcessed
  BY <1>1, <1>2 DEF Row, Statuses
<1>4. CASE Prepare(s) \/ Revalidate(s)
  <2>1. UNCHANGED <<handedOver, doubted, expired>> /\ ~At(s, "accepted")
    BY <1>4 DEF Prepare, Revalidate, history, intentions, At
  <2>2. CASE UNCHANGED status
    BY <2>1, <2>2, Stutters
  <2>3. CASE Row(s) \in CanBeProcessed /\ Due(s) /\ SetRow(s, "CANCELED")
    <3>1. "CANCELED" \in Terminal
      BY DEF Terminal
    <3> QED BY <1>2, <2>1, <2>3, <3>1, EndStep
  <2>4. CASE Row(s) \in CanBeProcessed /\ SetRow(s, "PROCESSING")
    <3>1. FateMap' = FateMap
      BY <1>1, <2>4, FateSame DEF SetRow, Row, CanBeProcessed
    <3> QED BY <2>1, <3>1 DEF Contract!vars, FateMap
  <2> QED BY <1>4, <2>2, <2>3, <2>4 DEF Prepare, Revalidate
<1>5. CASE Dispatch(s) \/ Finish(s)
  <2>1. UNCHANGED <<status, handedOver, doubted, expired>>
    BY <1>5 DEF Dispatch, Finish, history, intentions
  <2> QED BY <2>1, Stutters
<1>6. CASE Send(s)
  <2>1. UNCHANGED <<status, expired>> /\ At(s, "sending")
    BY <1>6 DEF Send, intentions
  <2>2. CASE HandOver(m) /\ m \in doubted
    <3>1. handedOver[m] = 0 /\ handedOver \in [Messages -> 0..2]
      BY <1>1, <2>2 DEF KInv, DoubtedIsUncounted, TypeOK
    <3>2. UNCHANGED <<handedOver, doubted>>
      BY <2>2, <3>1 DEF HandOver
    <3> QED BY <2>1, <3>2, Stutters
  <2>3. CASE HandOver(m) /\ m \notin doubted
    <3>1. status[m] = "PROCESSING"
      BY <1>2, <2>1, <2>3 DEF KInv, IInv, SendingIsProcessing, Row, At
    <3>2. handedOver[m] = 0
      BY <1>2, <2>1, <3>1, NothingCounted DEF Row, At
    <3>3. FateMap' = FateMap /\ FateMap[m] = "intended"
      BY <1>1, <2>1, <3>1, FateUnchanged, Fates DEF FateMap, CanBeProcessed
    <3>4. Contract!Accept(m)
      BY <2>1, <2>3, <3>2, <3>3 DEF Contract!Accept, HandOver, FateMap
    <3> QED BY <1>1, <3>4 DEF Contract!Next
  <2>4. CASE Doubt(m)
    BY <1>1, <1>2, <2>1, <2>4, DoubtStep DEF Row
  <2>5. CASE UNCHANGED history
    BY <2>1, <2>5, Stutters DEF history
  <2> QED BY <1>6, <2>2, <2>3, <2>4, <2>5 DEF Send
<1>7. CASE MarkSent(s)
  <2>1. UNCHANGED <<handedOver, doubted, expired>> /\ At(s, "accepted")
    BY <1>7 DEF MarkSent, history, intentions
  <2>2. CASE UNCHANGED status
    BY <2>1, <2>2, Stutters
  <2>3. CASE Row(s) = "SENT" /\ SetRow(s, "SENT")
    <3>1. UNCHANGED status
      BY <1>1, <2>3 DEF Row, SetRow
    <3> QED BY <2>1, <3>1, Stutters
  <2>4. CASE Row(s) \in CanBeProcessed /\ SetRow(s, "SENT")
    <3>1. "SENT" \in Terminal
      BY DEF Terminal
    <3> QED BY <1>2, <2>1, <2>4, <3>1, EndStep
  <2> QED BY <1>3, <1>7, <2>2, <2>3, <2>4 DEF MarkSent
<1>8. CASE MarkFailed(s)
  <2>1. UNCHANGED <<handedOver, doubted, expired>> /\ ~At(s, "accepted")
    BY <1>8 DEF MarkFailed, history, intentions, At
  <2>2. CASE UNCHANGED status
    BY <2>1, <2>2, Stutters
  <2>3. CASE Row(s) \in CanBeProcessed /\ SetRow(s, "FAILED_PERMANENT")
    <3>1. "FAILED_PERMANENT" \in Terminal
      BY DEF Terminal
    <3> QED BY <1>2, <2>1, <2>3, <3>1, EndStep
  <2>4. CASE Row(s) \in CanBeProcessed /\ SetRow(s, "FAILED_RETRYABLE")
    <3>1. FateMap' = FateMap
      BY <1>1, <2>4, FateSame DEF SetRow, Row, CanBeProcessed, CanBeEnqueued
    <3> QED BY <2>1, <3>1 DEF Contract!vars, FateMap
  <2> QED BY <1>3, <1>8, <2>2, <2>3, <2>4 DEF MarkFailed
<1>9. CASE TransactionFails(s) \/ Crash(s)
  <2>1. UNCHANGED <<status, expired>> /\ (Doubt(m) \/ UNCHANGED <<handedOver, doubted>>)
    BY <1>9 DEF TransactionFails, Crash, history, intentions
  <2>2. CASE Doubt(m)
    BY <1>1, <1>2, <2>1, <2>2, DoubtStep DEF Row
  <2>3. CASE UNCHANGED <<handedOver, doubted>>
    BY <2>1, <2>3, Stutters
  <2> QED BY <2>1, <2>2, <2>3
<1> QED BY <1>4, <1>5, <1>6, <1>7, <1>8, <1>9 DEF Execute

LEMMA ContractStep == KInv /\ [Next]_vars => [Contract!Next]_(Contract!vars)
<1> SUFFICES ASSUME KInv, [Next]_vars PROVE Contract!Next \/ UNCHANGED Contract!vars
  OBVIOUS
<1>1. TypeOK /\ Presence
  BY DEF KInv, IInv
<1>2. CASE expired' # expired
  <2>1. PICK m \in Messages : DeadlinePasses(m)
    BY <1>2 DEF Next, Handle, FindExisting, Insert, InsertConflicts, Enqueue, HandlerFails,
       Execute, Prepare, Revalidate, Dispatch, Send, MarkSent, MarkFailed, TransactionFails,
       Finish, Crash, Queue, Take, Stall, Forget, Reconcile, ReconcileAdd, ReconcileAddFails,
       FindReenqueuable, ReconcilerStops, Age, vars, intentions
  <2>2. FateMap' = FateMap /\ FateMap[m] # "absent"
    BY <2>1, FateUnchanged, Fates DEF DeadlinePasses, FateMap
  <2>3. Contract!TurnLate(m)
    BY <2>1, <2>2 DEF Contract!TurnLate, DeadlinePasses, FateMap, history
  <2> QED BY <2>1, <2>3 DEF Contract!Next
<1>3. CASE expired' = expired
  <2>1. ASSUME NEW m \in Messages, Stall(m) PROVE Contract!Next \/ UNCHANGED Contract!vars
    <3>1. UNCHANGED status /\ (Doubt(m) \/ UNCHANGED <<handedOver, doubted>>)
      BY <2>1 DEF Stall, history
    <3>2. status[m] # "ABSENT"
      BY <1>1, <2>1 DEF Stall, Presence
    <3>3. CASE Doubt(m)
      BY <1>3, <3>1, <3>2, <3>3, DoubtStep
    <3>4. CASE UNCHANGED <<handedOver, doubted>>
      BY <1>3, <3>1, <3>4, Stutters
    <3> QED BY <3>1, <3>3, <3>4
  <2>2. ASSUME NEW h \in Handlers, Insert(h) PROVE Contract!Next
    <3> DEFINE m == handler[h].msg
    <3>1. /\ m \in Messages /\ status[m] = "ABSENT" /\ UNCHANGED <<handedOver, doubted>>
          /\ status' = [status EXCEPT ![m] = "PENDING"]
      BY <1>1, <2>2 DEF Insert, TypeOK, history
    <3>2. FateMap' = [FateMap EXCEPT ![m] = "intended"] /\ FateMap[m] = "absent"
      BY <1>1, <3>1, FateChanged, Fates DEF FateMap
    <3>3. Contract!Intend(m)
      BY <1>3, <3>1, <3>2 DEF Contract!Intend, FateMap
    <3> QED BY <3>1, <3>3 DEF Contract!Next
  <2>3. ASSUME NEW m \in Messages, Adds(m) \/ Forget(m) PROVE UNCHANGED Contract!vars
    <3>1. UNCHANGED <<status, handedOver, doubted>>
      BY <2>3 DEF Adds, Forget, history
    <3> QED BY <1>3, <3>1, Stutters
  <2>4. ASSUME NEW m \in Messages, NEW s \in Slots, Take(s, m) PROVE UNCHANGED Contract!vars
    <3>1. UNCHANGED <<status, handedOver, doubted>>
      BY <2>4 DEF Take, history
    <3> QED BY <1>3, <3>1, Stutters
  <2>5. CASE Quiet
    BY <1>3, <2>5, Stutters DEF Quiet
  <2> QED BY <1>1, <2>1, <2>2, <2>3, <2>4, <2>5, ExecutionContract, StepKinds
<1> QED BY <1>2, <1>3

(* Handlers, workers, queue and reconciler implement the contract of the    *)
(* module, for any number of each.                                          *)
THEOREM EmailDeliveryImplementsContract == Spec => ImplementsContract
<1>1. Init => Contract!Init
  BY DEF Init, Contract!Init, Fate
<1> QED BY <1>1, InitKInv, NextKInv, ContractStep, PTL DEF Spec, ImplementsContract, Contract!Spec
=============================================================================
