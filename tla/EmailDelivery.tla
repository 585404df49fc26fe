--------------------------- MODULE EmailDelivery ---------------------------
(***************************************************************************)
(* The life of an e-mail: an event handler (or the resend request) writes  *)
(* the intention in email_messages and adds a job to the BullMQ queue, a   *)
(* worker sends it, a reconciler adds a job again for old intentions.      *)
(*                                                                         *)
(* A message is its idempotency key.  Every transaction locks the row it   *)
(* changes, so a transaction is one step; the calls of the provider and of *)
(* the queue are steps of their own.                                       *)
(***************************************************************************)
EXTENDS Naturals, Sequences, FiniteSets

CONSTANTS
  Messages,     \* idempotency keys
  Handlers,     \* deliveries of the events that ask for a message
  Slots,        \* concurrent executions of the processor, in all workers
  NoSlot,
  Attempts,     \* BULLMQ_DEFAULT_ATTEMPTS
  MaxStalls,    \* how often BullMQ takes up a stalled job again
  BatchSize     \* EMAIL_ENQUEUE_RECONCILE_BATCH_SIZE

ASSUME SlotAssumption == NoSlot \notin Slots
ASSUME LimitAssumption ==
  Attempts \in Nat \ {0} /\ MaxStalls \in Nat /\ BatchSize \in Nat \ {0}

VARIABLES
  deadlined,   \* the messages with deliver_before (those of e-mail verification)
  status,      \* email_messages.status, "ABSENT" before the insert
  created,     \* the messages in the order of created_at
  old,         \* how many of them are older than the reconciler's cutoff
  expired,     \* the messages whose deliver_before has passed
  job,         \* the BullMQ job of each message, by its derived job id
  exec,        \* executions of EmailMessageProcessor.process
  handler,     \* event handlers
  batch,       \* the ids the reconciler read and has not added yet
  doubted,     \* history: messages for which a hand-over or a job was in doubt
  handedOver   \* history: times the provider accepted the others, up to 2

vars == <<deadlined, status, created, old, expired, job, exec, handler, batch,
          doubted, handedOver>>
history == <<doubted, handedOver>>
intentions == <<deadlined, created, old, expired>>

Terminal == {"SENT", "FAILED_PERMANENT", "CANCELED"}
CanBeEnqueued == {"PENDING", "FAILED_RETRYABLE"}
CanBeProcessed == CanBeEnqueued \cup {"PROCESSING"}
Statuses == Terminal \cup CanBeProcessed

\* "retry" and "fail" are the throws of Error and UnrecoverableError.
Phases == {"free", "prepare", "revalidate", "dispatch", "sending",
           "accepted", "failedRetryable", "failedPermanent",
           "complete", "retry", "fail"}

JobStates == {"none", "waiting", "active", "completed", "failed"}

Job == [state : JobStates, tries : 0..Attempts, stalls : 0..MaxStalls,
        owner : Slots \cup {NoSlot}]
NoJob == [state |-> "none", tries |-> 0, stalls |-> 0, owner |-> NoSlot]
NewJob == [NoJob EXCEPT !.state = "waiting"]
\* Nothing reads the counters of a finished job.
Finished(state) == [NoJob EXCEPT !.state = state]

TypeOK ==
  /\ deadlined \in SUBSET Messages
  /\ status \in [Messages -> Statuses \cup {"ABSENT"}]
  /\ created \in Seq(Messages)
  /\ old \in 0..Len(created)
  /\ expired \in SUBSET deadlined
  /\ job \in [Messages -> Job]
  /\ exec \in [Slots -> [pc : Phases, msg : Messages]]
  /\ handler \in [Handlers -> [pc : {"idle", "absent", "enqueue", "done"},
                               msg : Messages]]
  /\ batch \in SUBSET Messages
  /\ handedOver \in [Messages -> 0..2]
  /\ doubted \in SUBSET Messages

Init ==
  /\ deadlined \in SUBSET Messages
  /\ status = [m \in Messages |-> "ABSENT"]
  /\ created = <<>> /\ old = 0 /\ expired = {}
  /\ job = [m \in Messages |-> NoJob]
  /\ \E m \in Messages : exec = [s \in Slots |-> [pc |-> "free", msg |-> m]]
  /\ handler \in [Handlers -> [pc : {"idle"}, msg : Messages]]
  /\ batch = {}
  /\ handedOver = [m \in Messages |-> 0] /\ doubted = {}

-----------------------------------------------------------------------------
(* The intention and its job *)

\* Mutant: the job id is not derived from the message.
Add_Mutant(m) == job' = [job EXCEPT ![m] = NewJob]

\* queue.add: a job id the queue still knows, in any state, is not added again.
Add(m) ==
  job' = [job EXCEPT ![m] = IF @.state = "none" THEN NewJob ELSE @]

HandlerGoto(h, phase) == handler' = [handler EXCEPT ![h].pc = phase]

\* shouldEnqueue of a message that exists.
Resume(h) ==
  HandlerGoto(h, IF status[handler[h].msg] \in CanBeEnqueued THEN "enqueue" ELSE "done")

\* findByIdempotencyKey
FindExisting(h) ==
  /\ handler[h].pc = "idle"
  /\ IF status[handler[h].msg] = "ABSENT" THEN HandlerGoto(h, "absent") ELSE Resume(h)
  /\ UNCHANGED <<status, intentions, job, exec, batch, history>>

\* The insert, alone or in the transaction that also writes the challenge.
Insert(h) ==
  LET m == handler[h].msg
  IN /\ handler[h].pc = "absent" /\ status[m] = "ABSENT"
     /\ status' = [status EXCEPT ![m] = "PENDING"]
     /\ created' = Append(created, m)
     /\ HandlerGoto(h, "enqueue")
     /\ UNCHANGED <<deadlined, old, expired, job, exec, batch, history>>

\* The unique key is taken: outside a transaction the message is read again;
\* inside one the conflict has aborted it, so the handler fails.
InsertConflicts(h) ==
  /\ handler[h].pc = "absent" /\ status[handler[h].msg] # "ABSENT"
  /\ handler[h].msg \notin deadlined
  /\ Resume(h)
  /\ UNCHANGED <<status, intentions, job, exec, batch, history>>

Enqueue(h) ==
  /\ handler[h].pc = "enqueue"
  /\ Add(handler[h].msg)
  /\ HandlerGoto(h, "done")
  /\ UNCHANGED <<status, intentions, exec, batch, history>>

\* A crash or an error: the outbox delivers again or has given up, and a resend
\* only logs that the job was not added.
HandlerFails(h) ==
  /\ handler[h].pc \in {"absent", "enqueue"}
  /\ \E phase \in {"idle", "done"} : HandlerGoto(h, phase)
  /\ UNCHANGED <<status, intentions, job, exec, batch, history>>

-----------------------------------------------------------------------------
(* The processor *)

At(s, phase) == exec[s].pc = phase
Goto(s, phase) == exec' = [exec EXCEPT ![s].pc = phase]
Row(s) == status[exec[s].msg]
SetRow(s, new) == status' = [status EXCEPT ![exec[s].msg] = new]

\* Mutant: a deadline that is set counts as passed.
Due_Mutant(s) == exec[s].msg \in deadlined

Due(s) == exec[s].msg \in expired

Owns(s, m) == ~At(s, "free") /\ exec[s].msg = m /\ job[m].owner = s

\* A worker takes a waiting job.
Take(s, m) ==
  /\ At(s, "free") /\ job[m].state = "waiting"
  /\ job' = [job EXCEPT ![m].state = "active", ![m].owner = s]
  /\ exec' = [exec EXCEPT ![s] = [pc |-> "prepare", msg |-> m]]
  /\ UNCHANGED <<status, intentions, handler, batch, history>>

\* prepareMessage.  Without a deadline the provider is called right after it;
\* a stored template that no longer meets its contract fails for good.
Prepare(s) ==
  /\ At(s, "prepare")
  /\ \/ /\ Row(s) \notin CanBeProcessed
        /\ Goto(s, "complete") /\ UNCHANGED status
     \/ /\ Row(s) \in CanBeProcessed /\ Due(s)
        /\ SetRow(s, "CANCELED") /\ Goto(s, "fail")
     \/ /\ Row(s) \in CanBeProcessed /\ ~Due(s)
        /\ SetRow(s, "PROCESSING")
        /\ \E next \in {IF exec[s].msg \in deadlined THEN "revalidate" ELSE "sending",
                        "failedPermanent"} : Goto(s, next)
  /\ UNCHANGED <<intentions, job, handler, batch, history>>

\* revalidateDeliveryDeadline, with the clock read under the lock or, the second
\* time, with the instant at which the dispatch has found the deadline passed.
Revalidate(s) ==
  /\ At(s, "revalidate")
  /\ \/ /\ Row(s) \notin CanBeProcessed
        /\ Goto(s, "complete") /\ UNCHANGED status
     \/ /\ Row(s) \in CanBeProcessed /\ Due(s)
        /\ SetRow(s, "CANCELED") /\ Goto(s, "fail")
     \/ /\ Row(s) \in CanBeProcessed /\ ~Due(s)
        /\ Goto(s, "dispatch") /\ UNCHANGED status
  /\ UNCHANGED <<intentions, job, handler, batch, history>>

\* Mutant: the deadline is not read again after the transaction.
Dispatch_Mutant(s) ==
  /\ At(s, "dispatch") /\ Goto(s, "sending")
  /\ UNCHANGED <<status, intentions, job, handler, batch, history>>

\* The last look at the clock; the provider is called in the same turn.
Dispatch(s) ==
  /\ At(s, "dispatch")
  /\ Goto(s, IF Due(s) THEN "revalidate" ELSE "sending")
  /\ UNCHANGED <<status, intentions, job, handler, batch, history>>

\* Nothing is counted any more for a message in doubt.
Doubt(m) ==
  /\ doubted' = doubted \cup {m}
  /\ handedOver' = [handedOver EXCEPT ![m] = 0]

HandOver(m) ==
  /\ handedOver' = [handedOver EXCEPT ![m] =
                      IF m \in doubted THEN 0 ELSE IF @ = 0 THEN 1 ELSE 2]
  /\ UNCHANGED doubted

\* mailService.send.  A timeout may hide that the provider has accepted.
Send(s) ==
  /\ At(s, "sending")
  /\ \/ Goto(s, "accepted") /\ HandOver(exec[s].msg)
     \/ Goto(s, "failedRetryable") /\ Doubt(exec[s].msg)
     \/ /\ \E next \in {"failedRetryable", "failedPermanent"} : Goto(s, next)
        /\ UNCHANGED history
  /\ UNCHANGED <<status, intentions, job, handler, batch>>

\* Mutant: a canceled or failed message may still become SENT.
MarkSent_Mutant(s) ==
  /\ At(s, "accepted") /\ SetRow(s, "SENT")
  /\ Goto(s, "complete")
  /\ UNCHANGED <<intentions, job, handler, batch, history>>

\* markSent: throws, into the catch, when another execution ended the message.
MarkSent(s) ==
  /\ At(s, "accepted")
  /\ \/ /\ Row(s) \in Terminal \ {"SENT"}
        /\ Goto(s, "failedRetryable") /\ UNCHANGED status
     \/ /\ Row(s) \notin Terminal \ {"SENT"}
        /\ SetRow(s, "SENT")
        /\ \E next \in {"complete", "failedRetryable"} : Goto(s, next)
  /\ UNCHANGED <<intentions, job, handler, batch, history>>

\* Mutant: a failure that may be retried is not thrown again.
AfterFailure_Mutant(s) == "complete"

\* handleFailure: a retryable failure is thrown on to the queue.
AfterFailure(s) == IF At(s, "failedRetryable") THEN "retry" ELSE "complete"

\* markFailed
MarkFailed(s) ==
  /\ At(s, "failedRetryable") \/ At(s, "failedPermanent")
  /\ IF Row(s) \in Terminal
     THEN UNCHANGED status
     ELSE SetRow(s, IF At(s, "failedRetryable") THEN "FAILED_RETRYABLE"
                                                 ELSE "FAILED_PERMANENT")
  /\ Goto(s, AfterFailure(s))
  /\ UNCHANGED <<intentions, job, handler, batch, history>>

\* A transaction fails and leaves the row: only that of markSent is caught.
TransactionFails(s) ==
  /\ \/ /\ \E p \in {"prepare", "revalidate", "failedRetryable",
                     "failedPermanent"} : At(s, p)
        /\ Goto(s, "retry") /\ UNCHANGED history
     \/ /\ At(s, "accepted")
        /\ Goto(s, "failedRetryable") /\ Doubt(exec[s].msg)
  /\ UNCHANGED <<status, intentions, job, handler, batch>>

-----------------------------------------------------------------------------
(* The queue *)

\* Mutant: an attempt is not counted.
Retried_Mutant(j) ==
  [j EXCEPT !.owner = NoSlot, !.state = "waiting"]

\* A thrown Error: another attempt, after the backoff, or none left.
Retried(j) ==
  IF j.tries + 1 < Attempts
  THEN [j EXCEPT !.owner = NoSlot, !.tries = @ + 1, !.state = "waiting"]
  ELSE Finished("failed")

\* The end of an execution; one that lost its lock does not move the job.
Finish(s) ==
  LET m == exec[s].msg
  IN /\ \E p \in {"complete", "retry", "fail"} : At(s, p)
     /\ Goto(s, "free")
     /\ job' = IF ~Owns(s, m) THEN job
               ELSE [job EXCEPT ![m] =
                      IF At(s, "retry") THEN Retried(@)
                      ELSE Finished(IF At(s, "complete") THEN "completed" ELSE "failed")]
     /\ UNCHANGED <<status, intentions, handler, batch, history>>

\* The worker process dies; its job stays active until it is found stalled.
Crash(s) ==
  /\ ~At(s, "free")
  /\ Goto(s, "free")
  /\ IF At(s, "accepted") THEN Doubt(exec[s].msg) ELSE UNCHANGED history
  /\ UNCHANGED <<status, intentions, job, handler, batch>>

Orphan(m) == job[m].state = "active" /\ ~Owns(job[m].owner, m)

Stalled(j) ==
  IF j.stalls < MaxStalls
  THEN [j EXCEPT !.owner = NoSlot, !.stalls = @ + 1, !.state = "waiting"]
  ELSE Finished("failed")

\* The lock of an active job ran out, its worker being dead or only held up.
Stall(m) ==
  /\ job[m].state = "active"
  /\ job' = [job EXCEPT ![m] = Stalled(@)]
  /\ IF Orphan(m) THEN UNCHANGED history ELSE Doubt(m)
  /\ UNCHANGED <<status, intentions, exec, handler, batch>>

\* removeOnComplete, removeOnFail: finished jobs beyond a number are forgotten.
Forget(m) ==
  /\ job[m].state \in {"completed", "failed"}
  /\ job' = [job EXCEPT ![m] = NoJob]
  /\ UNCHANGED <<status, intentions, exec, handler, batch, history>>

-----------------------------------------------------------------------------
(* The reconciler and time *)

Reenqueuable == {i \in 1..old : status[created[i]] \in CanBeEnqueued}

\* findReenqueuableBefore(cutoff, batchSize), the oldest first
FindReenqueuable ==
  /\ batch = {}
  /\ batch' = {created[i] : i \in {j \in Reenqueuable :
                 Cardinality({k \in Reenqueuable : k < j}) < BatchSize}}
  /\ UNCHANGED <<status, intentions, job, exec, handler, history>>

\* One enqueue of the loop.
ReconcileAdd(m) ==
  /\ m \in batch
  /\ batch' = batch \ {m}
  /\ Add(m)
  /\ UNCHANGED <<status, intentions, exec, handler, history>>

\* An enqueue that fails is logged and left to the next cycle.
ReconcileAddFails(m) ==
  /\ m \in batch
  /\ batch' = batch \ {m}
  /\ UNCHANGED <<status, intentions, job, exec, handler, history>>

\* The worker that reconciles stops.
ReconcilerStops ==
  /\ batch # {} /\ batch' = {}
  /\ UNCHANGED <<status, intentions, job, exec, handler, history>>

Age ==
  /\ old < Len(created) /\ old' = old + 1
  /\ UNCHANGED <<deadlined, status, created, expired, job, exec, handler, batch, history>>

DeadlinePasses(m) ==
  /\ m \in deadlined \ expired /\ status[m] # "ABSENT"
  /\ expired' = expired \cup {m}
  /\ UNCHANGED <<deadlined, status, created, old, job, exec, handler, batch, history>>

-----------------------------------------------------------------------------
Handle(h) ==
  FindExisting(h) \/ Insert(h) \/ InsertConflicts(h) \/ Enqueue(h) \/ HandlerFails(h)

Execute(s) ==
  Prepare(s) \/ Revalidate(s) \/ Dispatch(s) \/ Send(s) \/ MarkSent(s)
    \/ MarkFailed(s) \/ TransactionFails(s) \/ Finish(s)

Queue(m) == (\E s \in Slots : Take(s, m)) \/ Stall(m) \/ Forget(m)

Reconcile(m) == ReconcileAdd(m) \/ ReconcileAddFails(m)

Next ==
  \/ \E h \in Handlers : Handle(h)
  \/ \E s \in Slots : Execute(s) \/ Crash(s)
  \/ \E m \in Messages : Queue(m) \/ Reconcile(m) \/ DeadlinePasses(m)
  \/ FindReenqueuable \/ ReconcilerStops \/ Age

Spec == Init /\ [][Next]_vars

\* Executions go on or die, lost jobs are found, waiting jobs are taken in turn,
\* the reconciler runs on its timer and Redis answers it again and again.
Fairness ==
  /\ \A s \in Slots : WF_vars(Execute(s) \/ Crash(s))
  /\ \A m \in Messages : /\ WF_vars(Orphan(m) /\ Stall(m))
                         /\ SF_vars(\E s \in Slots : Take(s, m))
                         /\ SF_vars(ReconcileAdd(m))
  /\ WF_vars(Age) /\ WF_vars(FindReenqueuable)

FairSpec == Spec /\ Fairness

-----------------------------------------------------------------------------
(* Properties *)

\* A message that was sent, failed for good or canceled stays so, whichever of
\* two executions of its job comes last (EmailMessage.markSent, markFailed).
TerminalIsFinal ==
  [][\A m \in Messages : status[m] \in Terminal => status'[m] = status[m]]_vars

\* No call of the provider starts once the delivery deadline has passed, though
\* no lock is held between the check and the call.
DispatchBeforeDeadline ==
  [][\A s \in Slots :
       ~At(s, "sending") /\ exec'[s].pc = "sending" => exec'[s].msg \notin expired]_vars

\* The provider accepts a message twice, or accepts one that does not end SENT,
\* only after a lost answer, a crash between acceptance and markSent, or a job
\* taken from a worker that was alive: handlers, reconciler and retries alone
\* never cause it.
HandedOverOnce ==
  \A m \in Messages \ doubted :
    /\ handedOver[m] < 2
    /\ handedOver[m] = 1 =>
         status[m] = "SENT" \/ \E s \in Slots : At(s, "accepted") /\ exec[s].msg = m

Fate(m) ==
  CASE status[m] = "ABSENT" -> "absent"
    [] status[m] = "SENT" -> "sent"
    [] status[m] = "FAILED_PERMANENT" -> "failed"
    [] status[m] = "CANCELED" -> "canceled"
    [] OTHER -> "intended"

Contract == INSTANCE EmailDeliveryContract WITH
              fate <- [m \in Messages |-> Fate(m)],
              accepted <- handedOver,
              late <- expired

\* Handlers, executions, jobs and the reconciler together keep the contract of
\* the module: a message ends once, SENT only after an acceptance, CANCELED only
\* behind its deadline, and neither CANCELED nor failed for good when the
\* provider has accepted it, which it does once (prepareMessage, markSent,
\* markFailed, revalidateDeliveryDeadline).
ImplementsContract == Contract!Spec

\* A job that completes leaves nothing to send: a message that may still be
\* processed never sits behind a completed job, whose id keeps it from being
\* added again (EmailMessageProcessor.process, queue.add).
CompletedJobSettles ==
  \A m \in Messages : job[m].state = "completed" => status[m] \in Terminal

\* Every job is finished: attempts and stalls run out.
JobsFinish ==
  \A m \in Messages :
    job[m].state \in {"waiting", "active"} ~> job[m].state \in {"completed", "failed"}

\* docs/notifications/README.md: the reconciler selects old PENDING intentions
\* and repeats the enqueue when the job was not added.
PendingIsReconciled ==
  \A m \in Messages :
    status[m] = "PENDING" /\ job[m].state = "none"
      ~> status[m] # "PENDING" \/ job[m].state # "none"
=============================================================================
