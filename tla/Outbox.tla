------------------------------- MODULE Outbox -------------------------------
(***************************************************************************)
(* The transactional outbox of the backend: rows of outbox_messages, the   *)
(* claim / lease / mark statements of OutboxMessageRepository and the      *)
(* polling loop of OutboxProcessorService in several worker processes.     *)
(*                                                                         *)
(* A row's clock comparisons are two flags: lease says whether             *)
(* locked_until has passed, due whether next_retry_at has.  Time passes in *)
(* LeaseExpires and RetryComesDue, at any moment.                          *)
(***************************************************************************)
EXTENDS Naturals, FiniteSets

CONSTANTS
  Workers,      \* identities of worker processes (lockedBy)
  NoWorker,     \* a null locked_by
  Messages,     \* rows that may be written
  Handlers,     \* @OnEvent listeners of the event
  MaxAttempts,  \* max_attempts
  BatchLimit    \* min(batchSize, concurrency)

ASSUME NoWorkerAssumption == NoWorker \notin Workers
ASSUME HandlersAssumption == Handlers # {}
ASSUME MaxAttemptsAssumption == MaxAttempts \in Nat \ {0}

VARIABLES
  row,        \* the table outbox_messages
  jobs,       \* processMessage calls in flight
  instance,   \* life cycle of each worker process
  handled     \* history: handlers that completed for a message

vars == <<row, jobs, instance, handled>>

Statuses == {"ABSENT", "PENDING", "PROCESSING", "PUBLISHED", "FAILED", "DEAD"}

Row == [status : Statuses, attempts : 0..MaxAttempts,
        lockedBy : Workers \cup {NoWorker},
        lease : {"none", "valid", "expired"}, due : BOOLEAN]

\* A claimed copy of a row travelling through processMessage.  "current" is
\* true while processReadyMessages still awaits the job, i.e. while the job
\* keeps isProcessing set.
Job == [worker : Workers, msg : Messages, attempt : 1..MaxAttempts,
        phase : {"emitting", "failing"}, done : SUBSET Handlers,
        current : BOOLEAN]

TypeOK ==
  /\ row \in [Messages -> Row]
  /\ jobs \in SUBSET Job
  /\ instance \in [Workers -> {"off", "running", "draining"}]
  /\ handled \in [Messages -> SUBSET Handlers]

-----------------------------------------------------------------------------
Init ==
  /\ row = [m \in Messages |-> [status |-> "ABSENT", attempts |-> 0,
              lockedBy |-> NoWorker, lease |-> "none", due |-> TRUE]]
  /\ jobs = {}
  /\ instance = [w \in Workers |-> "off"]
  /\ handled = [m \in Messages |-> {}]

\* Mutant: no guard against overlapping cycles of the timer.
isProcessing_Mutant(w) == FALSE

\* isProcessing of worker w: a batch is awaited by Promise.all.
isProcessing(w) == \E j \in jobs : j.worker = w /\ j.current

\* Mutant: the claim forgets the attempt budget.
Claimable_Unbounded(m) ==
  \/ row[m].status = "PENDING"
  \/ row[m].status = "FAILED" /\ row[m].due
  \/ row[m].status = "PROCESSING" /\ row[m].lease = "expired"

\* Mutant: the claim forgets expired leases.
Claimable_NoRecovery(m) ==
  /\ \/ row[m].status = "PENDING"
     \/ row[m].status = "FAILED" /\ row[m].due
  /\ row[m].attempts < MaxAttempts

\* The WHERE clause of the claim statement.
Claimable(m) ==
  /\ \/ row[m].status = "PENDING"
     \/ row[m].status = "FAILED" /\ row[m].due
     \/ row[m].status = "PROCESSING" /\ row[m].lease = "expired"
  /\ row[m].attempts < MaxAttempts

\* Mutant: the final updates match the row by id alone.
Owns_Mutant(w, m) == TRUE

\* The WHERE clause of markPublished, markFailed and extendLease.
Owns(w, m) == row[m].status = "PROCESSING" /\ row[m].lockedBy = w

-----------------------------------------------------------------------------
\* OutboxWriteService.storeEvents: the row commits with the domain write.
Save(m) ==
  /\ row[m].status = "ABSENT"
  /\ row' = [row EXCEPT ![m].status = "PENDING"]
  /\ UNCHANGED <<jobs, instance, handled>>

\* A process starts with a fresh random identity: one no row still carries.
Start(w) ==
  /\ instance[w] = "off"
  /\ \A m \in Messages : row[m].lockedBy # w
  /\ instance' = [instance EXCEPT ![w] = "running"]
  /\ UNCHANGED <<row, jobs, handled>>

\* beforeApplicationShutdown: no more claims, the batch in flight goes on.
BeginShutdown(w) ==
  /\ instance[w] = "running"
  /\ instance' = [instance EXCEPT ![w] = "draining"]
  /\ UNCHANGED <<row, jobs, handled>>

\* The process ends: a crash, the shutdown deadline or an orderly exit.
Stop(w) ==
  /\ instance[w] # "off"
  /\ instance' = [instance EXCEPT ![w] = "off"]
  /\ jobs' = {j \in jobs : j.worker # w}
  /\ UNCHANGED <<row, handled>>

\* The UPDATE of claimReadyBatch on the picked rows S.
Lock(w, S) ==
  row' = [m \in Messages |->
            IF m \in S
            THEN [row[m] EXCEPT !.status = "PROCESSING", !.lockedBy = w,
                                !.lease = "valid", !.attempts = @ + 1]
            ELSE row[m]]

\* Rows the claim of w may pick.  SKIP LOCKED passes over whatever another
\* statement holds at that moment, so any part of the ready rows may come back.
Pickable(w) ==
  {S \in SUBSET {m \in Messages : Claimable(m)} :
     S # {} /\ Cardinality(S) <= BatchLimit}

MayClaim(w) == instance[w] = "running" /\ ~isProcessing(w)

\* processReadyMessages -> processBatch: claim, then one job per message.
ClaimReadyBatch(w) ==
  /\ MayClaim(w)
  /\ \E S \in Pickable(w) :
       /\ Lock(w, S)
       /\ jobs' = jobs \cup
            {[worker |-> w, msg |-> m, attempt |-> row[m].attempts + 1,
              phase |-> "emitting", done |-> {}, current |-> TRUE] : m \in S}
  /\ UNCHANGED <<instance, handled>>

\* The claim commits but its answer is lost: the catch of
\* processReadyMessages logs and no message is processed.
ClaimAnswerLost(w) ==
  /\ MayClaim(w)
  /\ \E S \in Pickable(w) : Lock(w, S)
  /\ UNCHANGED <<jobs, instance, handled>>

-----------------------------------------------------------------------------
\* emitAsync runs every listener; one of them completes.
HandlerSucceeds(j, h) ==
  /\ j.phase = "emitting" /\ h \notin j.done
  /\ jobs' = (jobs \ {j}) \cup {[j EXCEPT !.done = @ \cup {h}]}
  /\ handled' = [handled EXCEPT ![j.msg] = @ \cup {h}]
  /\ UNCHANGED <<row, instance>>

\* rehydrate throws, no listener is registered, or a listener rejects.
HandlerFails(j) ==
  /\ j.phase = "emitting" /\ j.done # Handlers
  /\ jobs' = (jobs \ {j}) \cup {[j EXCEPT !.phase = "failing"]}
  /\ UNCHANGED <<row, instance, handled>>

\* renewLease -> extendLease, on the interval timer of the job.
RenewLease(j) ==
  /\ Owns(j.worker, j.msg) /\ row[j.msg].lease = "expired"
  /\ row' = [row EXCEPT ![j.msg].lease = "valid"]
  /\ UNCHANGED <<jobs, instance, handled>>

\* markPublished: zero affected rows means the lease was lost.
SetPublished(j) ==
  row' = IF Owns(j.worker, j.msg)
         THEN [row EXCEPT ![j.msg] = [@ EXCEPT !.status = "PUBLISHED",
                                               !.lockedBy = NoWorker,
                                               !.lease = "none"]]
         ELSE row

Publishable(j) == j.phase = "emitting" /\ j.done = Handlers

MarkPublished(j) ==
  /\ Publishable(j)
  /\ SetPublished(j)
  /\ jobs' = jobs \ {j}
  /\ UNCHANGED <<instance, handled>>

\* The update rejects, applied or not: the catch block goes on to markFailed.
MarkPublishedThrows(j) ==
  /\ Publishable(j)
  /\ SetPublished(j) \/ UNCHANGED row
  /\ jobs' = (jobs \ {j}) \cup {[j EXCEPT !.phase = "failing"]}
  /\ UNCHANGED <<instance, handled>>

\* markFailed decides by the attempts of the claimed copy, not of the row.
SetFailed(j) ==
  row' = IF Owns(j.worker, j.msg)
         THEN [row EXCEPT ![j.msg] =
                 [@ EXCEPT !.status = IF j.attempt >= MaxAttempts
                                      THEN "DEAD" ELSE "FAILED",
                           !.lockedBy = NoWorker, !.lease = "none",
                           !.due = FALSE]]
         ELSE row

MarkFailed(j) ==
  /\ j.phase = "failing"
  /\ SetFailed(j)
  /\ jobs' = jobs \ {j}
  /\ UNCHANGED <<instance, handled>>

\* markFailed rejects, applied or not.  Promise.all rejects at once and the
\* finally of processReadyMessages clears isProcessing, so the other jobs of
\* the batch run on with nobody waiting for them.
MarkFailedThrows(j) ==
  /\ j.phase = "failing"
  /\ SetFailed(j) \/ UNCHANGED row
  /\ jobs' = {IF j.current /\ k.worker = j.worker
              THEN [k EXCEPT !.current = FALSE] ELSE k : k \in jobs \ {j}}
  /\ UNCHANGED <<instance, handled>>

-----------------------------------------------------------------------------
LeaseExpires(m) ==
  /\ row[m].lease = "valid"
  /\ row' = [row EXCEPT ![m].lease = "expired"]
  /\ UNCHANGED <<jobs, instance, handled>>

RetryComesDue(m) ==
  /\ row[m].status = "FAILED" /\ ~row[m].due
  /\ row' = [row EXCEPT ![m].due = TRUE]
  /\ UNCHANGED <<jobs, instance, handled>>

-----------------------------------------------------------------------------
HandlerSettles ==
  \E j \in jobs : HandlerFails(j) \/ \E h \in Handlers : HandlerSucceeds(j, h)

Marks ==
  \E j \in jobs : \/ MarkPublished(j) \/ MarkPublishedThrows(j)
                  \/ MarkFailed(j) \/ MarkFailedThrows(j)

Next ==
  \/ \E m \in Messages : Save(m) \/ LeaseExpires(m) \/ RetryComesDue(m)
  \/ \E w \in Workers : Start(w) \/ BeginShutdown(w) \/ Stop(w)
  \/ \E w \in Workers : ClaimReadyBatch(w) \/ ClaimAnswerLost(w)
  \/ \E j \in jobs : RenewLease(j)
  \/ HandlerSettles
  \/ Marks

Spec == Init /\ [][Next]_vars

\* Time passes, started handlers settle, a process told to shut down exits,
\* processes are restarted, and a running worker polls often enough to claim
\* before it is stopped.  Nothing obliges a producer to save a message, a
\* process to crash or a lease to be renewed.
Fairness ==
  /\ \A m \in Messages : WF_vars(LeaseExpires(m)) /\ WF_vars(RetryComesDue(m))
  /\ WF_vars(HandlerSettles \/ Marks)
  /\ WF_vars(\E w \in Workers : Start(w))
  /\ \A w \in Workers : WF_vars(instance[w] = "draining" /\ Stop(w))
  /\ SF_vars(\E w \in Workers : ClaimReadyBatch(w))

FairSpec == Spec /\ Fairness

-----------------------------------------------------------------------------
(* Properties *)

\* The final update of j would take effect now.
CanMark(j) == Owns(j.worker, j.msg)

\* At most one awaited job can still write the outcome of a message, whatever
\* leases expired and whoever claimed it since: the fence of locked_by is
\* enough for every job its process waits for (markPublished, markFailed).
ExclusiveClaim ==
  \A j, k \in jobs :
    j.current /\ k.current /\ j.msg = k.msg /\ CanMark(j) /\ CanMark(k) => j = k

Fate(m) == CASE row[m].status = "ABSENT" -> "unsaved"
             [] row[m].status = "PUBLISHED" -> "delivered"
             [] row[m].status = "DEAD" -> "abandoned"
             [] OTHER -> "pending"

Contract == INSTANCE OutboxContract WITH
              fate <- [m \in Messages |-> Fate(m)],
              tries <- [m \in Messages |-> row[m].attempts],
              effects <- handled

\* The workers keep the contract of the outbox: PUBLISHED only after every
\* handler completed, DEAD only after the last attempt, both for good, and no
\* attempt beyond max_attempts (processMessage, markPublished, markFailed).
ImplementsContract == Contract!Spec

Settled(m) == row[m].status \in {"PUBLISHED", "DEAD"}

\* A row that was claimed for the last time and whose claim came to nothing.
Wedged(m) ==
  /\ row[m].attempts = MaxAttempts /\ ~Settled(m)
  /\ \A j \in jobs : j.msg = m => ~CanMark(j)

\* Every saved message ends PUBLISHED or DEAD, except one whose last attempt
\* was cut short (the polling loop, claimReadyBatch and the retry schedule).
EventuallySettled ==
  \A m \in Messages : row[m].status # "ABSENT" ~> Settled(m) \/ Wedged(m)

\* docs/events/README.md on locked_until: it keeps a message from being stuck
\* forever when the worker dies, so an expired lease that no live job holds can
\* be claimed again (claimReadyBatch).
ExpiredLeaseRecoverable ==
  \A m \in Messages :
    /\ row[m].status = "PROCESSING" /\ row[m].lease = "expired"
    /\ \A j \in jobs : j.msg = m => ~CanMark(j)
    => Claimable(m)

\* docs/events/README.md on FAILED: it failed but can still be tried again.
FailedIsRetryable ==
  \A m \in Messages : row[m].status = "FAILED" => row[m].attempts < MaxAttempts
=============================================================================
