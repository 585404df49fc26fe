---------------------------- MODULE OutboxProofs ----------------------------
(***************************************************************************)
(* Proofs about Outbox, for any sets of workers, messages and handlers.    *)
(***************************************************************************)
EXTENDS Outbox, TLAPS

USE NoWorkerAssumption, HandlersAssumption, MaxAttemptsAssumption

-----------------------------------------------------------------------------
(* The inductive invariant *)

\* A job works on a saved row, on an attempt the row has counted, and what it
\* completed is completed.
JobsKnown ==
  \A j \in jobs :
    /\ row[j.msg].status # "ABSENT"
    /\ j.attempt <= row[j.msg].attempts
    /\ j.done \subseteq handled[j.msg]

\* No attempt of a message is worked on twice.
DistinctAttempts ==
  \A j, k \in jobs : j.msg = k.msg /\ j.attempt = k.attempt => j = k

\* An awaited job that owns its row works on the latest attempt.
CurrentIsLatest ==
  \A j \in jobs :
    j.current /\ Owns(j.worker, j.msg) => j.attempt = row[j.msg].attempts

\* What the status of a row says about the row.
RowsHonest ==
  \A m \in Messages :
    /\ row[m].status = "PUBLISHED" => handled[m] = Handlers
    /\ row[m].status = "DEAD" => row[m].attempts = MaxAttempts

IInv == TypeOK /\ JobsKnown /\ DistinctAttempts /\ CurrentIsLatest /\ RowsHonest

-----------------------------------------------------------------------------
\* The types of the state survive every step.
LEMMA TypeStep == TypeOK /\ [Next]_vars => TypeOK'
<1> SUFFICES ASSUME TypeOK, [Next]_vars PROVE TypeOK'
  OBVIOUS
<1> USE DEF TypeOK
<1>1. ASSUME NEW m \in Messages, Save(m) \/ LeaseExpires(m) \/ RetryComesDue(m)
      PROVE TypeOK'
  <2>1. CASE Save(m)
    BY <2>1 DEF Save, Row, Statuses
  <2>2. CASE LeaseExpires(m)
    BY <2>2 DEF LeaseExpires, Row
  <2>3. CASE RetryComesDue(m)
    BY <2>3 DEF RetryComesDue, Row
  <2> QED BY <1>1, <2>1, <2>2, <2>3
<1>2. ASSUME NEW w \in Workers, Start(w) \/ BeginShutdown(w) \/ Stop(w)
      PROVE TypeOK'
  BY <1>2 DEF Start, BeginShutdown, Stop
<1>3. ASSUME NEW w \in Workers, NEW S \in Pickable(w), Lock(w, S)
      PROVE row' \in [Messages -> Row]
  <2>1. ASSUME NEW m \in S
        PROVE [row[m] EXCEPT !.status = "PROCESSING", !.lockedBy = w,
                             !.lease = "valid", !.attempts = @ + 1] \in Row
    <3>1. row[m] \in Row /\ row[m].attempts + 1 \in 0..MaxAttempts
      BY DEF Pickable, Claimable, Row
    <3> QED BY <3>1 DEF Row, Statuses
  <2> QED BY <1>3, <2>1 DEF Lock
<1>4. ASSUME NEW w \in Workers, ClaimReadyBatch(w) PROVE TypeOK'
  <2>1. PICK S \in Pickable(w) :
          /\ Lock(w, S)
          /\ jobs' = jobs \cup
               {[worker |-> w, msg |-> m, attempt |-> row[m].attempts + 1,
                 phase |-> "emitting", done |-> {}, current |-> TRUE] : m \in S}
    BY <1>4 DEF ClaimReadyBatch
  <2>2. \A m \in S : m \in Messages /\ row[m].attempts + 1 \in 1..MaxAttempts
    BY DEF Pickable, Claimable, Row
  <2>3. jobs' \in SUBSET Job
    <3>1. ASSUME NEW m \in S
          PROVE [worker |-> w, msg |-> m, attempt |-> row[m].attempts + 1,
                 phase |-> "emitting", done |-> {}, current |-> TRUE] \in Job
      BY <2>2 DEF Job
    <3> QED BY <2>1, <3>1
  <2> QED BY <1>3, <1>4, <2>1, <2>3 DEF ClaimReadyBatch
<1>5. ASSUME NEW w \in Workers, ClaimAnswerLost(w) PROVE TypeOK'
  BY <1>3, <1>5 DEF ClaimAnswerLost
<1>6. ASSUME NEW j \in jobs, RenewLease(j) PROVE TypeOK'
  BY <1>6 DEF RenewLease, Row, Job
<1>7. ASSUME NEW j \in jobs, HandlerFails(j) PROVE TypeOK'
  BY <1>7 DEF HandlerFails, Job
<1>8. ASSUME NEW j \in jobs, NEW h \in Handlers, HandlerSucceeds(j, h)
      PROVE TypeOK'
  BY <1>8 DEF HandlerSucceeds, Job
<1>9. ASSUME NEW j \in jobs, MarkPublished(j) \/ MarkPublishedThrows(j)
      PROVE TypeOK'
  <2> DEFINE r == [row[j.msg] EXCEPT !.status = "PUBLISHED",
                                     !.lockedBy = NoWorker, !.lease = "none"]
  <2>a. j.msg \in Messages /\ row[j.msg] \in Row
    BY DEF Job
  <2>0. j.msg \in Messages /\ row[j.msg] \in Row /\ r \in Row
    BY <2>a DEF Row, Statuses
  <2>1. row' \in [Messages -> Row]
    BY <1>9, <2>0 DEF MarkPublished, MarkPublishedThrows, SetPublished
  <2>2. jobs' \in SUBSET Job
    BY <1>9 DEF MarkPublished, MarkPublishedThrows, Job
  <2> QED BY <1>9, <2>1, <2>2 DEF MarkPublished, MarkPublishedThrows
<1>10. ASSUME NEW j \in jobs, MarkFailed(j) \/ MarkFailedThrows(j)
       PROVE TypeOK'
  <2> DEFINE r == [row[j.msg] EXCEPT !.status = IF j.attempt >= MaxAttempts
                                                THEN "DEAD" ELSE "FAILED",
                                     !.lockedBy = NoWorker, !.lease = "none",
                                     !.due = FALSE]
  <2>a. j.msg \in Messages /\ row[j.msg] \in Row
    BY DEF Job
  <2>0. j.msg \in Messages /\ row[j.msg] \in Row /\ r \in Row
    BY <2>a DEF Row, Statuses
  <2>1. row' \in [Messages -> Row]
    BY <1>10, <2>0 DEF MarkFailed, MarkFailedThrows, SetFailed
  <2>2. jobs' \in SUBSET Job
    <3>1. ASSUME NEW k \in jobs
          PROVE (IF j.current /\ k.worker = j.worker
                 THEN [k EXCEPT !.current = FALSE] ELSE k) \in Job
      BY DEF Job
    <3> QED BY <1>10, <3>1 DEF MarkFailed, MarkFailedThrows
  <2> QED BY <1>10, <2>1, <2>2 DEF MarkFailed, MarkFailedThrows
<1>11. CASE UNCHANGED vars
  BY <1>11 DEF vars
<1> QED
  BY <1>1, <1>2, <1>4, <1>5, <1>6, <1>7, <1>8, <1>9, <1>10, <1>11
  DEF Next, HandlerSettles, Marks

\* TypeOK of the outbox: in particular attempts never exceeds max_attempts,
\* the CHECK constraint CHK_outbox_messages_attempts of the table.
THEOREM OutboxTypeOK == Spec => []TypeOK
<1>1. Init => TypeOK
  BY DEF Init, TypeOK, Row, Statuses
<1> QED BY <1>1, TypeStep, PTL DEF Spec

-----------------------------------------------------------------------------
Rest == JobsKnown /\ DistinctAttempts /\ CurrentIsLatest /\ RowsHonest

\* Actions of the environment and of the processes' life cycle.
LEMMA EnvironmentStep ==
  ASSUME IInv, TypeOK',
         \/ \E m \in Messages : Save(m) \/ LeaseExpires(m) \/ RetryComesDue(m)
         \/ \E w \in Workers : Start(w) \/ BeginShutdown(w) \/ Stop(w)
         \/ \E j \in jobs : RenewLease(j)
         \/ UNCHANGED vars
  PROVE  Rest'
<1> USE DEF IInv, TypeOK, Rest, JobsKnown, DistinctAttempts, CurrentIsLatest,
            RowsHonest, Owns
<1>1. ASSUME NEW m \in Messages, Save(m) PROVE Rest'
  BY <1>1 DEF Save, Row, Job
<1>2. ASSUME NEW m \in Messages, LeaseExpires(m) \/ RetryComesDue(m) PROVE Rest'
  BY <1>2 DEF LeaseExpires, RetryComesDue, Row, Job
<1>3. ASSUME NEW w \in Workers, Start(w) \/ BeginShutdown(w) \/ Stop(w) PROVE Rest'
  BY <1>3 DEF Start, BeginShutdown, Stop
<1>4. ASSUME NEW j \in jobs, RenewLease(j) PROVE Rest'
  BY <1>4 DEF RenewLease, Row, Job
<1>5. CASE UNCHANGED vars
  BY <1>5 DEF vars
<1> QED BY <1>1, <1>2, <1>3, <1>4, <1>5

\* What a claim of the rows S by worker w does to the rows.
LEMMA LockFacts ==
  ASSUME TypeOK, NEW w \in Workers, NEW S \in Pickable(w), Lock(w, S)
  PROVE  /\ S \subseteq Messages
         /\ \A m \in S : /\ Claimable(m)
                         /\ row'[m].status = "PROCESSING"
                         /\ row'[m].lockedBy = w
                         /\ row'[m].attempts = row[m].attempts + 1
         /\ \A m \in Messages \ S : row'[m] = row[m]
         /\ \A m \in Messages : row'[m].attempts >= row[m].attempts
<1>1. S \subseteq Messages /\ \A m \in S : Claimable(m)
  BY DEF Pickable
<1>2. \A m \in Messages : row[m] \in Row /\ row[m].attempts \in Nat
  BY DEF TypeOK, Row
<1>3. \A m \in Messages \ S : row'[m] = row[m]
  BY <1>1 DEF Lock
<1>4. ASSUME NEW m \in S
      PROVE /\ row'[m].status = "PROCESSING"
            /\ row'[m].lockedBy = w
            /\ row'[m].attempts = row[m].attempts + 1
  <2>1. row'[m] = [row[m] EXCEPT !.status = "PROCESSING", !.lockedBy = w,
                                 !.lease = "valid", !.attempts = @ + 1]
    BY <1>1 DEF Lock
  <2> QED BY <1>1, <1>2, <2>1 DEF Row
<1> QED BY <1>1, <1>2, <1>3, <1>4

\* A claim starts the next attempt of rows nobody else may finish.
LEMMA ClaimStep ==
  ASSUME IInv, TypeOK', NEW w \in Workers,
         ClaimReadyBatch(w) \/ ClaimAnswerLost(w)
  PROVE  Rest'
<1> USE DEF IInv
<1>1. PICK S \in Pickable(w) :
        /\ Lock(w, S)
        /\ jobs' = jobs \/
           /\ ~isProcessing(w)
           /\ jobs' = jobs \cup
               {[worker |-> w, msg |-> m, attempt |-> row[m].attempts + 1,
                 phase |-> "emitting", done |-> {}, current |-> TRUE] : m \in S}
  BY DEF ClaimReadyBatch, ClaimAnswerLost, MayClaim
<1>2. /\ S \subseteq Messages
      /\ \A m \in S : /\ Claimable(m)
                      /\ row'[m].status = "PROCESSING"
                      /\ row'[m].lockedBy = w
                      /\ row'[m].attempts = row[m].attempts + 1
      /\ \A m \in Messages \ S : row'[m] = row[m]
      /\ \A m \in Messages : row'[m].attempts >= row[m].attempts
  BY <1>1, LockFacts
<1>3. handled' = handled /\ ~isProcessing(w)
  BY DEF ClaimReadyBatch, ClaimAnswerLost, MayClaim
\* A job of the next state is an old one or a fresh one.
<1>4. ASSUME NEW j \in jobs'
      PROVE  \/ j \in jobs
             \/ /\ j.msg \in S /\ j.worker = w /\ j.current /\ j.done = {}
                /\ j.attempt = row[j.msg].attempts + 1
  BY <1>1
<1>5. \A j \in jobs : /\ j.msg \in Messages /\ j.attempt \in Nat
                      /\ row[j.msg].attempts \in Nat
                      /\ j.attempt <= row[j.msg].attempts
  BY DEF JobsKnown, TypeOK, Job, Row
<1>6. JobsKnown'
  <2> SUFFICES ASSUME NEW j \in jobs'
               PROVE  /\ row'[j.msg].status # "ABSENT"
                      /\ j.attempt <= row'[j.msg].attempts
                      /\ j.done \subseteq handled'[j.msg]
    BY DEF JobsKnown
  <2>1. CASE j \in jobs
    BY <1>2, <1>3, <1>5, <2>1, j.msg \in S \/ j.msg \in Messages \ S
    DEF JobsKnown, TypeOK, Job, Row
  <2>2. CASE j \notin jobs
    BY <1>2, <1>4, <2>2 DEF TypeOK, Row
  <2> QED BY <2>1, <2>2
<1>7. DistinctAttempts'
  <2> SUFFICES ASSUME NEW j \in jobs', NEW k \in jobs',
                      j.msg = k.msg, j.attempt = k.attempt
               PROVE  j = k
    BY DEF DistinctAttempts
  <2>1. CASE j \in jobs /\ k \in jobs
    BY <2>1 DEF DistinctAttempts
  <2>2. CASE j \in jobs /\ k \notin jobs
    BY <1>4, <1>5, <2>2
  <2>3. CASE j \notin jobs /\ k \in jobs
    BY <1>4, <1>5, <2>3
  <2>4. CASE j \notin jobs /\ k \notin jobs
    <3>1. ASSUME NEW i \in jobs', i \notin jobs
          PROVE  i = [worker |-> w, msg |-> i.msg,
                      attempt |-> row[i.msg].attempts + 1,
                      phase |-> "emitting", done |-> {}, current |-> TRUE]
      BY <1>1, <3>1
    <3> QED BY <2>4, <3>1
  <2> QED BY <2>1, <2>2, <2>3, <2>4
<1>8. CurrentIsLatest'
  <2> SUFFICES ASSUME NEW j \in jobs', j.current, Owns(j.worker, j.msg)'
               PROVE  j.attempt = row'[j.msg].attempts
    BY DEF CurrentIsLatest
  <2>1. CASE j \in jobs /\ j.msg \in S
    BY <1>2, <1>3, <2>1 DEF Owns, isProcessing
  <2>2. CASE j \in jobs /\ j.msg \notin S
    BY <1>2, <1>5, <2>2 DEF Owns, CurrentIsLatest
  <2>3. CASE j \notin jobs
    BY <1>2, <1>4, <2>3
  <2> QED BY <2>1, <2>2, <2>3
<1>9. RowsHonest'
  BY <1>2, <1>3 DEF RowsHonest
<1> QED BY <1>6, <1>7, <1>8, <1>9 DEF Rest

-----------------------------------------------------------------------------
\* Steps that only rewrite or drop jobs: each job of the next state comes from
\* one old job of the same attempt, which is awaited if it is.
JobsComeFrom ==
  /\ \A k \in jobs' : \E i \in jobs :
       /\ i.msg = k.msg /\ i.attempt = k.attempt /\ i.worker = k.worker
       /\ k.current => i.current
       /\ k.done \subseteq handled'[k.msg]
  /\ \A k, l \in jobs' : k.msg = l.msg /\ k.attempt = l.attempt => k = l

\* The rows change, if at all, by one final update of a job.
OneMark ==
  \/ row' = row
  \/ \E j \in jobs :
       /\ Owns(j.worker, j.msg)
       /\ row'[j.msg].status \in {"PUBLISHED", "FAILED", "DEAD"}
       /\ row'[j.msg].attempts = row[j.msg].attempts
       /\ row'[j.msg].status = "PUBLISHED" => handled[j.msg] = Handlers
       /\ row'[j.msg].status = "DEAD" => row[j.msg].attempts = MaxAttempts
       /\ \A m \in Messages \ {j.msg} : row'[m] = row[m]

\* Such steps keep the invariant as long as no completion is forgotten.
LEMMA JobStep ==
  ASSUME IInv, TypeOK', JobsComeFrom, OneMark,
         \A m \in Messages : handled[m] \subseteq handled'[m]
  PROVE  Rest'
<1> USE DEF IInv
<1>1. \A m \in Messages : /\ row[m].status # "ABSENT" => row'[m].status # "ABSENT"
                          /\ row'[m].attempts = row[m].attempts
                          /\ row'[m] # row[m] => row'[m].status # "PROCESSING"
  BY DEF OneMark
<1>2. \A k \in jobs' : k.msg \in Messages
  BY DEF TypeOK, Job
<1>3. JobsKnown'
  BY <1>1, <1>2 DEF JobsKnown, JobsComeFrom
<1>4. DistinctAttempts'
  BY DEF DistinctAttempts, JobsComeFrom
<1>5. CurrentIsLatest'
  BY <1>1, <1>2 DEF CurrentIsLatest, JobsComeFrom, Owns
<1>6. RowsHonest'
  <2> SUFFICES ASSUME NEW m \in Messages
               PROVE  /\ row'[m].status = "PUBLISHED" => handled'[m] = Handlers
                      /\ row'[m].status = "DEAD" => row'[m].attempts = MaxAttempts
    BY DEF RowsHonest
  <2>1. handled[m] \subseteq handled'[m] /\ handled'[m] \subseteq Handlers
    BY DEF TypeOK
  <2> QED BY <1>1, <2>1 DEF RowsHonest, OneMark
<1> QED BY <1>3, <1>4, <1>5, <1>6 DEF Rest

\* The mark updates are such updates, under the conditions they are tried in.
LEMMA PublishedIsOneMark ==
  ASSUME IInv, NEW j \in jobs, Publishable(j), SetPublished(j) \/ UNCHANGED row
  PROVE  OneMark
<1>1. j.msg \in Messages /\ row[j.msg] \in Row
  BY DEF IInv, TypeOK, Job
<1>2. handled[j.msg] = Handlers
  BY <1>1 DEF IInv, TypeOK, JobsKnown, Publishable
<1>3. CASE row' # row
  <2>1. /\ Owns(j.worker, j.msg)
        /\ row' = [row EXCEPT ![j.msg] = [@ EXCEPT !.status = "PUBLISHED",
                                                  !.lockedBy = NoWorker,
                                                  !.lease = "none"]]
    BY <1>3 DEF SetPublished
  <2>2. /\ row'[j.msg].status = "PUBLISHED"
        /\ row'[j.msg].attempts = row[j.msg].attempts
        /\ \A m \in Messages \ {j.msg} : row'[m] = row[m]
    BY <1>1, <2>1 DEF IInv, TypeOK, Row
  <2> QED BY <1>2, <2>1, <2>2 DEF OneMark
<1> QED BY <1>3 DEF OneMark

LEMMA FailedIsOneMark ==
  ASSUME IInv, NEW j \in jobs, SetFailed(j) \/ UNCHANGED row
  PROVE  OneMark
<1>1. j.msg \in Messages /\ row[j.msg] \in Row
  BY DEF IInv, TypeOK, Job
<1>2. j.attempt >= MaxAttempts => row[j.msg].attempts = MaxAttempts
  BY <1>1 DEF IInv, TypeOK, JobsKnown, Job, Row
<1>3. CASE row' # row
  <2>1. /\ Owns(j.worker, j.msg)
        /\ row' = [row EXCEPT ![j.msg] =
                     [@ EXCEPT !.status = IF j.attempt >= MaxAttempts
                                          THEN "DEAD" ELSE "FAILED",
                               !.lockedBy = NoWorker, !.lease = "none",
                               !.due = FALSE]]
    BY <1>3 DEF SetFailed
  <2>2. /\ row'[j.msg].status = IF j.attempt >= MaxAttempts
                                THEN "DEAD" ELSE "FAILED"
        /\ row'[j.msg].attempts = row[j.msg].attempts
        /\ \A m \in Messages \ {j.msg} : row'[m] = row[m]
    BY <1>1, <2>1 DEF IInv, TypeOK, Row
  <2> QED BY <1>2, <2>1, <2>2 DEF OneMark
<1> QED BY <1>3 DEF OneMark

\* The steps of a job keep the invariant.
LEMMA JobActionsStep ==
  ASSUME IInv, TypeOK', HandlerSettles \/ Marks
  PROVE  Rest'
<1> USE DEF IInv
<1>0. \A j \in jobs : j \in Job /\ j.msg \in Messages /\ j.done \subseteq handled[j.msg]
  BY DEF TypeOK, Job, JobsKnown
<1>1. ASSUME NEW j \in jobs, HandlerFails(j) PROVE Rest'
  <2>1. JobsComeFrom
    BY <1>0, <1>1 DEF HandlerFails, JobsComeFrom, DistinctAttempts, Job
  <2> QED BY <1>1, <2>1, JobStep DEF HandlerFails, OneMark
<1>2. ASSUME NEW j \in jobs, NEW h \in Handlers, HandlerSucceeds(j, h) PROVE Rest'
  <2>1. \A m \in Messages : handled[m] \subseteq handled'[m]
    BY <1>0, <1>2 DEF HandlerSucceeds, TypeOK
  <2>2. h \in handled'[j.msg]
    BY <1>0, <1>2 DEF HandlerSucceeds, TypeOK
  <2>3. JobsComeFrom
    <3> DEFINE n == [j EXCEPT !.done = @ \cup {h}]
    <3>1. jobs' = (jobs \ {j}) \cup {n}
      BY <1>2 DEF HandlerSucceeds
    <3>2. /\ n.msg = j.msg /\ n.attempt = j.attempt /\ n.worker = j.worker
          /\ n.current = j.current /\ n.done = j.done \cup {h}
      BY <1>0 DEF Job
    <3>3. n.done \subseteq handled'[j.msg]
      BY <1>0, <2>1, <2>2, <3>2
    <3>4. \A k \in jobs' : \E i \in jobs :
            /\ i.msg = k.msg /\ i.attempt = k.attempt /\ i.worker = k.worker
            /\ k.current => i.current
            /\ k.done \subseteq handled'[k.msg]
      BY <1>0, <2>1, <3>1, <3>2, <3>3
    <3>5. \A k, l \in jobs' : k.msg = l.msg /\ k.attempt = l.attempt => k = l
      <4>1. \A k \in jobs \ {j} : ~(k.msg = n.msg /\ k.attempt = n.attempt)
        BY <3>2 DEF DistinctAttempts
      <4>2. \A k, l \in jobs : k.msg = l.msg /\ k.attempt = l.attempt => k = l
        BY DEF DistinctAttempts
      <4> HIDE DEF n
      <4> QED BY <3>1, <4>1, <4>2
    <3> QED BY <3>4, <3>5 DEF JobsComeFrom
  <2> QED BY <1>2, <2>1, <2>3, JobStep DEF HandlerSucceeds, OneMark
<1>3. ASSUME NEW j \in jobs, MarkPublished(j) \/ MarkPublishedThrows(j) PROVE Rest'
  <2>1. JobsComeFrom
    BY <1>0, <1>3
    DEF MarkPublished, MarkPublishedThrows, JobsComeFrom, DistinctAttempts, Job
  <2>2. OneMark
    BY <1>3, PublishedIsOneMark DEF MarkPublished, MarkPublishedThrows
  <2> QED BY <1>3, <2>1, <2>2, JobStep DEF MarkPublished, MarkPublishedThrows
<1>4. ASSUME NEW j \in jobs, MarkFailed(j) \/ MarkFailedThrows(j) PROVE Rest'
  <2>1. JobsComeFrom
    <3>1. CASE MarkFailed(j)
      BY <1>0, <3>1 DEF MarkFailed, JobsComeFrom, DistinctAttempts, Job
    <3>2. CASE MarkFailedThrows(j)
      <4> DEFINE Left(k) == IF j.current /\ k.worker = j.worker
                            THEN [k EXCEPT !.current = FALSE] ELSE k
      <4>1. jobs' = {Left(k) : k \in jobs \ {j}}
        BY <3>2 DEF MarkFailedThrows
      <4>2. ASSUME NEW k \in jobs
            PROVE  /\ Left(k).msg = k.msg /\ Left(k).attempt = k.attempt
                   /\ Left(k).worker = k.worker /\ Left(k).done = k.done
                   /\ Left(k).current => k.current
        BY <1>0 DEF Job
      <4>3. handled' = handled
        BY <3>2 DEF MarkFailedThrows
      <4>4. \A k \in jobs' : \E i \in jobs : k = Left(i)
        BY <4>1
      <4> HIDE DEF Left
      <4>5. \A k \in jobs' : \E i \in jobs :
              /\ i.msg = k.msg /\ i.attempt = k.attempt /\ i.worker = k.worker
              /\ k.current => i.current
              /\ k.done \subseteq handled'[k.msg]
        BY <1>0, <4>2, <4>3, <4>4
      <4>6. \A k, l \in jobs' : k.msg = l.msg /\ k.attempt = l.attempt => k = l
        BY <4>2, <4>4 DEF DistinctAttempts
      <4> QED BY <4>5, <4>6 DEF JobsComeFrom
    <3> QED BY <1>4, <3>1, <3>2
  <2>2. OneMark
    BY <1>4, FailedIsOneMark DEF MarkFailed, MarkFailedThrows
  <2> QED BY <1>4, <2>1, <2>2, JobStep DEF MarkFailed, MarkFailedThrows
<1> QED BY <1>1, <1>2, <1>3, <1>4 DEF HandlerSettles, Marks

LEMMA IInvStep == IInv /\ [Next]_vars => IInv'
<1> SUFFICES ASSUME IInv, [Next]_vars PROVE IInv'
  OBVIOUS
<1>1. TypeOK'
  BY TypeStep DEF IInv
<1>2. Rest'
  BY <1>1, EnvironmentStep, ClaimStep, JobActionsStep DEF Next
<1> QED BY <1>1, <1>2 DEF IInv, Rest

LEMMA IInvHolds == Spec => []IInv
<1>1. Init => IInv
  BY DEF Init, IInv, TypeOK, Row, Statuses, JobsKnown, DistinctAttempts,
         CurrentIsLatest, RowsHonest
<1> QED BY <1>1, IInvStep, PTL DEF Spec

\* Of the jobs a process waits for, at most one can still decide the fate of
\* a message: the lock_by fence of markPublished and markFailed excludes every
\* other, whatever leases expired.
THEOREM OutboxExclusiveClaim == Spec => []ExclusiveClaim
<1>1. IInv => ExclusiveClaim
  BY DEF IInv, ExclusiveClaim, CanMark, CurrentIsLatest, DistinctAttempts
<1> QED BY <1>1, IInvHolds, PTL

-----------------------------------------------------------------------------
(* The workers implement the contract of the outbox *)

\* Every step of the workers is a step of the contract or changes nothing it
\* can see.
LEMMA ContractStep == IInv /\ [Next]_vars => [Contract!Next]_(Contract!vars)
<1> SUFFICES ASSUME IInv, [Next]_vars PROVE [Contract!Next]_(Contract!vars)
  OBVIOUS
<1> USE DEF IInv, TypeOK
<1> DEFINE fates == [m \in Messages |-> Fate(m)]
           tries == [m \in Messages |-> row[m].attempts]
<1>a. \A m \in Messages : row[m] \in Row
  OBVIOUS
<1>b. \A j \in jobs : j.msg \in Messages /\ j \in Job
  BY DEF Job
\* Steps that leave the contract's view alone.
<1>1. ASSUME handled' = handled,
             \A m \in Messages : Fate(m)' = Fate(m) /\ row'[m].attempts = row[m].attempts
      PROVE  UNCHANGED Contract!vars
  <2>1. fates' = fates /\ tries' = tries
    BY <1>1
  <2> QED BY <1>1, <2>1 DEF Contract!vars
<1>2. ASSUME NEW m \in Messages, Save(m) PROVE Contract!Next
  <2>1. fates[m] = "unsaved"
    BY <1>2 DEF Save, Fate
  <2>2. fates' = [fates EXCEPT ![m] = "pending"]
    BY <1>2, <1>a DEF Save, Fate, Row
  <2>3. tries' = tries /\ handled' = handled
    BY <1>2, <1>a DEF Save, Row
  <2> QED BY <2>1, <2>2, <2>3 DEF Contract!Next, Contract!Save
<1>3. ASSUME NEW m \in Messages, LeaseExpires(m) \/ RetryComesDue(m)
      PROVE  UNCHANGED Contract!vars
  <2>1. \A k \in Messages : row'[k].status = row[k].status
                            /\ row'[k].attempts = row[k].attempts
    BY <1>3, <1>a DEF LeaseExpires, RetryComesDue, Row
  <2> QED BY <1>1, <1>3, <2>1 DEF LeaseExpires, RetryComesDue, Fate
<1>4. ASSUME NEW w \in Workers, Start(w) \/ BeginShutdown(w) \/ Stop(w)
      PROVE  UNCHANGED Contract!vars
  BY <1>1, <1>4 DEF Start, BeginShutdown, Stop, Fate
<1>5. ASSUME NEW j \in jobs, RenewLease(j) \/ HandlerFails(j)
      PROVE  UNCHANGED Contract!vars
  <2>1. \A k \in Messages : row'[k].status = row[k].status
                            /\ row'[k].attempts = row[k].attempts
    BY <1>5, <1>a, <1>b DEF RenewLease, HandlerFails, Row
  <2> QED BY <1>1, <1>5, <2>1 DEF RenewLease, HandlerFails, Fate
<1>6. ASSUME NEW w \in Workers, ClaimReadyBatch(w) \/ ClaimAnswerLost(w)
      PROVE  Contract!Next
  <2>1. PICK S \in Pickable(w) : Lock(w, S)
    BY <1>6 DEF ClaimReadyBatch, ClaimAnswerLost
  <2>2. /\ S \subseteq Messages
        /\ \A m \in S : /\ Claimable(m)
                        /\ row'[m].status = "PROCESSING"
                        /\ row'[m].attempts = row[m].attempts + 1
        /\ \A m \in Messages \ S : row'[m] = row[m]
    BY <2>1, LockFacts
  <2>3. \A m \in S : fates[m] = "pending" /\ tries[m] < MaxAttempts
    BY <2>2 DEF Claimable, Fate
  <2>4. fates' = fates
    BY <2>2 DEF Claimable, Fate
  <2>5. tries' = [m \in Messages |-> IF m \in S THEN tries[m] + 1 ELSE tries[m]]
    BY <2>2
  <2>6. handled' = handled
    BY <1>6 DEF ClaimReadyBatch, ClaimAnswerLost
  <2>7. Contract!Try(S)
    BY <2>3, <2>4, <2>5, <2>6 DEF Contract!Try
  <2> QED BY <2>2, <2>7 DEF Contract!Next
<1>7. ASSUME NEW j \in jobs, NEW h \in Handlers, HandlerSucceeds(j, h)
      PROVE  Contract!Next
  <2>1. tries[j.msg] > 0
    BY <1>a, <1>b DEF JobsKnown, Job, Row
  <2>2. fates' = fates /\ tries' = tries
    BY <1>7 DEF HandlerSucceeds, Fate
  <2>3. handled' = [handled EXCEPT ![j.msg] = @ \cup {h}]
    BY <1>7 DEF HandlerSucceeds
  <2>4. Contract!Effect(j.msg, h)
    BY <2>1, <2>2, <2>3 DEF Contract!Effect
  <2> QED BY <1>b, <2>4 DEF Contract!Next
\* A final update delivers, abandons, or leaves the message pending.
<1>8. ASSUME OneMark, handled' = handled PROVE [Contract!Next]_(Contract!vars)
  <2>1. CASE row' = row
    BY <1>1, <1>8, <2>1 DEF Fate
  <2>2. ASSUME NEW j \in jobs,
               Owns(j.worker, j.msg),
               row'[j.msg].status \in {"PUBLISHED", "FAILED", "DEAD"},
               row'[j.msg].attempts = row[j.msg].attempts,
               row'[j.msg].status = "PUBLISHED" => handled[j.msg] = Handlers,
               row'[j.msg].status = "DEAD" => row[j.msg].attempts = MaxAttempts,
               \A m \in Messages \ {j.msg} : row'[m] = row[m]
        PROVE  [Contract!Next]_(Contract!vars)
    <3>1. fates[j.msg] = "pending" /\ j.msg \in Messages
      BY <1>b, <2>2 DEF Owns, Fate
    <3>2. tries' = tries
      BY <2>2
    <3>3. CASE row'[j.msg].status = "PUBLISHED"
      <4>1. fates' = [fates EXCEPT ![j.msg] = "delivered"]
        BY <2>2, <3>1, <3>3 DEF Fate
      <4> QED BY <1>8, <2>2, <3>1, <3>2, <3>3, <4>1
              DEF Contract!Next, Contract!Deliver
    <3>4. CASE row'[j.msg].status = "DEAD"
      <4>1. fates' = [fates EXCEPT ![j.msg] = "abandoned"]
        BY <2>2, <3>1, <3>4 DEF Fate
      <4> QED BY <1>8, <2>2, <3>1, <3>2, <3>4, <4>1
              DEF Contract!Next, Contract!Abandon
    <3>5. CASE row'[j.msg].status = "FAILED"
      <4>1. \A m \in Messages : Fate(m)' = Fate(m)
        BY <2>2, <3>1, <3>5 DEF Fate
      <4> QED BY <1>1, <1>8, <2>2, <4>1
    <3> QED BY <2>2, <3>3, <3>4, <3>5
  <2> QED BY <1>8, <2>1, <2>2 DEF OneMark
<1>9. ASSUME Marks PROVE [Contract!Next]_(Contract!vars)
  <2>1. handled' = handled
    BY <1>9 DEF Marks, MarkPublished, MarkPublishedThrows, MarkFailed, MarkFailedThrows
  <2>2. OneMark
    BY <1>9, PublishedIsOneMark, FailedIsOneMark
    DEF Marks, MarkPublished, MarkPublishedThrows, MarkFailed, MarkFailedThrows
  <2> QED BY <1>8, <2>1, <2>2
<1>10. CASE UNCHANGED vars
  BY <1>1, <1>10 DEF vars, Fate
<1> QED
  BY <1>2, <1>3, <1>4, <1>5, <1>6, <1>7, <1>9, <1>10 DEF Next, HandlerSettles

\* The polling workers, their leases, crashes and lost answers implement the
\* at-least-once contract: PUBLISHED only after every handler completed, DEAD
\* only after max_attempts attempts, and neither is ever left.
THEOREM OutboxImplementsContract == Spec => ImplementsContract
<1>1. Init => Contract!Init
  BY DEF Init, Contract!Init, Fate
<1> QED BY <1>1, ContractStep, IInvHolds, PTL DEF Spec, ImplementsContract, Contract!Spec
=============================================================================
