------------------------- MODULE AvatarAssetProofs -------------------------
(***************************************************************************)
(* The store and the database agree about the avatar: whatever uploads,    *)
(* removals, profile changes, deliveries and crashes interleave.           *)
(***************************************************************************)
EXTENDS AvatarAsset, TLAPS

\* An upload that has not been finalized is known to nobody else.
Fresh == {"none", "reserved", "put", "failing"}

Untouched ==
  \A a \in Assets : upload[a] \in Fresh =>
    event[a] = "none" /\ a \notin past /\ status[a] # "DELETED"

\* The object is there between its upload and the transaction, not before.
Placed ==
  \A a \in Assets :
    /\ upload[a] \in {"none", "reserved"} => a \notin stored
    /\ upload[a] = "put" => a \in stored

\* Every copy of the avatar is one there has been.
Known == None \in past /\ avatar \in past /\ profile.copy \in past

\* A delivery works on a former avatar, and past the removal the object is gone.
Working ==
  \A w \in Workers : job[w].pc # "idle" =>
    /\ job[w].asset \in Assets /\ event[job[w].asset] # "none"
    /\ job[w].pc \in {"confirm", "ack"} => job[w].asset \notin stored

DeletedIsGone == \A a \in Assets : status[a] = "DELETED" => a \notin stored

\* AvatarIsServed, and nobody is about to take the object away.
Served ==
  avatar # None /\ avatar \notin unsure /\ ~reverted =>
    /\ status[avatar] = "READY" /\ avatar \in stored
    /\ upload[avatar] = "done" /\ event[avatar] = "none"

IInv ==
  TypeOK /\ Untouched /\ Placed /\ Known /\ Working /\ DeletedIsGone /\ Served /\ NoOrphans

-----------------------------------------------------------------------------
LEMMA InitIInv == Init => IInv
<1> SUFFICES ASSUME Init PROVE IInv
  OBVIOUS
<1>1. TypeOK
  BY DEF Init, TypeOK, Statuses, Maybe, Job, Idle, NoProfile
<1>2. Untouched /\ Placed
  BY NoneAssumption DEF Init, Untouched, Placed, Fresh
<1>3. Known /\ Working
  BY DEF Init, Known, Working, NoProfile, Idle
<1>4. DeletedIsGone /\ Served /\ NoOrphans
  BY DEF Init, DeletedIsGone, Served, NoOrphans
<1> QED  BY <1>1, <1>2, <1>3, <1>4 DEF IInv

LEMMA ReserveIInv == ASSUME IInv, NEW a \in Assets, Reserve(a) PROVE IInv'
<1> USE NoneAssumption DEF IInv, TypeOK
<1>1. TypeOK'
  BY DEF Reserve, Continue, SetStatus, request, history, Statuses, Maybe, Job, Working
<1>2. Untouched'
  BY DEF Reserve, Continue, SetStatus, request, history, Untouched, Fresh, Working, Known
<1>3. Placed'
  BY DEF Reserve, Continue, SetStatus, request, history, Placed, Untouched, Fresh, Working
<1>4. Known'
  BY DEF Reserve, Continue, SetStatus, request, history, Known
<1>5. Working'
  BY DEF Reserve, Continue, SetStatus, request, history, Working, Untouched, Fresh, Placed, DeletedIsGone, Statuses
<1>6. DeletedIsGone'
  BY DEF Reserve, Continue, SetStatus, request, history, DeletedIsGone, Working, Untouched, Fresh
<1>7. Served'
  BY DEF Reserve, Continue, SetStatus, request, history, Served, Working, Untouched, Fresh, Known, Placed, Maybe
<1>8. NoOrphans'
  BY DEF Reserve, Continue, SetStatus, request, history, NoOrphans, Untouched, Fresh, Known, Working, Placed, Maybe
<1> QED  BY <1>1, <1>2, <1>3, <1>4, <1>5, <1>6, <1>7, <1>8

LEMMA PutIInv == ASSUME IInv, NEW a \in Assets, Put(a) PROVE IInv'
<1> USE NoneAssumption DEF IInv, TypeOK
<1>1. TypeOK'
  BY DEF Put, Continue, request, history, Statuses, Maybe, Job, Working
<1>2. Untouched'
  BY DEF Put, Continue, request, history, Untouched, Fresh, Working, Known
<1>3. Placed'
  BY DEF Put, Continue, request, history, Placed, Untouched, Fresh, Working
<1>4. Known'
  BY DEF Put, Continue, request, history, Known
<1>5. Working'
  BY DEF Put, Continue, request, history, Working, Untouched, Fresh, Placed, DeletedIsGone, Statuses
<1>6. DeletedIsGone'
  BY DEF Put, Continue, request, history, DeletedIsGone, Working, Untouched, Fresh
<1>7. Served'
  BY DEF Put, Continue, request, history, Served, Working, Untouched, Fresh, Known, Placed, Maybe
<1>8. NoOrphans'
  BY DEF Put, Continue, request, history, NoOrphans, Untouched, Fresh, Known, Working, Placed, Maybe
<1> QED  BY <1>1, <1>2, <1>3, <1>4, <1>5, <1>6, <1>7, <1>8

LEMMA PutFailsIInv == ASSUME IInv, NEW a \in Assets, PutFails(a) PROVE IInv'
<1> USE NoneAssumption DEF IInv, TypeOK
<1>1. TypeOK'
  BY DEF PutFails, Continue, request, history, Statuses, Maybe, Job, Working
<1>2. Untouched'
  BY DEF PutFails, Continue, request, history, Untouched, Fresh, Working, Known
<1>3. Placed'
  BY DEF PutFails, Continue, request, history, Placed, Untouched, Fresh, Working
<1>4. Known'
  BY DEF PutFails, Continue, request, history, Known
<1>5. Working'
  BY DEF PutFails, Continue, request, history, Working, Untouched, Fresh, Placed, DeletedIsGone, Statuses
<1>6. DeletedIsGone'
  BY DEF PutFails, Continue, request, history, DeletedIsGone, Working, Untouched, Fresh
<1>7. Served'
  BY DEF PutFails, Continue, request, history, Served, Working, Untouched, Fresh, Known, Placed, Maybe
<1>8. NoOrphans'
  BY DEF PutFails, Continue, request, history, NoOrphans, Untouched, Fresh, Known, Working, Placed, Maybe
<1> QED  BY <1>1, <1>2, <1>3, <1>4, <1>5, <1>6, <1>7, <1>8

LEMMA RecordFailureIInv == ASSUME IInv, NEW a \in Assets, RecordFailure(a) PROVE IInv'
<1> USE NoneAssumption DEF IInv, TypeOK
<1>1. TypeOK'
  BY DEF RecordFailure, Continue, SetStatus, request, history, Statuses, Maybe, Job, Working
<1>2. Untouched'
  BY DEF RecordFailure, Continue, SetStatus, request, history, Untouched, Fresh, Working, Known
<1>3. Placed'
  BY DEF RecordFailure, Continue, SetStatus, request, history, Placed, Untouched, Fresh, Working
<1>4. Known'
  BY DEF RecordFailure, Continue, SetStatus, request, history, Known
<1>5. Working'
  BY DEF RecordFailure, Continue, SetStatus, request, history, Working, Untouched, Fresh, Placed, DeletedIsGone, Statuses
<1>6. DeletedIsGone'
  BY DEF RecordFailure, Continue, SetStatus, request, history, DeletedIsGone, Working, Untouched, Fresh
<1>7. Served'
  BY DEF RecordFailure, Continue, SetStatus, request, history, Served, Working, Untouched, Fresh, Known, Placed, Maybe
<1>8. NoOrphans'
  BY DEF RecordFailure, Continue, SetStatus, request, history, NoOrphans, Untouched, Fresh, Known, Working, Placed, Maybe
<1> QED  BY <1>1, <1>2, <1>3, <1>4, <1>5, <1>6, <1>7, <1>8

LEMMA FinalizeIInv == ASSUME IInv, NEW a \in Assets, Finalize(a) PROVE IInv'
<1> USE NoneAssumption DEF IInv, TypeOK
<1>1. TypeOK'
  BY DEF Finalize, Continue, SetStatus, Commit, Hand, request, history, Statuses, Maybe, Job, Working
<1>2. Untouched'
  BY DEF Finalize, Continue, SetStatus, Commit, Hand, request, history, Untouched, Fresh, Working, Known
<1>3. Placed'
  BY DEF Finalize, Continue, SetStatus, Commit, Hand, request, history, Placed, Untouched, Fresh, Working
<1>4. Known'
  BY DEF Finalize, Continue, SetStatus, Commit, Hand, request, history, Known
<1>5. Working'
  BY DEF Finalize, Continue, SetStatus, Commit, Hand, request, history, Working, Untouched, Fresh, Placed, DeletedIsGone, Statuses
<1>6. DeletedIsGone'
  BY DEF Finalize, Continue, SetStatus, Commit, Hand, request, history, DeletedIsGone, Working, Untouched, Fresh
<1>7. Served'
  BY DEF Finalize, Continue, SetStatus, Commit, Hand, request, history, Served, Working, Untouched, Fresh, Known, Placed, Maybe
<1>8. NoOrphans'
  BY DEF Finalize, Continue, SetStatus, Commit, Hand, request, history, NoOrphans, Untouched, Fresh, Known, Working, Placed, Maybe
<1> QED  BY <1>1, <1>2, <1>3, <1>4, <1>5, <1>6, <1>7, <1>8

LEMMA FinalizeUnansweredIInv == ASSUME IInv, NEW a \in Assets, FinalizeUnanswered(a) PROVE IInv'
<1> USE NoneAssumption DEF IInv, TypeOK
<1>1. TypeOK'
  BY DEF FinalizeUnanswered, Continue, SetStatus, Commit, Hand, request, history, Statuses, Maybe, Job, Working
<1>2. Untouched'
  BY DEF FinalizeUnanswered, Continue, SetStatus, Commit, Hand, request, history, Untouched, Fresh, Working, Known
<1>3. Placed'
  BY DEF FinalizeUnanswered, Continue, SetStatus, Commit, Hand, request, history, Placed, Untouched, Fresh, Working
<1>4. Known'
  BY DEF FinalizeUnanswered, Continue, SetStatus, Commit, Hand, request, history, Known
<1>5. Working'
  BY DEF FinalizeUnanswered, Continue, SetStatus, Commit, Hand, request, history, Working, Untouched, Fresh, Placed, DeletedIsGone, Statuses
<1>6. DeletedIsGone'
  BY DEF FinalizeUnanswered, Continue, SetStatus, Commit, Hand, request, history, DeletedIsGone, Working, Untouched, Fresh
<1>7. Served'
  BY DEF FinalizeUnanswered, Continue, SetStatus, Commit, Hand, request, history, Served, Working, Untouched, Fresh, Known, Placed, Maybe
<1>8. NoOrphans'
  BY DEF FinalizeUnanswered, Continue, SetStatus, Commit, Hand, request, history, NoOrphans, Untouched, Fresh, Known, Working, Placed, Maybe
<1> QED  BY <1>1, <1>2, <1>3, <1>4, <1>5, <1>6, <1>7, <1>8

LEMMA FinalizeFailsIInv == ASSUME IInv, NEW a \in Assets, FinalizeFails(a) PROVE IInv'
<1> USE NoneAssumption DEF IInv, TypeOK
<1>1. TypeOK'
  BY DEF FinalizeFails, Continue, request, history, Statuses, Maybe, Job, Working
<1>2. Untouched'
  BY DEF FinalizeFails, Continue, request, history, Untouched, Fresh, Working, Known
<1>3. Placed'
  BY DEF FinalizeFails, Continue, request, history, Placed, Untouched, Fresh, Working
<1>4. Known'
  BY DEF FinalizeFails, Continue, request, history, Known
<1>5. Working'
  BY DEF FinalizeFails, Continue, request, history, Working, Untouched, Fresh, Placed, DeletedIsGone, Statuses
<1>6. DeletedIsGone'
  BY DEF FinalizeFails, Continue, request, history, DeletedIsGone, Working, Untouched, Fresh
<1>7. Served'
  BY DEF FinalizeFails, Continue, request, history, Served, Working, Untouched, Fresh, Known, Placed, Maybe
<1>8. NoOrphans'
  BY DEF FinalizeFails, Continue, request, history, NoOrphans, Untouched, Fresh, Known, Working, Placed, Maybe
<1> QED  BY <1>1, <1>2, <1>3, <1>4, <1>5, <1>6, <1>7, <1>8

LEMMA CompensateIInv == ASSUME IInv, NEW a \in Assets, Compensate(a) PROVE IInv'
<1> USE NoneAssumption DEF IInv, TypeOK
<1>1. TypeOK'
  BY DEF Compensate, Continue, request, history, Statuses, Maybe, Job, Working
<1>2. Untouched'
  BY DEF Compensate, Continue, request, history, Untouched, Fresh, Working, Known
<1>3. Placed'
  BY DEF Compensate, Continue, request, history, Placed, Untouched, Fresh, Working
<1>4. Known'
  BY DEF Compensate, Continue, request, history, Known
<1>5. Working'
  BY DEF Compensate, Continue, request, history, Working, Untouched, Fresh, Placed, DeletedIsGone, Statuses
<1>6. DeletedIsGone'
  BY DEF Compensate, Continue, request, history, DeletedIsGone, Working, Untouched, Fresh
<1>7. Served'
  BY DEF Compensate, Continue, request, history, Served, Working, Untouched, Fresh, Known, Placed, Maybe
<1>8. NoOrphans'
  BY DEF Compensate, Continue, request, history, NoOrphans, Untouched, Fresh, Known, Working, Placed, Maybe
<1> QED  BY <1>1, <1>2, <1>3, <1>4, <1>5, <1>6, <1>7, <1>8

LEMMA MarkFailedIInv == ASSUME IInv, NEW a \in Assets, MarkFailed(a) PROVE IInv'
<1> USE NoneAssumption DEF IInv, TypeOK
<1>1. TypeOK'
  BY DEF MarkFailed, Continue, request, history, Statuses, Maybe, Job, Working
<1>2. Untouched'
  BY DEF MarkFailed, Continue, request, history, Untouched, Fresh, Working, Known
<1>3. Placed'
  BY DEF MarkFailed, Continue, request, history, Placed, Untouched, Fresh, Working
<1>4. Known'
  BY DEF MarkFailed, Continue, request, history, Known
<1>5. Working'
  BY DEF MarkFailed, Continue, request, history, Working, Untouched, Fresh, Placed, DeletedIsGone, Statuses
<1>6. DeletedIsGone'
  BY DEF MarkFailed, Continue, request, history, DeletedIsGone, Working, Untouched, Fresh
<1>7. Served'
  BY DEF MarkFailed, Continue, request, history, Served, Working, Untouched, Fresh, Known, Placed, Maybe
<1>8. NoOrphans'
  BY DEF MarkFailed, Continue, request, history, NoOrphans, Untouched, Fresh, Known, Working, Placed, Maybe
<1> QED  BY <1>1, <1>2, <1>3, <1>4, <1>5, <1>6, <1>7, <1>8

LEMMA CrashIInv == ASSUME IInv, NEW a \in Assets, Crash(a) PROVE IInv'
<1> USE NoneAssumption DEF IInv, TypeOK
<1>1. TypeOK'
  BY DEF Crash, request, history, Statuses, Maybe, Job, Working
<1>2. Untouched'
  BY DEF Crash, request, history, Untouched, Fresh, Working, Known
<1>3. Placed'
  BY DEF Crash, request, history, Placed, Untouched, Fresh, Working
<1>4. Known'
  BY DEF Crash, request, history, Known
<1>5. Working'
  BY DEF Crash, request, history, Working, Untouched, Fresh, Placed, DeletedIsGone, Statuses
<1>6. DeletedIsGone'
  BY DEF Crash, request, history, DeletedIsGone, Working, Untouched, Fresh
<1>7. Served'
  BY DEF Crash, request, history, Served, Working, Untouched, Fresh, Known, Placed, Maybe
<1>8. NoOrphans'
  BY DEF Crash, request, history, NoOrphans, Untouched, Fresh, Known, Working, Placed, Maybe
<1> QED  BY <1>1, <1>2, <1>3, <1>4, <1>5, <1>6, <1>7, <1>8

LEMMA RemoveIInv == ASSUME IInv, Remove PROVE IInv'
<1> USE NoneAssumption DEF IInv, TypeOK
<1>1. TypeOK'
  BY DEF Remove, Hand, request, history, Statuses, Maybe, Job, Working
<1>2. Untouched'
  BY DEF Remove, Hand, request, history, Untouched, Fresh, Working, Known
<1>3. Placed'
  BY DEF Remove, Hand, request, history, Placed, Untouched, Fresh, Working
<1>4. Known'
  BY DEF Remove, Hand, request, history, Known
<1>5. Working'
  BY DEF Remove, Hand, request, history, Working, Untouched, Fresh, Placed, DeletedIsGone, Statuses
<1>6. DeletedIsGone'
  BY DEF Remove, Hand, request, history, DeletedIsGone, Working, Untouched, Fresh
<1>7. Served'
  BY DEF Remove, Hand, request, history, Served, Working, Untouched, Fresh, Known, Placed, Maybe
<1>8. NoOrphans'
  BY DEF Remove, Hand, request, history, NoOrphans, Untouched, Fresh, Known, Working, Placed, Maybe
<1> QED  BY <1>1, <1>2, <1>3, <1>4, <1>5, <1>6, <1>7, <1>8

LEMMA ReadProfileIInv == ASSUME IInv, ReadProfile PROVE IInv'
<1> USE NoneAssumption DEF IInv, TypeOK
<1>1. TypeOK'
  BY DEF ReadProfile, NoProfile, request, history, Statuses, Maybe, Job, Working
<1>2. Untouched'
  BY DEF ReadProfile, NoProfile, request, history, Untouched, Fresh, Working, Known
<1>3. Placed'
  BY DEF ReadProfile, NoProfile, request, history, Placed, Untouched, Fresh, Working
<1>4. Known'
  BY DEF ReadProfile, NoProfile, request, history, Known
<1>5. Working'
  BY DEF ReadProfile, NoProfile, request, history, Working, Untouched, Fresh, Placed, DeletedIsGone, Statuses
<1>6. DeletedIsGone'
  BY DEF ReadProfile, NoProfile, request, history, DeletedIsGone, Working, Untouched, Fresh
<1>7. Served'
  BY DEF ReadProfile, NoProfile, request, history, Served, Working, Untouched, Fresh, Known, Placed, Maybe
<1>8. NoOrphans'
  BY DEF ReadProfile, NoProfile, request, history, NoOrphans, Untouched, Fresh, Known, Working, Placed, Maybe
<1> QED  BY <1>1, <1>2, <1>3, <1>4, <1>5, <1>6, <1>7, <1>8

LEMMA SaveProfileIInv == ASSUME IInv, SaveProfile PROVE IInv'
<1> USE NoneAssumption DEF IInv, TypeOK
<1>1. TypeOK'
  BY DEF SaveProfile, NoProfile, request, history, Statuses, Maybe, Job, Working
<1>2. Untouched'
  BY DEF SaveProfile, NoProfile, request, history, Untouched, Fresh, Working, Known
<1>3. Placed'
  BY DEF SaveProfile, NoProfile, request, history, Placed, Untouched, Fresh, Working
<1>4. Known'
  BY DEF SaveProfile, NoProfile, request, history, Known
<1>5. Working'
  BY DEF SaveProfile, NoProfile, request, history, Working, Untouched, Fresh, Placed, DeletedIsGone, Statuses
<1>6. DeletedIsGone'
  BY DEF SaveProfile, NoProfile, request, history, DeletedIsGone, Working, Untouched, Fresh
<1>7. Served'
  BY DEF SaveProfile, NoProfile, request, history, Served, Working, Untouched, Fresh, Known, Placed, Maybe
<1>8. NoOrphans'
  BY DEF SaveProfile, NoProfile, request, history, NoOrphans, Untouched, Fresh, Known, Working, Placed, Maybe
<1> QED  BY <1>1, <1>2, <1>3, <1>4, <1>5, <1>6, <1>7, <1>8

LEMMA DeliverIInv == ASSUME IInv, NEW w \in Workers, Deliver(w) PROVE IInv'
<1> USE NoneAssumption DEF IInv, TypeOK
<1>1. TypeOK'
  BY DEF Deliver, Step, Stage, request, history, Statuses, Maybe, Job, Working
<1>2. Untouched'
  BY DEF Deliver, Step, Stage, request, history, Untouched, Fresh, Working, Known
<1>3. Placed'
  BY DEF Deliver, Step, Stage, request, history, Placed, Untouched, Fresh, Working
<1>4. Known'
  BY DEF Deliver, Step, Stage, request, history, Known
<1>5. Working'
  BY DEF Deliver, Step, Stage, request, history, Working, Untouched, Fresh, Placed, DeletedIsGone, Statuses
<1>6. DeletedIsGone'
  BY DEF Deliver, Step, Stage, request, history, DeletedIsGone, Working, Untouched, Fresh
<1>7. Served'
  BY DEF Deliver, Step, Stage, request, history, Served, Working, Untouched, Fresh, Known, Placed, Maybe
<1>8. NoOrphans'
  BY DEF Deliver, Step, Stage, request, history, NoOrphans, Untouched, Fresh, Known, Working, Placed, Maybe
<1> QED  BY <1>1, <1>2, <1>3, <1>4, <1>5, <1>6, <1>7, <1>8

LEMMA MarkDeletePendingIInv == ASSUME IInv, NEW w \in Workers, MarkDeletePending(w) PROVE IInv'
<1> USE NoneAssumption DEF IInv, TypeOK
<1>1. TypeOK'
  BY DEF MarkDeletePending, Step, SetStatus, request, history, Statuses, Maybe, Job, Working
<1>2. Untouched'
  BY DEF MarkDeletePending, Step, SetStatus, request, history, Untouched, Fresh, Working, Known
<1>3. Placed'
  BY DEF MarkDeletePending, Step, SetStatus, request, history, Placed, Untouched, Fresh, Working
<1>4. Known'
  BY DEF MarkDeletePending, Step, SetStatus, request, history, Known
<1>5. Working'
  BY DEF MarkDeletePending, Step, SetStatus, request, history, Working, Untouched, Fresh, Placed, DeletedIsGone, Statuses
<1>6. DeletedIsGone'
  BY DEF MarkDeletePending, Step, SetStatus, request, history, DeletedIsGone, Working, Untouched, Fresh
<1>7. Served'
  BY DEF MarkDeletePending, Step, SetStatus, request, history, Served, Working, Untouched, Fresh, Known, Placed, Maybe
<1>8. NoOrphans'
  BY DEF MarkDeletePending, Step, SetStatus, request, history, NoOrphans, Untouched, Fresh, Known, Working, Placed, Maybe
<1> QED  BY <1>1, <1>2, <1>3, <1>4, <1>5, <1>6, <1>7, <1>8

LEMMA RemoveObjectIInv == ASSUME IInv, NEW w \in Workers, RemoveObject(w) PROVE IInv'
<1> USE NoneAssumption DEF IInv, TypeOK
<1>1. TypeOK'
  BY DEF RemoveObject, Step, request, history, Statuses, Maybe, Job, Working
<1>2. Untouched'
  BY DEF RemoveObject, Step, request, history, Untouched, Fresh, Working, Known
<1>3. Placed'
  BY DEF RemoveObject, Step, request, history, Placed, Untouched, Fresh, Working
<1>4. Known'
  BY DEF RemoveObject, Step, request, history, Known
<1>5. Working'
  BY DEF RemoveObject, Step, request, history, Working, Untouched, Fresh, Placed, DeletedIsGone, Statuses
<1>6. DeletedIsGone'
  BY DEF RemoveObject, Step, request, history, DeletedIsGone, Working, Untouched, Fresh
<1>7. Served'
  BY DEF RemoveObject, Step, request, history, Served, Working, Untouched, Fresh, Known, Placed, Maybe
<1>8. NoOrphans'
  BY DEF RemoveObject, Step, request, history, NoOrphans, Untouched, Fresh, Known, Working, Placed, Maybe
<1> QED  BY <1>1, <1>2, <1>3, <1>4, <1>5, <1>6, <1>7, <1>8

LEMMA MarkDeletedIInv == ASSUME IInv, NEW w \in Workers, MarkDeleted(w) PROVE IInv'
<1> USE NoneAssumption DEF IInv, TypeOK
<1>1. TypeOK'
  BY DEF MarkDeleted, Step, SetStatus, request, history, Statuses, Maybe, Job, Working
<1>2. Untouched'
  BY DEF MarkDeleted, Step, SetStatus, request, history, Untouched, Fresh, Working, Known
<1>3. Placed'
  BY DEF MarkDeleted, Step, SetStatus, request, history, Placed, Untouched, Fresh, Working
<1>4. Known'
  BY DEF MarkDeleted, Step, SetStatus, request, history, Known
<1>5. Working'
  BY DEF MarkDeleted, Step, SetStatus, request, history, Working, Untouched, Fresh, Placed, DeletedIsGone, Statuses
<1>6. DeletedIsGone'
  BY DEF MarkDeleted, Step, SetStatus, request, history, DeletedIsGone, Working, Untouched, Fresh
<1>7. Served'
  BY DEF MarkDeleted, Step, SetStatus, request, history, Served, Working, Untouched, Fresh, Known, Placed, Maybe
<1>8. NoOrphans'
  BY DEF MarkDeleted, Step, SetStatus, request, history, NoOrphans, Untouched, Fresh, Known, Working, Placed, Maybe
<1> QED  BY <1>1, <1>2, <1>3, <1>4, <1>5, <1>6, <1>7, <1>8

LEMMA AcknowledgeIInv == ASSUME IInv, NEW w \in Workers, Acknowledge(w) PROVE IInv'
<1> USE NoneAssumption DEF IInv, TypeOK
<1>1. TypeOK'
  BY DEF Acknowledge, Step, Idle, request, history, Statuses, Maybe, Job, Working
<1>2. Untouched'
  BY DEF Acknowledge, Step, Idle, request, history, Untouched, Fresh, Working, Known
<1>3. Placed'
  BY DEF Acknowledge, Step, Idle, request, history, Placed, Untouched, Fresh, Working
<1>4. Known'
  BY DEF Acknowledge, Step, Idle, request, history, Known
<1>5. Working'
  BY DEF Acknowledge, Step, Idle, request, history, Working, Untouched, Fresh, Placed, DeletedIsGone, Statuses
<1>6. DeletedIsGone'
  BY DEF Acknowledge, Step, Idle, request, history, DeletedIsGone, Working, Untouched, Fresh
<1>7. Served'
  BY DEF Acknowledge, Step, Idle, request, history, Served, Working, Untouched, Fresh, Known, Placed, Maybe
<1>8. NoOrphans'
  BY DEF Acknowledge, Step, Idle, request, history, NoOrphans, Untouched, Fresh, Known, Working, Placed, Maybe
<1> QED  BY <1>1, <1>2, <1>3, <1>4, <1>5, <1>6, <1>7, <1>8

LEMMA FailIInv == ASSUME IInv, NEW w \in Workers, Fail(w) PROVE IInv'
<1> USE NoneAssumption DEF IInv, TypeOK
<1>1. TypeOK'
  BY DEF Fail, Idle, request, history, Statuses, Maybe, Job, Working
<1>2. Untouched'
  BY DEF Fail, Idle, request, history, Untouched, Fresh, Working, Known
<1>3. Placed'
  BY DEF Fail, Idle, request, history, Placed, Untouched, Fresh, Working
<1>4. Known'
  BY DEF Fail, Idle, request, history, Known
<1>5. Working'
  BY DEF Fail, Idle, request, history, Working, Untouched, Fresh, Placed, DeletedIsGone, Statuses
<1>6. DeletedIsGone'
  BY DEF Fail, Idle, request, history, DeletedIsGone, Working, Untouched, Fresh
<1>7. Served'
  BY DEF Fail, Idle, request, history, Served, Working, Untouched, Fresh, Known, Placed, Maybe
<1>8. NoOrphans'
  BY DEF Fail, Idle, request, history, NoOrphans, Untouched, Fresh, Known, Working, Placed, Maybe
<1> QED  BY <1>1, <1>2, <1>3, <1>4, <1>5, <1>6, <1>7, <1>8

LEMMA AbandonIInv == ASSUME IInv, NEW w \in Workers, Abandon(w) PROVE IInv'
<1> USE NoneAssumption DEF IInv, TypeOK
<1>1. TypeOK'
  BY DEF Abandon, Idle, request, history, Statuses, Maybe, Job, Working
<1>2. Untouched'
  BY DEF Abandon, Idle, request, history, Untouched, Fresh, Working, Known
<1>3. Placed'
  BY DEF Abandon, Idle, request, history, Placed, Untouched, Fresh, Working
<1>4. Known'
  BY DEF Abandon, Idle, request, history, Known
<1>5. Working'
  BY DEF Abandon, Idle, request, history, Working, Untouched, Fresh, Placed, DeletedIsGone, Statuses
<1>6. DeletedIsGone'
  BY DEF Abandon, Idle, request, history, DeletedIsGone, Working, Untouched, Fresh
<1>7. Served'
  BY DEF Abandon, Idle, request, history, Served, Working, Untouched, Fresh, Known, Placed, Maybe
<1>8. NoOrphans'
  BY DEF Abandon, Idle, request, history, NoOrphans, Untouched, Fresh, Known, Working, Placed, Maybe
<1> QED  BY <1>1, <1>2, <1>3, <1>4, <1>5, <1>6, <1>7, <1>8

LEMMA StutterIInv == ASSUME IInv, UNCHANGED vars PROVE IInv'
  BY DEF vars, request, history, IInv, TypeOK, Untouched, Fresh, Placed, Known, Working,
     DeletedIsGone, Served, NoOrphans

\* What holds of every state: the uploads, deliveries and copies the invariant
\* names, so the two properties are inductive with them.
THEOREM Invariance == Spec => []IInv
<1>1. IInv /\ [Next]_vars => IInv'
  <2> SUFFICES ASSUME IInv, [Next]_vars PROVE IInv'
    OBVIOUS
  <2>1. CASE \E a \in Assets : Upload(a)
    BY <2>1, ReserveIInv, PutIInv, PutFailsIInv, RecordFailureIInv, FinalizeIInv,
       FinalizeUnansweredIInv, FinalizeFailsIInv, CompensateIInv, MarkFailedIInv,
       CrashIInv DEF Upload
  <2>2. CASE Remove \/ ReadProfile \/ SaveProfile
    BY <2>2, RemoveIInv, ReadProfileIInv, SaveProfileIInv
  <2>3. CASE \E w \in Workers : Clean(w)
    BY <2>3, DeliverIInv, MarkDeletePendingIInv, RemoveObjectIInv, MarkDeletedIInv,
       AcknowledgeIInv, FailIInv, AbandonIInv DEF Clean
  <2>4. CASE UNCHANGED vars
    BY <2>4, StutterIInv
  <2> QED  BY <2>1, <2>2, <2>3, <2>4 DEF Next
<1> QED  BY InitIInv, <1>1, PTL DEF Spec

\* Every variable keeps to its domain (all operations).
THEOREM TypeCorrect == Spec => []TypeOK
<1>1. IInv => TypeOK
  BY DEF IInv
<1> QED  BY Invariance, <1>1, PTL

\* A user's avatar is READY and its object is in the store, except after a lost
\* answer of its commit or after a profile change put an old one back.
THEOREM AvatarServed == Spec => []AvatarIsServed
<1>1. IInv => AvatarIsServed
  BY DEF IInv, Served, AvatarIsServed
<1> QED  BY Invariance, <1>1, PTL

\* Only the faults that NoOrphans names leave an object behind that neither an
\* upload nor a delivery will remove.
THEOREM OrphansExplained == Spec => []NoOrphans
<1>1. IInv => NoOrphans
  BY DEF IInv
<1> QED  BY Invariance, <1>1, PTL
=============================================================================
