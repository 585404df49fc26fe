---------------------------- MODULE AvatarAsset ----------------------------
(***************************************************************************)
(* The avatar of one user: the row that names it, the assets it has had    *)
(* and their objects in the store.  The store takes part in no database    *)
(* transaction, so an upload reserves the asset, puts the object, and only *)
(* then makes it the avatar; the object of a former avatar is removed by   *)
(* a handler that the outbox calls at least once, also twice at a time.    *)
(*                                                                         *)
(* The save of an asset writes one column that matters here (status), so   *)
(* its read and its write are one step.  What a profile change copied from *)
(* the user or from the cache is any avatar there has been (past).         *)
(***************************************************************************)
CONSTANTS
  Assets,    \* assets that uploads may reserve
  Workers,   \* workers of the outbox
  None       \* no avatar, no asset

ASSUME NoneAssumption == None \notin Assets

VARIABLES
  avatar,    \* users.avatar_asset_id
  past,      \* avatars a copy of the user may hold
  status,    \* the table assets
  stored,    \* objects in the store
  event,     \* the outbox message that names an asset as the former avatar
  upload,    \* PUT /users/me/avatar, one request for each asset
  profile,   \* a profile change with its copy of the avatar
  job,       \* deliveries to the handler
  unsure,    \* history: assets whose commit was not answered
  orphans,   \* history: assets a fault left behind
  reverted   \* history: a profile change put an old avatar back

request == <<upload, profile, job>>
history == <<unsure, orphans, reverted>>
vars == <<avatar, past, status, stored, event, request, history>>

Statuses == {"ABSENT", "PENDING_UPLOAD", "READY", "DELETE_PENDING", "DELETED", "FAILED"}

Maybe == Assets \cup {None}

Job == [asset : Maybe, pc : {"idle", "mark", "remove", "confirm", "ack"}]

TypeOK ==
  /\ avatar \in Maybe /\ past \subseteq Maybe
  /\ status \in [Assets -> Statuses]
  /\ stored \subseteq Assets
  /\ event \in [Assets -> {"none", "pending", "published", "dead"}]
  /\ upload \in [Assets -> {"none", "reserved", "put", "failing", "compensating",
                            "marking", "done"}]
  /\ profile \in [pc : {"idle", "save"}, copy : Maybe]
  /\ job \in [Workers -> Job]
  /\ unsure \subseteq Assets /\ orphans \subseteq Assets
  /\ reverted \in BOOLEAN

Idle == [asset |-> None, pc |-> "idle"]
NoProfile == [pc |-> "idle", copy |-> None]

Init ==
  /\ avatar = None /\ past = {None}
  /\ status = [a \in Assets |-> "ABSENT"]
  /\ stored = {}
  /\ event = [a \in Assets |-> "none"]
  /\ upload = [a \in Assets |-> "none"]
  /\ profile = NoProfile
  /\ job = [w \in Workers |-> Idle]
  /\ unsure = {} /\ orphans = {} /\ reverted = FALSE

-----------------------------------------------------------------------------
(* UpdateUserAvatarUseCase *)

Continue(a, from, to) == upload[a] = from /\ upload' = [upload EXCEPT ![a] = to]

SetStatus(a, st) == status' = [status EXCEPT ![a] = st]

\* The image has been processed; the asset is saved before anything is stored.
Reserve(a) ==
  /\ Continue(a, "none", "reserved")
  /\ SetStatus(a, "PENDING_UPLOAD")
  /\ UNCHANGED <<avatar, past, stored, event, profile, job, history>>

Put(a) ==
  /\ Continue(a, "reserved", "put")
  /\ stored' = stored \cup {a}
  /\ UNCHANGED <<avatar, past, status, event, profile, job, history>>

\* An error of the store does not say whether the object is there.
PutFails(a) ==
  /\ Continue(a, "reserved", "failing")
  /\ \/ stored' = stored /\ orphans' = orphans
     \/ stored' = stored \cup {a} /\ orphans' = orphans \cup {a}
  /\ UNCHANGED <<avatar, past, status, event, profile, job, unsure, reverted>>

\* recordUploadFailure.
RecordFailure(a) ==
  /\ Continue(a, "failing", "done")
  /\ status[a] = "PENDING_UPLOAD" /\ SetStatus(a, "FAILED")
  /\ UNCHANGED <<avatar, past, stored, event, profile, job, history>>

\* Mutant: the event names the new avatar.
Hand_Mutant(old, new) == event' = IF new = None THEN event ELSE [event EXCEPT ![new] = "pending"]

\* changeAvatarAsset and removeAvatarAsset store an event that names the old
\* avatar; without one the handler has nothing to do.
Hand(old, new) == event' = IF old = None THEN event ELSE [event EXCEPT ![old] = "pending"]

\* The database transaction, under the lock of the user.
Commit(a) ==
  /\ status[a] = "PENDING_UPLOAD" /\ SetStatus(a, "READY")
  /\ avatar' = a /\ past' = past \cup {a}
  /\ Hand(avatar, a)
  /\ UNCHANGED <<stored, profile, job, orphans, reverted>>

Finalize(a) ==
  Continue(a, "put", "done") /\ Commit(a) /\ UNCHANGED unsure

\* The transaction is committed and its answer lost.
FinalizeUnanswered(a) ==
  Continue(a, "put", "compensating") /\ Commit(a) /\ unsure' = unsure \cup {a}

FinalizeFails(a) ==
  /\ Continue(a, "put", "compensating")
  /\ UNCHANGED <<avatar, past, status, stored, event, profile, job, history>>

\* compensateUploadedObject removes the object whatever the status.
Compensate(a) ==
  /\ Continue(a, "compensating", "marking")
  /\ stored' = stored \ {a}
  /\ UNCHANGED <<avatar, past, status, event, profile, job, history>>

\* markFailed throws unless the asset is still PENDING_UPLOAD.
MarkFailed(a) ==
  /\ Continue(a, "marking", "done")
  /\ status' = IF status[a] = "PENDING_UPLOAD" THEN [status EXCEPT ![a] = "FAILED"] ELSE status
  /\ UNCHANGED <<avatar, past, stored, event, profile, job, history>>

\* The process ends, or the store or the database fails while it cleans up.
Crash(a) ==
  /\ upload[a] \in {"reserved", "put", "failing", "compensating", "marking"}
  /\ upload' = [upload EXCEPT ![a] = "done"]
  /\ orphans' = IF a \in stored /\ avatar # a THEN orphans \cup {a} ELSE orphans
  /\ UNCHANGED <<avatar, past, status, stored, event, profile, job, unsure, reverted>>

-----------------------------------------------------------------------------
(* The user *)

\* RemoveUserAvatarUseCase, under the lock of the user.
Remove ==
  /\ avatar # None
  /\ avatar' = None
  /\ Hand(avatar, None)
  /\ UNCHANGED <<past, status, stored, request, history>>

ReadProfile ==
  /\ profile = NoProfile
  /\ \E a \in past : profile' = [pc |-> "save", copy |-> a]
  /\ UNCHANGED <<avatar, past, status, stored, event, upload, job, history>>

\* save writes avatar_asset_id too when the copy differs from the row.
SaveProfile ==
  /\ profile.pc = "save" /\ profile' = NoProfile
  /\ avatar' = profile.copy
  /\ reverted' = (reverted \/ avatar' # avatar)
  /\ orphans' = IF avatar' # avatar THEN orphans \cup ({avatar} \ {None}) ELSE orphans
  /\ UNCHANGED <<past, status, stored, event, upload, job, unsure>>

-----------------------------------------------------------------------------
(* DeleteAvatarAssetUseCase *)

Step(w, from, j) == job[w].pc = from /\ job' = [job EXCEPT ![w] = j]

\* Where a delivery goes on: DELETED is done, PENDING_UPLOAD is refused.
Stage(st) == CASE st = "DELETED" -> "ack"
               [] st = "DELETE_PENDING" -> "remove"
               [] st \in {"READY", "FAILED"} -> "mark"
               [] OTHER -> "idle"

\* A message that is not published is delivered, perhaps while another worker
\* whose lease has expired still handles it.
Deliver(w) ==
  /\ \E a \in Assets :
       /\ event[a] = "pending"
       /\ Stage(status[a]) # "idle"
       /\ Step(w, "idle", [asset |-> a, pc |-> Stage(status[a])])
  /\ UNCHANGED <<avatar, past, status, stored, event, upload, profile, history>>

MarkDeletePending(w) ==
  LET a == job[w].asset
  IN /\ Step(w, "mark", [asset |-> a, pc |-> "remove"])
     /\ SetStatus(a, "DELETE_PENDING")
     /\ UNCHANGED <<avatar, past, stored, event, upload, profile, history>>

\* Mutant: an error of the store is taken for a removal.
RemoveObject_Mutant(w) ==
  LET a == job[w].asset
  IN /\ Step(w, "remove", [asset |-> a, pc |-> "confirm"])
     /\ UNCHANGED <<avatar, past, status, stored, event, upload, profile, history>>

\* An object that is not there counts as removed.
RemoveObject(w) ==
  LET a == job[w].asset
  IN /\ Step(w, "remove", [asset |-> a, pc |-> "confirm"])
     /\ stored' = stored \ {a}
     /\ UNCHANGED <<avatar, past, status, event, upload, profile, history>>

MarkDeleted(w) ==
  LET a == job[w].asset
  IN /\ Step(w, "confirm", [asset |-> a, pc |-> "ack"])
     /\ SetStatus(a, "DELETED")
     /\ UNCHANGED <<avatar, past, stored, event, upload, profile, history>>

\* The handler has completed and the message is PUBLISHED, unless the lease of
\* this delivery was over and a later one has spent the attempts.
Acknowledge(w) ==
  /\ Step(w, "ack", Idle)
  /\ event' = [event EXCEPT ![job[w].asset] = IF @ = "dead" THEN @ ELSE "published"]
  /\ UNCHANGED <<avatar, past, status, stored, upload, profile, history>>

\* The delivery fails or its worker ends: the message stays pending.
Fail(w) ==
  /\ job[w].pc # "idle" /\ job' = [job EXCEPT ![w] = Idle]
  /\ UNCHANGED <<avatar, past, status, stored, event, upload, profile, history>>

\* So does the last attempt: the message is DEAD, or PROCESSING with its
\* attempts spent, and is not delivered again.
Abandon(w) ==
  LET a == job[w].asset
  IN /\ job[w].pc # "idle" /\ job' = [job EXCEPT ![w] = Idle]
     /\ event[a] = "pending" /\ event' = [event EXCEPT ![a] = "dead"]
     /\ orphans' = IF a \in stored /\ avatar # a THEN orphans \cup {a} ELSE orphans
     /\ UNCHANGED <<avatar, past, status, stored, upload, profile, unsure, reverted>>

-----------------------------------------------------------------------------
Upload(a) ==
  Reserve(a) \/ Put(a) \/ PutFails(a) \/ RecordFailure(a) \/ Finalize(a)
    \/ FinalizeUnanswered(a) \/ FinalizeFails(a) \/ Compensate(a) \/ MarkFailed(a) \/ Crash(a)

Clean(w) ==
  Deliver(w) \/ MarkDeletePending(w) \/ RemoveObject(w) \/ MarkDeleted(w)
    \/ Acknowledge(w) \/ Fail(w) \/ Abandon(w)

Next ==
  \/ \E a \in Assets : Upload(a)
  \/ Remove \/ ReadProfile \/ SaveProfile
  \/ \E w \in Workers : Clean(w)

Spec == Init /\ [][Next]_vars

-----------------------------------------------------------------------------
(* Properties *)

\* The avatar is an asset that is READY and whose object is there, unless its
\* own commit was not answered (the compensation then removes a live object)
\* or a profile change has put an old avatar back.
AvatarIsServed ==
  avatar # None /\ avatar \notin unsure /\ ~reverted =>
    status[avatar] = "READY" /\ avatar \in stored

\* An object in the store is the avatar's, or an upload under way or a message
\* that will still be delivered is to remove it or make it the avatar; only a
\* crash, an error of the store in doubt, an avatar put back or a deletion
\* whose attempts are spent leaves one behind.
NoOrphans ==
  \A a \in stored :
    \/ avatar = a \/ event[a] = "pending"
    \/ upload[a] \in {"put", "compensating"}
    \/ a \in orphans
=============================================================================
