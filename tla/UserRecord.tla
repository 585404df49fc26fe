----------------------------- MODULE UserRecord -----------------------------
(***************************************************************************)
(* The record of one user and its cache entry, from its creation on.       *)
(* Every use case saves the whole record; most of them read it under a row *)
(* lock first, two do not.                                                 *)
(*                                                                         *)
(* TypeORM saves in two steps: it selects the row, and updates the columns *)
(* in which the given copy differs from it.  A column is a counter of the  *)
(* values written to it; "providers" counts the rows of auth_providers.    *)
(***************************************************************************)
EXTENDS Naturals

CONSTANTS
  Requests,    \* requests for the user
  NoRequest,   \* nobody holds the row lock
  NoEntry      \* no cache entry

ASSUME NoRequestAssumption == NoRequest \notin Requests

VARIABLES
  exists,       \* whether the creation of the user was committed
  row,          \* the committed record (before, the one to be created)
  rowLock,      \* who holds the row lock, or has inserted the row
  entry,        \* the cache entry, by id
  req,          \* the requests
  committed,    \* history: changes each column was meant to get and got
  versions,     \* history: every record that was ever committed
  overwritten   \* history: columns saved by a request that did not change them

vars == <<exists, row, rowLock, entry, req, committed, versions, overwritten>>
history == <<committed, versions, overwritten>>

Columns == {"credential", "userName", "avatar", "status", "names", "providers"}

\* The column each use case changes ("names" for a read, which changes none,
\* and for a sign-up, which makes the first record).
Changes == [ReadProfile |-> "names", UpdateProfile |-> "names", SignUp |-> "names",
            LinkGoogle |-> "providers", LinkEmail |-> "providers",
            ChangePassword |-> "credential", UpdateUsername |-> "userName",
            ChangeAvatar |-> "avatar", ConfirmEmail |-> "status"]

UseCases == DOMAIN Changes

\* Use cases that read with findByIdForUpdate.
Locked == {"LinkEmail", "ChangePassword", "UpdateUsername", "ChangeAvatar",
           "ConfirmEmail"}

\* Use cases that save a user they read without a lock.
Unlocked == {"UpdateProfile", "LinkGoogle"}

Record == [Columns -> Nat]
First == [c \in Columns |-> 0]

Phases == {"idle", "absent", "missed", "filling", "loaded", "diffed", "saved",
           "refreshing", "refilling", "locked", "cleared", "committed", "done"}

Request == [use : UseCases, pc : Phases, copy : Record, diff : SUBSET Columns]

TypeOK ==
  /\ exists \in BOOLEAN
  /\ row \in Record
  /\ rowLock \in Requests \cup {NoRequest}
  /\ entry \in Record \cup {NoEntry}
  /\ req \in [Requests -> Request]
  /\ committed \in Record
  /\ versions \in SUBSET Record
  /\ overwritten \in SUBSET Columns

Idle(u) == [use |-> u, pc |-> "idle", copy |-> First, diff |-> {}]

Init ==
  /\ exists \in BOOLEAN
  /\ row = First /\ rowLock = NoRequest /\ entry = NoEntry
  /\ req \in [Requests -> {Idle(u) : u \in UseCases}]
  /\ committed = First /\ overwritten = {}
  /\ versions = IF exists THEN {First} ELSE {}

-----------------------------------------------------------------------------
Own(r) == Changes[req[r].use]
At(r, phase) == req[r].pc = phase
Goto(r, phase) == req' = [req EXCEPT ![r].pc = phase]
Load(r, phase, record) ==
  req' = [req EXCEPT ![r].pc = phase, ![r].copy = record]

\* The copy after the entity method of the use case.
Changed(r, record) == [record EXCEPT ![Own(r)] = @ + 1]

(* Cached reads: CachedUserRepository without a manager. *)

\* After a read a profile update has its user; a mere read is over and may
\* come again.
AfterRead(r) == IF req[r].use = "UpdateProfile" THEN "loaded" ELSE "idle"

ReadsCache(r) == At(r, "idle") /\ req[r].use \in {"ReadProfile", "UpdateProfile"}

CacheHit(r) ==
  /\ ReadsCache(r) /\ entry # NoEntry
  /\ Load(r, AfterRead(r), entry)
  /\ UNCHANGED <<exists, row, rowLock, entry, history>>

CacheMiss(r) ==
  /\ ReadsCache(r) /\ entry = NoEntry /\ exists
  /\ Goto(r, "missed")
  /\ UNCHANGED <<exists, row, rowLock, entry, history>>

\* Readers by e-mail or username whose index key is gone, and the OAuth
\* callback by provider, which has none, read the row whatever the entry is.
IndexMiss(r) ==
  /\ At(r, "idle") /\ req[r].use \in {"ReadProfile", "LinkGoogle"} /\ exists
  /\ Goto(r, "missed")
  /\ UNCHANGED <<exists, row, rowLock, entry, history>>

FillRead(r) ==
  /\ At(r, "missed")
  /\ Load(r, "filling", row)
  /\ UNCHANGED <<exists, row, rowLock, entry, history>>

FillSet(r) ==
  /\ At(r, "filling")
  /\ entry' = req[r].copy
  /\ Goto(r, AfterRead(r))
  /\ UNCHANGED <<exists, row, rowLock, history>>

-----------------------------------------------------------------------------
(* Creating the user: a sign-up, or the OAuth callback that finds nobody *)

\* Provider, e-mail and username are looked for without a lock.
FindNobody(r) ==
  /\ At(r, "idle") /\ req[r].use \in {"SignUp", "LinkGoogle"} /\ ~exists
  /\ Goto(r, "absent")
  /\ UNCHANGED <<exists, row, rowLock, entry, history>>

\* The insert waits for that of another request; the save goes on as any in a
\* transaction, ClearInTransaction included.
Insert(r) ==
  /\ At(r, "absent") /\ ~exists /\ rowLock = NoRequest
  /\ rowLock' = r
  /\ Goto(r, "locked")
  /\ UNCHANGED <<exists, row, entry, history>>

\* Somebody has the e-mail: the use case finds him, or the unique index does.
CreateRefused(r) ==
  /\ exists
  /\ \/ At(r, "absent")
     \/ At(r, "idle") /\ req[r].use = "SignUp"
  /\ Goto(r, "done")
  /\ UNCHANGED <<exists, row, rowLock, entry, history>>

\* The record and UserCreatedEvent.
CommitInsert(r) ==
  /\ At(r, "cleared") /\ ~exists
  /\ exists' = TRUE
  /\ versions' = versions \cup {row}
  /\ rowLock' = NoRequest
  /\ Goto(r, "done")
  /\ UNCHANGED <<row, entry, committed, overwritten>>

-----------------------------------------------------------------------------
(* Saves of a user that was read without a lock *)

\* LinkGoogle and the OAuth callback: a plain read inside the transaction.
PlainRead(r) ==
  /\ At(r, "idle") /\ req[r].use = "LinkGoogle" /\ exists
  /\ Load(r, "loaded", row)
  /\ UNCHANGED <<exists, row, rowLock, entry, history>>

\* repo.save selects the row to find out which columns to update.
SaveSelect(r) ==
  /\ At(r, "loaded") /\ req[r].copy["providers"] = row["providers"]
  /\ req' = [req EXCEPT ![r].pc = "diffed",
                        ![r].copy = Changed(r, @),
                        ![r].diff = {Own(r)} \cup
                          {c \in Columns : req[r].copy[c] # row[c]}]
  /\ UNCHANGED <<exists, row, rowLock, entry, history>>

\* A provider linked meanwhile is missing from the copy: TypeORM detaches it,
\* which the NOT NULL of user_id refuses, and the save throws.
SaveRefused(r) ==
  /\ At(r, "loaded") /\ req[r].copy["providers"] # row["providers"]
  /\ Goto(r, "done")
  /\ UNCHANGED <<exists, row, rowLock, entry, history>>

\* The record after the update of r: a provider is inserted, the columns that
\* differed take the values of the copy.
Updated(r) ==
  [c \in Columns |-> CASE c = "providers" /\ Own(r) = c -> row[c] + 1
                       [] c # "providers" /\ c \in req[r].diff -> req[r].copy[c]
                       [] OTHER -> row[c]]

CommitUpdate(r) ==
  /\ row' = Updated(r)
  /\ committed' = [committed EXCEPT ![Own(r)] = @ + 1]
  /\ versions' = versions \cup {Updated(r)}
  /\ overwritten' = overwritten \cup (req[r].diff \ {Own(r)})

\* UpdateProfile: the update is a transaction of its own; it waits for the lock.
SaveProfile(r) ==
  /\ At(r, "diffed") /\ req[r].use = "UpdateProfile" /\ rowLock = NoRequest
  /\ CommitUpdate(r)
  /\ Goto(r, "saved")
  /\ UNCHANGED <<exists, rowLock, entry>>

\* save without a manager: invalidate, read again, set the entry.
InvalidateSaved(r) ==
  /\ At(r, "saved")
  /\ entry' = NoEntry
  /\ Goto(r, "refreshing")
  /\ UNCHANGED <<exists, row, rowLock, history>>

RefreshRead(r) ==
  /\ At(r, "refreshing")
  /\ Load(r, "refilling", row)
  /\ UNCHANGED <<exists, row, rowLock, entry, history>>

RefreshSet(r) ==
  /\ At(r, "refilling")
  /\ entry' = req[r].copy
  /\ Goto(r, "done")
  /\ UNCHANGED <<exists, row, rowLock, history>>

\* The insert and update of LinkGoogle take the row lock to the commit.
WriteLock(r) ==
  /\ At(r, "diffed") /\ req[r].use = "LinkGoogle" /\ rowLock = NoRequest
  /\ rowLock' = r
  /\ Goto(r, "locked")
  /\ UNCHANGED <<exists, row, entry, history>>

-----------------------------------------------------------------------------
(* Saves under findByIdForUpdate *)

\* Mutant: findById, without the lock.
LockRead_Mutant(r) ==
  /\ At(r, "idle") /\ req[r].use \in Locked /\ exists
  /\ rowLock' = r
  /\ req' = [req EXCEPT ![r].pc = "locked", ![r].copy = Changed(r, row),
                        ![r].diff = {Own(r)}]
  /\ UNCHANGED <<exists, row, entry, history>>

\* The row is locked and read again, so the select of the save finds only the
\* column of the use case changed.
LockRead(r) ==
  /\ At(r, "idle") /\ req[r].use \in Locked /\ exists /\ rowLock = NoRequest
  /\ rowLock' = r
  /\ req' = [req EXCEPT ![r].pc = "locked", ![r].copy = Changed(r, row),
                        ![r].diff = {Own(r)}]
  /\ UNCHANGED <<exists, row, entry, history>>

\* Mutant: the saved user goes into the cache before the commit.
ClearInTransaction_Mutant(r) ==
  /\ At(r, "locked")
  /\ entry' = Updated(r)
  /\ Goto(r, "cleared")
  /\ UNCHANGED <<exists, row, rowLock, history>>

\* save with a manager: the entry is deleted before the commit.
ClearInTransaction(r) ==
  /\ At(r, "locked")
  /\ entry' = NoEntry
  /\ Goto(r, "cleared")
  /\ UNCHANGED <<exists, row, rowLock, history>>

\* Only the avatar use cases invalidate once more after the commit.
Commit(r) ==
  /\ At(r, "cleared") /\ exists
  /\ CommitUpdate(r)
  /\ rowLock' = NoRequest
  /\ Goto(r, IF req[r].use = "ChangeAvatar" THEN "committed" ELSE "done")
  /\ UNCHANGED <<exists, entry>>

InvalidateAgain(r) ==
  /\ At(r, "committed")
  /\ entry' = NoEntry
  /\ Goto(r, "done")
  /\ UNCHANGED <<exists, row, rowLock, history>>

\* A business error or a failing call rolls back, or the process dies: the
\* request ends where it is and PostgreSQL drops its lock.
GiveUp(r) ==
  /\ ~At(r, "idle") /\ ~At(r, "done")
  /\ Goto(r, "done")
  /\ rowLock' = IF rowLock = r THEN NoRequest ELSE rowLock
  /\ UNCHANGED <<exists, row, entry, history>>

-----------------------------------------------------------------------------
\* Mutant: the entry is set without a TTL.
EntryExpires_Mutant ==
  /\ entry = NoEntry /\ UNCHANGED vars

EntryExpires ==
  /\ entry # NoEntry /\ entry' = NoEntry
  /\ UNCHANGED <<exists, row, rowLock, req, history>>

ReadCached(r) ==
  CacheHit(r) \/ CacheMiss(r) \/ IndexMiss(r) \/ FillRead(r) \/ FillSet(r)

Create(r) == FindNobody(r) \/ Insert(r) \/ CreateRefused(r) \/ CommitInsert(r)

SaveUnlocked(r) ==
  \/ PlainRead(r) \/ SaveSelect(r) \/ SaveRefused(r) \/ SaveProfile(r)
  \/ InvalidateSaved(r) \/ RefreshRead(r) \/ RefreshSet(r) \/ WriteLock(r)

SaveLocked(r) ==
  LockRead(r) \/ ClearInTransaction(r) \/ Commit(r) \/ InvalidateAgain(r)

Step(r) == ReadCached(r) \/ Create(r) \/ SaveUnlocked(r) \/ SaveLocked(r)

Next == (\E r \in Requests : Step(r) \/ GiveUp(r)) \/ EntryExpires

Spec == Init /\ [][Next]_vars

\* A request that has begun goes on or dies, and the TTL of the entry runs out.
\* Nothing obliges a request to come.
Fairness ==
  /\ \A r \in Requests : WF_vars(~At(r, "idle") /\ (Step(r) \/ GiveUp(r)))
  /\ WF_vars(EntryExpires)

FairSpec == Spec /\ Fairness

-----------------------------------------------------------------------------
(* Properties *)

\* Whatever races with a locked use case, no change it committed is lost unless
\* a request that read without the lock wrote an old value back, and a linked
\* provider is never lost: the lock of findByIdForUpdate protects the
\* whole-record saves from one another, the NOT NULL of user_id the providers.
LockedChangesSurvive ==
  \A c \in Columns \ {"names"} :
    row[c] = committed[c] \/ c \in overwritten \ {"providers"}

\* The cache shows only records that were committed, never the pending write
\* of a transaction that may still roll back (CachedUserRepository.save).
EntryWasCommitted == entry # NoEntry => entry \in versions

\* A stale entry is not served for good: from some moment on the entry is the
\* record (the fills race with commits, only the TTL ends what they leave).
StaleEntryEnds == <>[](entry = NoEntry \/ entry = row)

\* docs/database/schema.md: incrementing credential_version revokes all the
\* earlier tokens, durably; so a committed increment is never taken back.
IncrementIsDurable == row["credential"] >= committed["credential"]
=============================================================================
