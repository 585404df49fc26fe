# Formal models of the Danfy finance backend

TLA+ specifications of the backend under `src/api`, checked with TLC on small instances; all
safety properties are also proved with TLAPS, for every value of the constants. The subject is
what the repository's tests hardly reach: interleavings of API requests and workers, crashes
between two steps, leases, barriers and caches that expire at a bad moment, lost answers, and
copies that are stale when they are used.

## 1. The system

Two kinds of process (API and worker, `main.ts` and `worker.ts`) share PostgreSQL, Redis and an
object store. There is no other shared memory, so an interaction is a row, a Redis key, an
outbox message, a queue job or an object.

| Component | State | Operations | What makes it correct |
| --- | --- | --- | --- |
| Outbox (`shared/outbox`) | rows of `outbox_messages`, `isProcessing` of a worker | save with the domain transaction, claim a batch with `SKIP LOCKED`, renew the lease, mark published or failed, drain | every saved message is delivered at least once to every listener, or given up after its attempts; one outcome per message |
| Application events (`shared/events`) | listeners | `emitAsync` | every listener completes before the message is published |
| Password change (`modules/auth`) | `password_change_events`, credential version, Redis projection, marker, barrier | status, change, synchronize, durable refresh | decisions follow the durable facts; nothing mutates outside the barrier; the barrier is lifted |
| User record (`modules/users`) | `users`, `auth_providers`, cache entries | sign-up, OAuth callback, profile, username, avatar, provider linking, e-mail confirmation, password change | no committed change is lost; the cache is never wrong for good |
| Sessions and tokens (`modules/auth`) | `rt:*` keys and the set of a user, blacklist | sign-in, rotation, logout, revoke one and all, list | a replaced credential ends the sessions before it; a logout is final |
| E-mail verification (`modules/auth`) | challenges; budget, cooldown and barrier in Redis | create, resend, confirm, status | limits count every logical send; the user is verified once and never without a link |
| E-mail delivery (`modules/notifications`) | `email_messages`, BullMQ jobs | create, enqueue, send, reconcile | every message ends SENT, failed for good or canceled; not sent after the deadline |
| Accounts | `accounts`, account cache | create, provision, update, default, archive, unarchive | never two defaults, none archived; a default is lost only through a cut set-default or a save of an outdated copy |
| Account templates | `account_templates`, logos, the legacy columns of `accounts` | create, update, seed, curate, reconcile | a custom template has one owner; what v0.3 sees agrees with the template, up to colours the application does not know |
| Transactions, categories | `transactions`, `categories` | create, update, confirm, delete, merge, archive, provision | references stay valid; only a save of an overtaken copy undoes a confirmation or a deletion; the balances of all accounts add up to what the summary by type says |
| Avatars and assets | `assets`, stored objects | upload, finalise, compensate, remove, delete | the live avatar has its object; replaced objects go, or a named fault left them |
| Worker operations | heartbeat key | start, drain, stop | shutdown loses nothing |
| Mail, object storage, database, Redis, configuration, HTTP layer, health | none of their own | adapters | their atomicity is the step granularity of the models |

How the components meet: a use case writes its domain rows and its outbox row in one
transaction; a worker claims the row and runs the listeners; listeners write Redis state
(password change refresh, session revocation), provision an account and categories, create a
verification challenge, delete assets, or create an e-mail message and enqueue a job; the e-mail
processor sends it; a reconciler enqueues again what has no job. PostgreSQL is the authority and
Redis a projection or a cache that may lag, expire or be lost. The boundary between two models
is always the outbox: what `Outbox` promises (at least once, unless abandoned, also twice at a
time) is what the other modules assume of a delivery (`RefreshRead` of `PasswordChange`, the
handlers of `EmailDelivery`, `Deliver` of `Sessions` and `AvatarAsset`, `Redeliver` of
`EmailVerification`).

The hard parts, each at its line, are the `hazards` of `PROJECT.json`.

## 2. Modules

| Module | Models | Proofs |
| --- | --- | --- |
| `OutboxContract` | abstract: what the outbox promises, with no worker, lease or claim | |
| `Outbox` | the table, the claim/lease/mark statements and the polling loop of several worker processes; implements `OutboxContract` | `OutboxProofs` |
| `PasswordChange` | password change of one user: facts, projection, marker, barrier, policy, refresh by the worker | `PasswordChangeProofs` |
| `UserRecord` | the record of one user from its creation on, saved as a whole by several use cases, and its cache entry | `UserProofs` (part two) |
| `EmailDeliveryContract` | abstract: what the notifications module promises of a message, with no handler, job, worker or attempt | |
| `EmailDelivery` | e-mail messages, their BullMQ jobs, the handlers that write them, the processor, the reconciler; implements `EmailDeliveryContract` | `EmailDeliveryProofs` |
| `SessionsContract` | abstract: what the sessions promise to the rest of the system, with no requests, cached users, index or single commands | |
| `Sessions` | the sessions of one user in Redis, command by command, and the credential version; implements `SessionsContract` | `SessionsProofs` |
| `EmailVerification` | challenges, the budget of resends, confirmation and the status read | `UserProofs` (part one) |
| `Accounts` | status and default of a user's accounts, and the cache the use cases decide on | `FinanceProofs` (part two) |
| `AccountTemplates` | the visual identity of accounts beside v0.3, the commands and an operator | `AccountTemplatesProofs` |
| `Ledger` | transactions, categories, the merge and the balances | `FinanceProofs` (part one) |
| `AvatarAsset` | the avatar, its assets and their objects in the store | `AvatarAssetProofs` |
| `MC*` | the instances TLC checks | |

`UserProofs` and `FinanceProofs` each hold the proofs of two components that belong to one user.
They extend the first (`EmailVerification`, `Ledger`) and speak of the second as an instance
(`Rec` of `UserRecord`, `Acc` of `Accounts`) whose clashing variables are renamed.

In every module a use case is the sequence of its own database statements, Redis commands and
calls of other services, one step each, and a crash or an error may end it between two of them
(`GiveUp`, `Crash`, `HandlerFails`, ...). What one transaction or one Lua script does at once is
one step. Variables marked *history* are read by properties only.

### Outbox

`row[m]` is the row of message `m`. Comparisons with the clock are two flags that time flips:
`lease` (has `locked_until` passed) and `due` (has `next_retry_at` passed). `jobs` are the
`processMessage` calls in flight, each with the copy of the row it was claimed with (`attempt`),
the listeners that completed, and whether `processReadyMessages` still awaits it (`current`):
`isProcessing` of a worker is the existence of an awaited job. `ClaimReadyBatch` is the whole
claim statement and picks any non-empty part of the claimable rows up to the batch limit,
because `SKIP LOCKED` passes over whatever another statement holds. `MarkPublishedThrows` and
`MarkFailedThrows` are the statements whose answer is lost or that fail; `ClaimAnswerLost` the
same of the claim. `Stop` is a crash, the end of the shutdown deadline or an orderly exit;
`Start` takes an identity that no row carries, since the code draws a fresh UUID.

### Password change

One user, several requests, a small integer clock. `facts` are the rows of
`password_change_events`; `version` is the credential version and stands for the password.
`redis`, `initialized` and `pending` are the keys the Lua scripts read and write: each script is
one action or one operator (`Loaded`, `Replace`, `Begin`). A request walks through LOAD,
hydration (read, then write), the decision, the barrier, the row lock, the transaction (events,
version and refresh message commit together) and synchronization (read, then write). Whether the
given password matches is an input: `CommitChange` or `CommitFailure`. `GiveUp` is a crash, or a
Redis or database error outside the transaction, at any step; `PendingExpires` and
`InitializedExpires` are the TTLs, at any moment. The worker's refresh is delivered as often as
the outbox delivers it (`RefreshRead`, `RefreshWrite`, `RefreshFails`) until it completes or is
abandoned.

Left out: the TTLs of the four data keys (the trimming of LOAD and the comparisons of the policy
drop what would have expired), the wording of restrictions and the rounding of `retryAfter`, and
ties in the cap on loaded changes (a tie may load one more). The revocation of sessions after
the commit belongs to `Sessions`. `VersionCountsChanges` speaks of password changes among
themselves; what another use case does to the column is the business of `UserRecord`.

### User record

TypeORM's `save` of a copy is two steps: a select that finds the columns in which the copy
differs from the row, then an update of these columns. `UserMapper.toOrm` copies every column
and every provider, so what a use case saves is the whole user it read. Columns are counters of
the values written to them. Use cases in `Locked` read with `findByIdForUpdate`; `LinkGoogle`
(and the OAuth callback, which has the same shape) reads plainly inside its transaction;
`UpdateProfile` saves the user the request was authenticated with, which may come from the
cache. `SaveRefused` is the failure of a save whose copy lacks a provider that was linked
meanwhile: TypeORM tries to detach it and `user_id` is NOT NULL. `exists` says whether the
creation was committed: a sign-up, or the OAuth callback that finds nobody (`FindNobody`),
inserts the row (`Insert` waits for the insert of another request, as the unique index on the
e-mail makes it), clears the cache like any save in a transaction, and commits (`CommitInsert`);
who comes second is refused. The cache entry is the one by id; its readers are those by id,
which look at it first, and those whose index key is gone or who have none (`IndexMiss`), which
fill it whatever it holds. What the index keys hold, the cached answer whether a username is
taken and the values themselves are left out. `GiveUp` stands for business errors and early
returns too.

### E-mail delivery

A message is its idempotency key; `status` is the column (`ABSENT` before the insert), `created`
the order of `created_at`, `old` how many messages the reconciler's cutoff has reached, and
`expired` the messages whose `deliver_before` has passed. `deadlined` says which messages have
one (those of e-mail verification). Every change of a row is made in a transaction that reads it
`FOR UPDATE`, so a transaction is one action; the insert, the calls of the provider and of the
queue, and the look at the clock before the call are others. Handlers walk through
`findByIdempotencyKey`, the insert (whose conflict is read again outside a transaction and fails
inside one) and the enqueue; `HandlerFails` is an error or a crash, after which the outbox
delivers again or has given up. `exec` are executions of `EmailMessageProcessor.process` in all
workers. `Send` returns what the provider may answer; a timeout may hide an acceptance.

`job` is the BullMQ job of each message, modelled from how the code uses the queue: its id is
derived from the message, so `Add` does nothing while the queue still knows the id, in whatever
state. An active job belongs to the execution that took it; a job whose lock ran out is taken
from a live worker as well as from a dead one (`Stall`), which is how two executions of one job
overlap; the end of an execution that lost its job does not move it. Attempts and stalls are
counted, and finished jobs are forgotten (`removeOnComplete`, `removeOnFail`) at any time.
`doubted` and `handedOver` are history: what the provider accepted, counted until an answer is
lost, a worker dies after acceptance, or a job is taken from a live worker.

`EmailDeliveryContract` knows of a message only its fate (absent, intended, sent, failed,
canceled), how often the provider accepted it, whether it is in doubt and whether it is late.
`Contract` maps a message to it: the three statuses that can be processed are one fate
(`Fate`), the rest is history or a flag. So a handler, a claim of a job, a retry or a stall is a
stutter of the contract, and whatever they do together ends a message once, as SENT only after
an acceptance, as CANCELED only behind its deadline, and as neither CANCELED nor failed for good
once an acceptance is known.

Left out: `attemptsCount`, error texts, template parameters (that a stored template breaks its
contract is an outcome of `Prepare`), the backoff delay, and the verification request that finds
no token and writes no message.

### Sessions

A token stands for the pair minted together; `session` are the `rt:` keys, `index` the user's
set, `blacklist` the access tokens that were logged out, `fresh` those that have not expired.
`createSession`, `revokeSession`, `revokeAllSessions` and `getActiveSessions` are sequences of
the commands of `redis-session.repository.ts`; the strategies of the guards are the first steps
of a request (`Admit`), and the user they find may come from the cache. `CommitChange` is the
commit of a password change (with its message in `pending`, which `Deliver` takes as often as
the outbox does); the revocation that the change makes by itself runs after it. `root` is the
version under which the user last signed in and `crossed` says that a change was committed
during a rotation: the two are what tells a session that begins anew from one that was carried
over. `condemned`, `swept` and `ended` are history. TTLs run out at any moment.

`SessionsContract` knows which sessions are open, which access tokens are accepted, what was
minted from what, and which password changes are still to be delivered. `Contract` maps
`session` to `open`, `Accepted` (neither expired nor on the blacklist) to `accepted` and
`pending` to `due`. So a closed session never opens again, though two requests may rotate it,
revoke it and write the index at the same time; a rotation answers only when the session it
replaces is closed, and its `crossed` says exactly whether a change was committed since that
session was issued; a change condemns every open session that was handed out and is within reach
of a revocation; a delivery of its revocation is done only when none of them is left; a token
once refused stays refused. What the contract has to admit it names: sessions a listing or
another revocation took off the index (`swept`), and rotations that cross a change.

Left out: signatures, session metadata, and the rest of the password change.

### E-mail verification

A resend and its challenge share a name; the challenge of the `user.created` handler is
`Automatic`. Time is a small clock, a key with a TTL an instant. `Begin` and `BeginRefused` are
the script that takes the barrier, `Renew`, `CompleteResend` and `Abort` the other scripts,
`LockUser` and `Commit` the transaction. COMPLETE comes after the commit and may find the
barrier gone: `slipped` remembers such sends. A confirmation locks its challenge and then the
user, a resend the user and then the open challenges; a deadlock the database detects ends one
of them (`ConfirmationFails`, `GiveUp`). `ReadStatus` is LOAD and its parser, whose answer
`StatusIsAnswered` compares with what a resend would be told.

Left out: token hashes, the last send (it is only shown), and the e-mail, which is
`EmailDelivery`.

### Accounts

`row`, the cache (`entry` by id, `list` of active ones) and requests with the copy they decide
on. `save` of TypeORM is a select (`Compare`) and an update of the columns that differ
(`Update`), which the partial unique index and the CHECK may refuse (`Legal`).

Three variables are history. `stale` of a request says that the account it has read, or one of
its list, has become the default since; `old` are the cache entries of that age, put there by
such a request or left from before the change until its `Clear`. `torn` says that the default
was given up without a successor: by a set-default that was cut, or by a save of a stale copy,
which writes the status and the default it had read. That save is the one way in which archiving
loses the default (section 5); a copy read after the account became the default never does.
Names, types and initial balances are left out.

### Account templates

`row` is the template and the legacy look of an account, `custom` and `catalogue` the two kinds
of template, `object` the published logos. A process serves an update (read, resolution of the
wanted look, save of the template, save of the account) or runs a command: `Seed`, `Curate`, or
batches of `reconcile` with `SKIP LOCKED`. The v0.3 image, which shares the database during the
migration, and the operator are actions too. `stale` marks requests somebody overtook,
`disturbed` the accounts that v0.3 or such a request wrote last.

The colours are those of the application and others that only v0.3 writes. `Sanitized` is
`isColorToken(color) ? color : null`: an update gives account and template the sanitized look
(`Wanted`), a reconciliation gives it to the template and leaves the account's colour as it was
(`ReconcileBatch`), so `VisualAgrees` compares the template with the sanitized look of the
account. A set-default, archive or unarchive may also find a cache entry written by v0.3, which
knows no template (`Copies`), and saves the account without one; a reconciliation finds it again.
The content of SVGs, BrasilAPI's record and names are left out.

### Ledger

`tx` and `cat` are the tables; a request is a copy and the place it has reached. Categories are
read through Redis; since an entry can be older than the row, the cache answers any state the
row has had (`past`). The merge is the one database transaction: `Move` and `RemoveRow` take
locks that `Commit` releases. Foreign keys, CHECKs and row locks are guards; what they refuse
ends the request. `crossed` and `mixed` are history: a save whose copy somebody overtook may undo
a confirmation or a deletion, which `UndoneOnlyCrossed` excepts, and two such saves may mix a
type with the category of another. `Delta` is the sign of a row in the balance of an account and
`Summary` the count of the rows of a type, both translated from SQL; amounts are 1.
`SummariesAgree` compares totals: the balances of all accounts together with the summaries by
type and the adjustments by direction, not account by account and not by category.

### Avatars and assets

An upload reserves the asset, puts the object, and finalises in a transaction that makes it the
avatar and stores an event about the former one; failures compensate. `profile` is a profile
change that saves an old copy of the avatar (see `UserRecord`), `job` the deliveries of the
event to the workers, two at a time. A failed delivery leaves the message pending (`Fail`) or was
its last attempt (`Abandon`): the message is then dead, nobody will remove the object, and
`orphans` says so. The store answers, fails, or fails after having done the work. `unsure`,
`orphans` and `reverted` are history: the faults after which an object may be missing or left
behind.

## 3. Runs

| Run | Instance | Shows |
| --- | --- | --- |
| `outbox_safety` | 2 workers, 2 messages, 2 listeners, 2 attempts, batch of 2 | types, `ExclusiveClaim`, and `ImplementsContract` (refinement) |
| `outbox_liveness` | 2 workers, 1 message, 2 listeners, 3 attempts, under `FairSpec` | `EventuallySettled` |
| `password_safety` | 2 requests, 3 histories, clock of 2 instants | `BarrierHolds`, `VersionCountsChanges`, `AgedProjectionDecidesAsFacts`, `LiftingShowsFacts` |
| `password_liveness` | under `FairSpec` | `RefreshLiftsBarrier` |
| `user_safety` | 3 requests, each any of 9 use cases, on a user that exists or not, under `FairSpec` | `LockedChangesSurvive`, `EntryWasCommitted`, `StaleEntryEnds` |
| `email_safety` | 1 message with or without a deadline, 2 handlers, 2 executions, 2 attempts, 1 stall, under `FairSpec` | `HandedOverOnce`, `CompletedJobSettles`, `TerminalIsFinal`, `DispatchBeforeDeadline`, `JobsFinish`, and `ImplementsContract` (refinement) |
| `sessions_safety` | 2 token pairs, 2 requests, 2 versions | `UsableIsListed`, `CondemnedAreRevoked`, `SurvivorsCrossed`, `LogoutIsFinal`, and `ImplementsContract` (refinement) |
| `verification_safety` | 3 resends and the automatic link, clock of 4 instants, limit of 2 in a window of 3 | types, `SendsAreLimited`, `SendsAreSpaced`, `VerifiedOnce`, `CooldownLeavesALink`, `StatusIsAnswered`, `RetryAfterSuffices` |
| `accounts_safety` | 2 accounts, 2 requests | `DefaultKept` |
| `ledger_safety` | 1 transaction, 4 categories, 2 accounts, 2 requests | `CategoryFits`, `UndoneOnlyCrossed`, `SummariesAgree` |
| `avatar_safety` | 2 assets, 2 workers | `AvatarIsServed`, `NoOrphans` |
| `templates_safety` | 2 accounts, 1 catalogue entry, 2 custom templates, 2 processes, batches of 1 | `CustomIsPrivate`, `VisualAgrees`, `ReconcileCovers`, `OperatorPrevails` |

Every type invariant is proved; the runs marked `types` check it as well.

**Bounds.** Two workers, two messages and two attempts are the least in which a message is
reclaimed while its old job lives, a batch is split, and the last attempt differs from the
others. Two password-change requests and their two refreshes are the least in which one
overwrites the projection of the other; the histories put the user one failure short of the
limit, inside a cooldown, and inside a recurrence window, at the exact edges of the windows.
Three requests on the user record allow two writers and a reader that fills the cache from
before both. One e-mail message is enough for what happens to a message, as messages meet only
in the reconciler's batch; two handlers, two executions, two attempts and one stall are the
least in which an insert conflicts, two executions of one job overlap, and the last attempt
differs from the first. Two tokens are a session and its rotation, two requests a rotation and
what crosses it, two versions one password change. Three resends against a limit of two are the
least that can exceed it, and the clock ends cooldown, barrier and window once; there is one
renewal where the code has three. Two accounts and two requests allow two defaults to compete.
In the ledger two categories of one type can be merged, the transfer and the adjustment need
their own; adjustments come in both directions. No property relates two transactions except the
summaries, where rows add up, so one transaction is stored; it is an income, a transfer or an
adjustment, and that an expense counts with its sign is left to the theorem, which has every
type and any number of rows. Two
assets are an avatar and its successor. Two accounts with batches of one make a reconciliation
go round.

Four instances have a state constraint. `Bounded` of `MCEmailVerification` lets the automatic
link be sent while the account is new and at most two links be under confirmation or used, which
is enough for two confirmations at once. `Bounded` of `MCAccountTemplates` lets two requests
meet over one account only, which has left one custom template at most; beside two accounts or
two requests the catalogue is active and no account has a foreign colour, so that the
conversions of colours and a catalogue switched off are explored with one account, one request
and the commands; logos change only before any account exists, because no account reads them.
`Bounded` of `MCAccounts` asks that of two requests one may make its account the default, since
only such a request makes one, and overlapping with it is what may lose it; two archives,
updates or listings at once are left to the theorem. `Bounded` of `MCLedger` lets two requests
change the transaction at once while it is an income, which has two categories to move between;
as a transfer or an adjustment it meets one, beside a request on the categories. None of them is
used with a liveness property. `LastInstant`, `LastVersion`, the attempts and the sets of names
are the only other bounds.

Checks stop where every request has ended, so most runs do not check deadlock: the processes
really stop when there is nothing left to do. In `ledger_safety` and `avatar_safety` they never
do, and deadlock is checked.

**Fairness.** Outbox: time passes, handlers settle, draining processes exit, processes are
restarted (the container restarts them) and a running worker polls on its timer; strong fairness
of the claim says that a worker is not killed every time before its first poll. Nothing obliges
a lease to be renewed or a producer to save. Password change: the outbox goes on delivering the
refresh until an attempt completes or it is abandoned, which is `EventuallySettled` of the
outbox. User record: a request that has begun goes on or dies, and the TTL of the cache entry
runs out. E-mail delivery: an execution goes on or its worker dies, a job without a worker is
found stalled, messages grow old and the reconciler runs on its timer. Two fairness conditions
are strong: a job that waits again and again is taken (BullMQ serves its list in order), and the
reconciler's add succeeds if it is tried again and again (Redis is not down at every attempt).
The other modules state no fairness: nothing retries a request of the API, and what the outbox
delivers is settled in `Outbox`.

## 4. Proofs

All theorems are of the form `Spec => []P`, `Spec => [][A]_vars` or a refinement. What the
assumptions of the modules do not say of an instance is a hypothesis of its theorems: for `Rec`
that `NoRequest` is no request, for `Acc` that `Cash` is an account. They hold for
every set of requests, workers, messages, accounts, assets and listeners and every policy that
meets the named assumptions of the module. In each, an inductive invariant (`IInv`, or a chain of
named ones) is shown to hold initially, to be preserved by every action (one lemma or step per
action) and to imply the property, which TLC had checked on the instance of the run.

* **Outbox.** The inductive invariant adds to the types that the awaited jobs of a worker
  concern distinct messages and that a job's attempt matches the row while it still owns it.
  `isProcessing` gives the first, the fence of `locked_by` with fresh identities the second.
  From it follow `ExclusiveClaim` and, action by action, that each step of `Outbox` is a step or
  a stutter of `OutboxContract`.
* **Password change.** The invariant is the conjunction of the types, `BarrierHolds`, the order
  of a refresh and its transaction, the visibility of a request's own facts from its commit on,
  the row lock held by the request that has read under it, finiteness of the facts,
  `VersionCountsChanges`, instants not in the future, and that every view about to be written
  with a token shows the facts of that token. `LiftingShowsFacts` and `NoReadyLoadWhileMutating`
  are action properties proved from it. `VersionCountsChanges` does not use the barrier at all:
  the row lock is enough. `AgedProjectionDecidesAsFacts` follows from the types, from blocks being
  no longer than the policy allows, and from `InstantsReal`: no fact bears the instant 0, which
  the projection uses for null (`ClockAssumption` starts the clock later). Field by field the
  projection shows the facts that a window read later can still contain (`AgedFields`); the cap on
  loaded changes keeps the newest and reaches the limit exactly when the changes do (`CapKeeps`);
  the last block is the newest instant of a block (`RecurrenceAgrees`).
* **User record.** The invariant adds that a request between its write and its commit holds the
  row lock, that a copy read under the lock still equals the row except for its own column, that
  every copy bound for the cache was committed, and that before the creation is committed nobody
  has read the user.
* **E-mail delivery.** The invariant adds that a job and an execution belong to a message that
  exists, that an execution about to complete leaves a terminal message, that a message not in
  doubt has at most one live execution (it is the one its job names), and that this execution
  sends only while the message is PROCESSING. `CompletedJobSettles` and `HandedOverOnce` are
  parts of it; `TerminalIsFinal` and `DispatchBeforeDeadline` follow action by action. For
  `ImplementsContract` two facts about the history are added, `AcceptedIsCounted` (an execution
  that was accepted, of a message not in doubt, has been counted) and `DoubtedIsUncounted`; from
  them every transaction that ends a message meets the guard of the contract (`EndStep`), every
  acceptance is the first (`NothingCounted`), and the rest doubts, turns late or stutters.
* **Sessions.** `Base` holds what every request may rely on (`Sane`: the places its kind passes
  through, and what its copies still say there), that only what was minted is stored and only what
  was issued is used, that two requests never create the same session, and that one change commits
  at a time. On it rest: `Listed`, `UsableIsListed` for the session that has its entry but not yet
  its answer too; `Condemning`, that a delivery which is deleting keys still has before it every
  condemned key that is left; and `Descended`, `SurvivorsCrossed` of every token whatever is stored.
  `CondemnedAreRevoked` and `LogoutIsFinal` are inductive beside them. For `ImplementsContract`
  the invariant needs in addition what a rotation has behind it (`Rotations`): once past the DEL,
  the session it replaces is closed, and stays so because a key is written once (`Replacing`); and
  one that has crossed a change holds a session older than the stored version (`Crossing`). The
  blacklist holds only tokens in use, so that an access token expires once. Then each action is a
  step of the contract or a stutter (`Faithful`).
* **E-mail verification.** `LinkInv` says that a resend before its commit has no challenge, that a
  link under confirmation holds the lock of the user and agrees with his status, and that of two
  confirmations one at most verifies; `CooldownLeavesALink` needs from the configuration only that
  a link outlives the longest cooldown (`TokenTtlAssumption`). `SendInv` is about what no key shows
  alone: between the commit and COMPLETE a send is in no count, and the barrier stands for it.
  `BarrierOK` says that its owner began last, `Counting` that a send is in the sorted set with its
  cooldown, or has left the window, or still owns the barrier; `Limited` bounds the sends that
  weigh at an instant, the holder of the barrier included, which is one BEGIN let in; `Spaced` is
  the same of the cooldown. Sends whose barrier timed out (`slipped`) are excepted.
* **Ledger.** A request carries a copy that fits its category unless the row did not (`Fitting`)
  and, uncrossed, undoes neither a confirmation nor a deletion (`Onwards`). The merge is the
  rest: it holds the rows it has moved (`Holding`), the target stays as long as it has moved any
  (`Receiving`), and nothing is left under the category whose row it deletes (`Emptied`).
  `UndoneOnlyCrossed` is an action property that `Onwards` gives. `SummariesAgree` compares sums
  over different sets: the balances add up the rows of each account, over all accounts; the
  other side counts rows by type and by direction, whatever their account. `Sound` says what the
  sums need of the rows, that they are of the types and finitely many, as are the accounts of a
  user (`AccountsAssumption`). A sum is the recursive function that `MapThenSumSet` stands for,
  which exists and depends on the set and not on the order in which it is taken (`SumsExist`,
  `SumsAgree`); that the sum of two functions is the sum of their sums, and that a function
  which is 0 but at one place adds up to its value there (`TotalAdds`, `TotalOfOne`), is shown
  with a smallest counterexample in place of an induction (`SmallestSet`). So one row counts as
  often over the accounts as in the summaries: a transfer in two accounts and, with opposite
  signs, in no total.
* **Accounts.** The invariant adds that an account a request has read still exists (nothing
  deletes one), that cached copies are of existing accounts, that a set-default carries a copy
  which is the default, and that an insertion which does not make the default has seen another
  account. `Current` and `CachedCurrent` say that a copy which is not `stale`, and an entry
  which is not `old`, knows whether its account is the default, so that only a stale save gives
  it up. Uniqueness comes from the index (`Legal`, `Provision`); that a default is missing for
  the named reasons only needs the whole invariant.
* **Avatars.** The invariant adds that an upload not yet finalised is known to nobody else, that
  its object exists exactly from the put on, that every copy of the avatar is an avatar there
  has been, that a delivery works on a former avatar whose object is gone past the removal, and
  that nobody is about to remove the object of the avatar in use.
* **Account templates.** Four invariants, each resting on the ones before. `Types` adds to the
  types that what a row, a request or a batch refers to exists, or is held by the request's own
  transaction. `OneUser` says that no custom template is the account's own for two accounts,
  counting the copies that open requests may still write back: `CustomIsPrivate` alone is not
  inductive, for a stale copy returns. `Looking` says that a request nobody has overtaken carries
  a copy that agrees with its template and covers the columns it will not write; it needs
  `OneUser`, since repainting a template must not change another account. `Covered` and
  `Informed` tie what a reconciliation left out, and what a seed or a publication saw, to the
  present; `ReconcileCovers` needs that the accounts are finitely many.

**Only model-checked.** Liveness (`EventuallySettled`, `RefreshLiftsBarrier`, `StaleEntryEnds`,
`JobsFinish`), which the prover does not handle.

## 5. Where the code and its documents disagree

Each of these configurations checks one sentence of the documentation, and TLC finds a behaviour
of the code that contradicts it (`tlc -config MCOutbox_wedged.cfg MCOutbox`, and so on).

| Configuration | Property | The sentence | What the code does |
| --- | --- | --- | --- |
| `MCOutbox_wedged.cfg` | `ExpiredLeaseRecoverable` | `src/docs/events/README.md:190`, of `locked_until`: "evita mensagem presa para sempre se o worker morrer" | a claim needs `attempts < max_attempts` (`outbox-message.repository.ts:64`), so a row whose last attempt was cut short stays PROCESSING and is neither retried nor DEAD |
| `MCOutbox_overlap.cfg` | `FailedIsRetryable` | `src/docs/events/README.md:180`, of FAILED: "Falhou, mas ainda pode tentar novamente" | one rejected `markFailed` ends the wait for the batch (`outbox-processor.service.ts:85`), the next cycle overlaps with the old jobs, and a row ends FAILED with no attempt left |
| `MCPasswordChange_limit.cfg` | `LimitFailureStartsBlock` | `src/docs/auth/change-password/flow/failed-attempts.md:45`: "A quinta falha na janela móvel de 15 minutos já produz um bloqueio" | whether a failure starts a block is decided on a state from before the barrier (`change-user-password.use-case.ts:188`), so the one that reaches the limit may start none |
| `MCPasswordChange_complete.cfg` | `InitializedIsComplete` | `src/docs/auth/change-password/decisions/initialized-completeness-marker.md:26`: "ele declara que o snapshot está completo" | hydration replaces the projection without a token (`password-change-state-loader.ts:67`) and may overwrite a newer one |
| `MCUserRecord_durable.cfg` | `IncrementIsDurable` | `src/docs/database/schema.md:60`: "seu incremento revoga logicamente todos os tokens anteriores." | a profile update saves the whole user it was authenticated with (`update-user-profile.use-case.ts:28`), the old credential version included |
| `MCEmailDelivery_starved.cfg` | `PendingIsReconciled` | `src/docs/notifications/README.md:50-51`: the reconciler "seleciona intenções antigas ... e repete o enqueue." | it takes the same oldest messages in every cycle (`email-message.repository.ts:54`), also those whose kept failed job makes the add do nothing |
| `MCSessions_survivor.cfg` | `ChangeEndsEverySession` | `src/docs/integrations/auth/change-password.md:103`: "A revogação vale para todas as sessões, não somente para o dispositivo atual." | a rotation that passed the version check before the change reads the new version afterwards (`refresh-tokens.use-case.ts:35`) and writes its key after the revocation |
| `MCAccounts_active.cfg` | `SomeAccountActive` | `src/docs/accounts/reference/invariants.md:19`: "Usuário precisa manter pelo menos uma account ativa." | archiving counts on a cached list (`archive-account.use-case.ts:37`); after a set-default that was cut, both accounts can be archived |
| `MCAccounts_archived.cfg` | `DefaultNotArchived` | `src/docs/accounts/reference/invariants.md:17`: "Account default não pode ser arquivada." | archiving decides on a copy, or a cache entry, from before the account became the default and saves status and default as it had read them (`archive-account.use-case.ts:43`); the account ends archived and the user without a default |
| `MCLedger_mixed.cfg` | `CategoryAlwaysFits` | `src/docs/transactions/reference/invariants.md:72`: "Toda transaction deve usar uma category compatível com seu type." | two requests valid on the same copy each write the columns they changed (`transaction.repository.ts:91`) |

The passing runs show the other side: `SurvivorsCrossed`, `CategoryFits`, `DefaultKept`,
`LockedChangesSurvive` and `ExclusiveClaim` say what still holds, and name in their comments the
cases they except.

## 6. Not modelled

* **The state key of a Google link** and the cached answer to "is this username taken": a key
  read and deleted at once, and an answer that only advises; the unique index decides.
* **Adapters** for mail, storage, database and Redis, configuration, HTTP DTOs and validation,
  error formats, the throttling guard, health endpoints, mappers and helpers: they keep no state
  or only perform I/O. Their atomicity and their ways to fail are in the steps of the models.
* **Session metadata**: parsing of request headers.
* **Reads that decide nothing** (lists, pages, summaries shown to the client), except where a
  property is about them.

## 7. Plan

Done: all modules, the proof of every safety property the runs check, and contracts of the
outbox, of the e-mail delivery and of the sessions with the proofs that the modules implement
them. Left: a contract of the password change, one writer at a time and a projection that lags,
which `PasswordChange` can refine only as long as no barrier lapses.
