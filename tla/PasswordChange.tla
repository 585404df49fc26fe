--------------------------- MODULE PasswordChange ---------------------------
(***************************************************************************)
(* Changing the password of one user: durable facts in PostgreSQL          *)
(* (password_change_events and the credential version, written under a     *)
(* row lock), the projection of those facts in Redis with its initialized  *)
(* marker and pending barrier, and the durable refresh the outbox delivers *)
(* to the worker.                                                          *)
(*                                                                         *)
(* Time is a small integer clock.  A projection holds sets of facts where  *)
(* Redis holds sorted sets of event ids scored by their instant.           *)
(***************************************************************************)
EXTENDS Naturals, FiniteSets

CONSTANTS
  Requests,          \* requests for the user: password changes, status queries
  NoRequest,         \* no token, no lock owner, the author of a past fact
  Histories,         \* facts that may exist when the behaviour begins
  FirstInstant, LastInstant,   \* bounds of the clock
  FailureLimit, FailureWindow,
  ChangeLimit, ChangeWindow, Cooldown,
  FirstBlock, RecurrentBlock, RecurrenceWindow

Kinds == {"failure", "change", "block"}

Fact == [kind : Kinds, at : Nat, until : Nat, by : Requests \cup {NoRequest}]

ASSUME NoRequestAssumption == NoRequest \notin Requests
\* 0 is null and no instant.
ASSUME ClockAssumption == FirstInstant \in Nat \ {0} /\ LastInstant \in Nat
ASSUME PolicyAssumption ==
  /\ {FailureLimit, FailureWindow, ChangeLimit, ChangeWindow, Cooldown,
      FirstBlock, RecurrentBlock, RecurrenceWindow} \subseteq Nat \ {0}
  /\ FirstBlock <= RecurrentBlock
  /\ FailureWindow <= ChangeWindow /\ Cooldown <= ChangeWindow
\* Past facts are older than every request, and only a block has an end.
ASSUME HistoriesAssumption ==
  \A H \in Histories :
    /\ H \subseteq Fact /\ IsFiniteSet(H)
    /\ \A f \in H : /\ f.by = NoRequest /\ f.at \in 1 .. FirstInstant
                    /\ f.kind # "block" => f.until = 0
                    /\ f.kind = "block" => f.until \in f.at + 1 .. f.at + RecurrentBlock

VARIABLES
  clock,
  facts,       \* password_change_events of the user
  version,     \* credential_version, which stands for the password itself
  rowLock,     \* holder of SELECT ... FOR UPDATE on the user
  redis,       \* the four data keys of the projection
  initialized, \* the completeness marker
  pending,     \* the mutation barrier
  lapsed,      \* history: barriers that reached their TTL
  req,         \* the requests
  refresh      \* refresh requests in the outbox, by mutation token

vars == <<clock, facts, version, rowLock, redis, initialized, pending, lapsed,
          req, refresh>>

Projection == [failures : SUBSET Fact, changes : SUBSET Fact,
               blockedUntil : Nat, lastBlock : Nat]

Empty == [failures |-> {}, changes |-> {}, blockedUntil |-> 0, lastBlock |-> 0]

Phases == {"idle", "loading", "missing", "hydrating", "decided", "begun",
           "locked", "finishing", "syncing", "done"}

Request == [pc : Phases, now : Nat, base : Nat, view : Projection]

Refresh == [st : {"none", "queued", "reading", "applied", "abandoned"},
            view : Projection]

TypeOK ==
  /\ clock \in Nat /\ version \in Nat
  /\ facts \in SUBSET Fact
  /\ rowLock \in Requests \cup {NoRequest}
  /\ redis \in Projection
  /\ initialized \in BOOLEAN
  /\ pending \in Requests \cup {NoRequest}
  /\ lapsed \in SUBSET Requests
  /\ req \in [Requests -> Request]
  /\ refresh \in [Requests -> Refresh]

-----------------------------------------------------------------------------
(* The policy and the projection *)

\* An instant t lies in the moving window w that ends now: t > now - w.
Within(t, w, now) == t + w > now

\* The latest instant of S, 0 (null) when there is none.
Latest(S) ==
  LET newest == {t \in S : \A u \in S : u <= t}
  IN IF newest = {} THEN 0 ELSE CHOOSE t \in newest : TRUE

Lookback == Latest({ChangeWindow, RecurrenceWindow, RecurrentBlock})

\* findRelevantEvents(userId, now - lookback)
Relevant(F, now) == {f \in F : f.at + Lookback >= now}

OfKind(k, F) == {f \in F : f.kind = k}

\* PasswordChangeStateAssembler.assemble
Assemble(F, now) ==
  LET Past(k, w) == {f \in OfKind(k, F) : Within(f.at, w, now) /\ f.at <= now}
  IN [failures     |-> Past("failure", FailureWindow),
      changes      |-> Past("change", ChangeWindow),
      blockedUntil |-> Latest({f.until : f \in {b \in OfKind("block", F) : b.until > now}}),
      lastBlock    |-> Latest({f.at : f \in Past("block", RecurrenceWindow)})]

\* Mutant: the removal excludes the first instant of the window.
Trim_Mutant(p, now) ==
  [p EXCEPT !.failures = {f \in @ : f.at + FailureWindow >= now},
            !.changes = {f \in @ : f.at + ChangeWindow >= now}]

\* The two ZREMRANGEBYSCORE of the LOAD script.
Trim(p, now) ==
  [p EXCEPT !.failures = {f \in @ : Within(f.at, FailureWindow, now)},
            !.changes = {f \in @ : Within(f.at, ChangeWindow, now)}]

\* What LOAD returns: every failure, but only the newest changes (ZREVRANGE).
Loaded(p, now) ==
  LET t == Trim(p, now)
  IN [t EXCEPT !.changes =
        {c \in @ : Cardinality({d \in @ : d.at > c.at}) < ChangeLimit}]

\* evaluateRestrictions(state, now).allowed
Allowed(p, now) ==
  LET recent == {c \in p.changes : Within(c.at, ChangeWindow, now)}
  IN /\ p.blockedUntil <= now
     /\ \A c \in recent : c.at + Cooldown <= now
     /\ Cardinality(recent) < ChangeLimit

\* evaluateFailedAttempts(state, failedAt): the end of the block that the
\* current failure starts, 0 when it starts none.
BlockStarted(p, failedAt) ==
  CASE Cardinality(p.failures) + 1 < FailureLimit -> 0
    [] /\ Cardinality(p.failures) + 1 >= FailureLimit
       /\ p.lastBlock # 0
       /\ Within(p.lastBlock, RecurrenceWindow, failedAt)
       /\ p.lastBlock <= failedAt -> failedAt + RecurrentBlock
    [] OTHER -> failedAt + FirstBlock

-----------------------------------------------------------------------------
Idle == [pc |-> "idle", now |-> 0, base |-> 0, view |-> Empty]
Done == [Idle EXCEPT !.pc = "done"]

Init ==
  /\ clock = FirstInstant
  /\ facts \in Histories
  /\ version = 0
  /\ rowLock = NoRequest
  /\ redis = Empty /\ initialized = FALSE /\ pending = NoRequest
  /\ lapsed = {}
  /\ req = [r \in Requests |-> Idle]
  /\ refresh = [r \in Requests |-> [st |-> "none", view |-> Empty]]

cache == <<redis, initialized, pending, lapsed>>
durable == <<facts, version, rowLock, refresh>>

\* const now = new Date().
Arrive(r) ==
  /\ req[r].pc = "idle"
  /\ req' = [req EXCEPT ![r].pc = "loading", ![r].now = clock]
  /\ UNCHANGED <<clock, durable, cache>>

\* A view became the operational state: evaluateRestrictions throws, or the
\* request goes on with it.
Decide(r, p) ==
  req' = [req EXCEPT ![r] = IF Allowed(p, req[r].now)
                            THEN [@ EXCEPT !.pc = "decided", !.view = p]
                            ELSE Done]

\* LOAD finds the barrier: PasswordChangeOperationPendingError.
LoadPending(r) ==
  /\ req[r].pc = "loading" /\ pending # NoRequest
  /\ req' = [req EXCEPT ![r] = Done]
  /\ UNCHANGED <<clock, durable, cache>>

\* LOAD finds the marker and no barrier.
LoadReady(r) ==
  /\ req[r].pc = "loading" /\ pending = NoRequest /\ initialized
  /\ redis' = Trim(redis, req[r].now)
  /\ Decide(r, Loaded(redis, req[r].now))
  /\ UNCHANGED <<clock, durable, initialized, pending, lapsed>>

LoadMissing(r) ==
  /\ req[r].pc = "loading" /\ pending = NoRequest /\ ~initialized
  /\ req' = [req EXCEPT ![r].pc = "missing"]
  /\ UNCHANGED <<clock, durable, cache>>

\* hydrate: loadEvents and assemble.
HydrateRead(r) ==
  /\ req[r].pc = "missing"
  /\ req' = [req EXCEPT ![r].pc = "hydrating",
                        ![r].view = Assemble(Relevant(facts, req[r].now), req[r].now)]
  /\ UNCHANGED <<clock, durable, cache>>

\* Mutant: any token releases the barrier.
Replace_Mutant(p, token) ==
  /\ redis' = p
  /\ initialized' = TRUE
  /\ pending' = IF token # NoRequest THEN NoRequest ELSE pending
  /\ UNCHANGED lapsed

\* The REPLACE script: overwrite the data keys, set the marker, and release
\* the barrier when it still carries the token (NoRequest: no token was sent).
Replace(p, token) ==
  /\ redis' = p
  /\ initialized' = TRUE
  /\ pending' = IF token # NoRequest /\ pending = token THEN NoRequest ELSE pending
  /\ UNCHANGED lapsed

\* hydrate: replace without a token, whatever happened since the read.
HydrateWrite(r) ==
  /\ req[r].pc = "hydrating"
  /\ Replace(req[r].view, NoRequest)
  /\ Decide(r, req[r].view)
  /\ UNCHANGED <<clock, durable>>

\* GetPasswordChangeStatus answers; it never mutates.
Answer(r) ==
  /\ req[r].pc = "decided"
  /\ req' = [req EXCEPT ![r] = Done]
  /\ UNCHANGED <<clock, durable, cache>>

\* beginMutation: SET NX wins, and the marker goes.
Begin(r) ==
  /\ req[r].pc = "decided" /\ pending = NoRequest
  /\ pending' = r /\ initialized' = FALSE
  /\ req' = [req EXCEPT ![r].pc = "begun"]
  /\ UNCHANGED <<clock, durable, redis, lapsed>>

\* beginMutation: another mutation is pending.
BeginRefused(r) ==
  /\ req[r].pc = "decided" /\ pending # NoRequest
  /\ req' = [req EXCEPT ![r] = Done]
  /\ UNCHANGED <<clock, durable, cache>>

\* Mutant: a plain findById.
LockRow_Mutant(r) ==
  /\ req[r].pc = "begun"
  /\ rowLock' = r
  /\ req' = [req EXCEPT ![r].pc = "locked", ![r].base = version]
  /\ UNCHANGED <<clock, facts, version, refresh, cache>>

\* findByIdForUpdate.  Whether the password given matches the locked row is
\* input: CommitChange when it does, CommitFailure when it does not.
LockRow(r) ==
  /\ req[r].pc = "begun" /\ rowLock = NoRequest
  /\ rowLock' = r
  /\ req' = [req EXCEPT ![r].pc = "locked", ![r].base = version]
  /\ UNCHANGED <<clock, facts, version, refresh, cache>>

Fail(r) == [kind |-> "failure", at |-> req[r].now, until |-> 0, by |-> r]
Change(r) == [Fail(r) EXCEPT !.kind = "change"]
Block(r) == [Fail(r) EXCEPT !.kind = "block",
                            !.until = BlockStarted(req[r].view, req[r].now)]

\* Mutant: the transaction stores no refresh request.
Commit_Mutant(r, F) ==
  /\ facts' = facts \cup F
  /\ rowLock' = NoRequest
  /\ req' = [req EXCEPT ![r].pc = "finishing"]
  /\ UNCHANGED <<clock, refresh, cache>>

\* The transaction ends with the facts F: the events, the outbox row of the
\* refresh and the release of the row lock commit together.
Commit(r, F) ==
  /\ facts' = facts \cup F
  /\ refresh' = [refresh EXCEPT ![r].st = "queued"]
  /\ rowLock' = NoRequest
  /\ req' = [req EXCEPT ![r].pc = "finishing"]
  /\ UNCHANGED <<clock, cache>>

\* recordCurrentPasswordFailure, by the state loaded before the barrier.
CommitFailure(r) ==
  /\ req[r].pc = "locked"
  /\ Commit(r, IF Block(r).until = 0 THEN {Fail(r)} ELSE {Fail(r), Block(r)})
  /\ UNCHANGED version

\* The new hash and version are saved over what findByIdForUpdate returned.
CommitChange(r) ==
  /\ req[r].pc = "locked"
  /\ Commit(r, {Change(r)})
  /\ version' = req[r].base + 1

\* The transaction throws (same new password, no EMAIL provider, a database
\* error): nothing is kept, and the finally block still synchronizes.
Rollback(r) ==
  /\ req[r].pc \in {"begun", "locked"}
  /\ rowLock' = IF rowLock = r THEN NoRequest ELSE rowLock
  /\ req' = [req EXCEPT ![r].pc = "finishing"]
  /\ UNCHANGED <<clock, facts, version, refresh, cache>>

\* Mutant: the state loaded before the transaction is written back.
SyncRead_Mutant(r) ==
  /\ req[r].pc = "finishing"
  /\ req' = [req EXCEPT ![r].pc = "syncing"]
  /\ UNCHANGED <<clock, durable, cache>>

\* synchronize(userId, now, mutationToken): read and assemble ...
SyncRead(r) ==
  /\ req[r].pc = "finishing"
  /\ req' = [req EXCEPT ![r].pc = "syncing",
                        ![r].view = Assemble(Relevant(facts, req[r].now), req[r].now)]
  /\ UNCHANGED <<clock, durable, cache>>

\* ... and replace, releasing the barrier.
SyncWrite(r) ==
  /\ req[r].pc = "syncing"
  /\ Replace(req[r].view, r)
  /\ req' = [req EXCEPT ![r] = Done]
  /\ UNCHANGED <<clock, durable>>

\* The process dies, or Redis or the database fails a call outside the
\* transaction: the request ends where it is and PostgreSQL drops its lock.
GiveUp(r) ==
  /\ req[r].pc \notin {"idle", "done"}
  /\ req' = [req EXCEPT ![r] = Done]
  /\ rowLock' = IF rowLock = r THEN NoRequest ELSE rowLock
  /\ UNCHANGED <<clock, facts, version, refresh, cache>>

-----------------------------------------------------------------------------
(* The worker: RefreshPasswordChangeStateOnRequestedHandler *)

\* The outbox delivers the event; the handler takes the time and reads.
RefreshRead(r) ==
  /\ refresh[r].st = "queued"
  /\ refresh' = [refresh EXCEPT ![r] = [st |-> "reading",
                                        view |-> Assemble(Relevant(facts, clock), clock)]]
  /\ UNCHANGED <<clock, facts, version, rowLock, req, cache>>

\* The handler replaces; the outbox may deliver the event once more.
RefreshWrite(r) ==
  /\ refresh[r].st = "reading"
  /\ Replace(refresh[r].view, r)
  /\ \E st \in {"applied", "queued"} :
       refresh' = [refresh EXCEPT ![r] = [st |-> st, view |-> Empty]]
  /\ UNCHANGED <<clock, facts, version, rowLock, req>>

\* The handler rejects or its worker dies: a later attempt.
RefreshFails(r) ==
  /\ refresh[r].st = "reading"
  /\ refresh' = [refresh EXCEPT ![r] = [st |-> "queued", view |-> Empty]]
  /\ UNCHANGED <<clock, facts, version, rowLock, req, cache>>

\* The outbox has no attempt left for the event.
RefreshAbandoned(r) ==
  /\ refresh[r].st = "queued"
  /\ refresh' = [refresh EXCEPT ![r].st = "abandoned"]
  /\ UNCHANGED <<clock, facts, version, rowLock, req, cache>>

-----------------------------------------------------------------------------
PendingExpires ==
  /\ pending # NoRequest
  /\ pending' = NoRequest /\ lapsed' = lapsed \cup {pending}
  /\ UNCHANGED <<clock, durable, redis, initialized, req>>

InitializedExpires ==
  /\ initialized /\ initialized' = FALSE
  /\ UNCHANGED <<clock, durable, redis, pending, lapsed, req>>

Tick ==
  /\ clock < LastInstant /\ clock' = clock + 1
  /\ UNCHANGED <<durable, cache, req>>

Load(r) == LoadPending(r) \/ LoadReady(r) \/ LoadMissing(r)
Hydrate(r) == HydrateRead(r) \/ HydrateWrite(r)
Transact(r) == LockRow(r) \/ CommitFailure(r) \/ CommitChange(r) \/ Rollback(r)
Synchronize(r) == SyncRead(r) \/ SyncWrite(r)
Deliver(r) == RefreshRead(r) \/ RefreshWrite(r) \/ RefreshFails(r)

Next ==
  \/ \E r \in Requests : \/ Arrive(r) \/ Load(r) \/ Hydrate(r)
                         \/ Answer(r) \/ Begin(r) \/ BeginRefused(r)
                         \/ Transact(r) \/ Synchronize(r) \/ GiveUp(r)
                         \/ Deliver(r) \/ RefreshAbandoned(r)
  \/ PendingExpires \/ InitializedExpires \/ Tick

Spec == Init /\ [][Next]_vars

\* The outbox goes on delivering until an attempt completes or it gives the
\* event up (EventuallySettled in Outbox).
Fairness ==
  \A r \in Requests : /\ WF_vars(RefreshRead(r))
                      /\ WF_vars(RefreshWrite(r) \/ RefreshFails(r))
                      /\ SF_vars(RefreshWrite(r))

FairSpec == Spec /\ Fairness

-----------------------------------------------------------------------------
(* Properties *)

Mutating(r) == req[r].pc \in {"begun", "locked"}

Committed(r) == \E f \in facts : f.by = r

\* A request that may still write facts holds the barrier until its TTL:
\* hydrations, synchronizations and late refreshes of other mutations leave
\* it alone (the token of REPLACE, SET NX of BEGIN).
BarrierHolds == \A r \in Requests : Mutating(r) => pending = r \/ r \in lapsed

\* Nobody takes the projection for complete while a mutation whose barrier
\* has not timed out may still commit (LOAD looks at the barrier first).
NoReadyLoadWhileMutating ==
  [][\A r \in Requests :
       req[r].pc = "loading" /\ req'[r].pc = "decided"
         => \A s \in Requests \ lapsed : ~Mutating(s)]_vars

\* The credential version counts the committed changes: two requests never
\* replace the same password, barrier or not (findByIdForUpdate).
VersionCountsChanges ==
  version = Cardinality({f \in facts : f.kind = "change" /\ f.by \in Requests})

\* The facts of r that are still in their windows at instant t appear in p.
Shows(p, r, t) ==
  \A f \in facts : f.by = r =>
    /\ f.kind = "failure" /\ Within(f.at, FailureWindow, t) => f \in p.failures
    /\ f.kind = "change" /\ Within(f.at, ChangeWindow, t) => f \in p.changes
    /\ f.kind = "block" => p.blockedUntil >= f.until \/ f.until <= t

\* Before its TTL the barrier of a mutation is lifted only by a projection
\* that already shows what the mutation committed (synchronizeState, refresh).
LiftingShowsFacts ==
  [][\A r \in Requests :
       pending = r /\ pending' # r /\ r \notin lapsed'
         => ~Mutating(r) /\ Shows(redis', r, clock)]_vars

\* The policy read straight from the facts F at instant t.
PolicyAllows(F, t) ==
  LET changes == {f \in OfKind("change", F) : Within(f.at, ChangeWindow, t)}
  IN /\ \A b \in OfKind("block", F) : b.until <= t
     /\ \A c \in changes : c.at + Cooldown <= t
     /\ Cardinality(changes) < ChangeLimit

PolicyBlocks(F, t) ==
  LET failures == {f \in OfKind("failure", F) : Within(f.at, FailureWindow, t)}
      recent == {b \in OfKind("block", F) : Within(b.at, RecurrenceWindow, t)}
  IN IF Cardinality(failures) + 1 < FailureLimit THEN 0
     ELSE t + (IF recent = {} THEN FirstBlock ELSE RecurrentBlock)

\* A projection that was complete when it was written, aged in Redis and read
\* back later decides exactly as the facts do (assembler, REPLACE and LOAD
\* scripts and policy agree on every window boundary).
AgedProjectionDecidesAsFacts ==
  \A s \in 0..clock :
    LET F == {f \in facts : f.at <= s}
        p == Loaded(Assemble(Relevant(F, s), s), clock)
    IN /\ Allowed(p, clock) <=> PolicyAllows(F, clock)
       /\ BlockStarted(p, clock) = PolicyBlocks(F, clock)

\* A committed mutation does not keep the user locked out until the TTL even
\* if its request died: the durable refresh lifts the barrier, unless the
\* outbox abandons it (storeEvents in the transaction, the refresh handler).
RefreshLiftsBarrier ==
  \A r \in Requests :
    Committed(r) ~> pending # r \/ refresh[r].st = "abandoned"

\* docs/auth/change-password/flow/failed-attempts.md: the failure that reaches
\* the limit in the window already starts a block, at least while no barrier
\* times out (recordCurrentPasswordFailure).
LimitFailureStartsBlock ==
  lapsed = {} => \A f \in OfKind("failure", facts) :
    Cardinality({g \in OfKind("failure", facts) :
                   g.at <= f.at /\ Within(g.at, FailureWindow, f.at)}) >= FailureLimit
      => \E b \in OfKind("block", facts) : b.at <= f.at /\ b.until > f.at

Quiescent ==
  /\ \A r \in Requests : req[r].pc \in {"idle", "done"}
  /\ \A r \in Requests : refresh[r].st \in {"none", "applied"}

\* docs/auth/change-password/decisions/initialized-completeness-marker.md: the
\* marker declares that the snapshot is complete: when all is quiet, every
\* refresh was applied and no barrier timed out, it permits only what the facts
\* permit (replace without a token in hydrate).
InitializedIsComplete ==
  /\ Quiescent /\ lapsed = {}
  /\ initialized /\ pending = NoRequest
  /\ Allowed(redis, clock)
  => PolicyAllows(facts, clock)
=============================================================================
