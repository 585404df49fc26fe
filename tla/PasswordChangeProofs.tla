------------------------ MODULE PasswordChangeProofs ------------------------
(***************************************************************************)
(* Proofs about PasswordChange, for any number of requests, any history    *)
(* and any limits and windows of the policy.                               *)
(***************************************************************************)
EXTENDS PasswordChange, FiniteSetTheorems, WellFoundedInduction, TLAPS

USE NoRequestAssumption, ClockAssumption, PolicyAssumption

-----------------------------------------------------------------------------
(* Instants and projections *)

\* A finite set of instants that is not empty has a latest one.
LEMMA LatestExists ==
  ASSUME NEW S \in SUBSET Nat, IsFiniteSet(S), S # {}
  PROVE  \E t \in S : \A u \in S : u <= t
<1> DEFINE HasMax(T) == \E t \in T : \A u \in T : u <= t
           Bad == {n \in Nat : \E T \in SUBSET Nat :
                     IsFiniteSet(T) /\ Cardinality(T) = n /\ T # {} /\ ~HasMax(T)}
<1>1. SUFFICES ASSUME Bad # {} PROVE FALSE
  <2>1. Cardinality(S) \in Nat
    BY FS_CardinalityType
  <2> QED BY <2>1
<1>2. PICK n \in Bad : \A m \in Bad : n <= m
  <2> DEFINE Less == {s \in Nat \X Nat : s[1] < s[2]}
  <2>1. IsWellFoundedOn(Less, Nat)
    BY NatLessThanWellFounded DEF OpToRel
  <2>2. Bad \subseteq Nat
    OBVIOUS
  <2> HIDE DEF Bad, Less
  <2>3. PICK n \in Bad : \A m \in Bad : <<m, n>> \notin Less
    BY <1>1, <2>1, <2>2, WFMin
  <2>4. ASSUME NEW m \in Bad PROVE n <= m
    <3>1. m \in Nat /\ n \in Nat
      BY <2>2
    <3>2. <<m, n>> \notin Less
      BY <2>3
    <3>3. ~(m < n)
      BY <3>1, <3>2 DEF Less
    <3> QED BY <3>1, <3>3
  <2> QED BY <2>4
<1>3. PICK T \in SUBSET Nat : IsFiniteSet(T) /\ Cardinality(T) = n /\ T # {} /\ ~HasMax(T)
  BY <1>2
<1>4. PICK x \in T : TRUE
  BY <1>3
<1> DEFINE U == T \ {x}
<1>5. IsFiniteSet(U) /\ Cardinality(U) = n - 1 /\ Cardinality(U) \in Nat
  BY <1>3, <1>4, FS_RemoveElement, FS_CardinalityType
<1>6. U # {}
  <2> SUFFICES ASSUME U = {} PROVE HasMax(T)
    BY <1>3
  <2>1. x \in T /\ x \in Nat /\ \A u \in T : u = x
    BY <1>4
  <2> QED BY <2>1
<1>7. HasMax(U)
  <2>1. n - 1 \notin Bad
    BY <1>2, <1>5
  <2> QED BY <2>1, <1>5, <1>6
<1>8. PICK y \in U : \A u \in U : u <= y
  BY <1>7
<1>9. x \in Nat /\ y \in Nat /\ y \in T /\ \A u \in T : u = x \/ u <= y
  BY <1>4, <1>8
<1>10. CASE x <= y
  BY <1>9, <1>10, <1>3
<1>11. CASE ~(x <= y)
  <2>1. \A u \in T : u \in Nat /\ u <= x
    BY <1>9, <1>11
  <2> QED BY <2>1, <1>4, <1>3
<1> QED BY <1>10, <1>11

\* Latest returns an instant, or null for no instant at all.
LEMMA LatestType == ASSUME NEW S \in SUBSET Nat PROVE Latest(S) \in Nat
<1> DEFINE newest == {t \in S : \A u \in S : u <= t}
<1>1. CASE newest = {}
  BY <1>1 DEF Latest
<1>2. CASE newest # {}
  <2>1. (CHOOSE t \in newest : TRUE) \in newest
    BY <1>2
  <2> QED BY <1>2, <2>1 DEF Latest
<1> QED BY <1>1, <1>2

\* Latest is an upper bound of a finite set of instants.
LEMMA LatestBound ==
  ASSUME NEW S \in SUBSET Nat, IsFiniteSet(S), NEW t \in S
  PROVE  t <= Latest(S)
<1> DEFINE newest == {x \in S : \A u \in S : u <= x}
<1>1. newest # {}
  BY LatestExists
<1>2. (CHOOSE x \in newest : TRUE) \in newest
  BY <1>1
<1> QED BY <1>1, <1>2 DEF Latest

\* The lookback covers every window of the policy.
LEMMA LookbackCovers ==
  /\ Lookback \in Nat
  /\ ChangeWindow <= Lookback /\ RecurrenceWindow <= Lookback
  /\ RecurrentBlock <= Lookback /\ FailureWindow <= Lookback
<1> DEFINE W == {ChangeWindow, RecurrenceWindow, RecurrentBlock}
<1>0. W \in SUBSET Nat
  BY DEF PolicyAssumption
<1>1. IsFiniteSet(W)
  <2>1. IsFiniteSet({ChangeWindow})
    BY FS_Singleton
  <2>2. IsFiniteSet({ChangeWindow} \cup {RecurrenceWindow})
    BY <2>1, FS_AddElement
  <2>3. IsFiniteSet(({ChangeWindow} \cup {RecurrenceWindow}) \cup {RecurrentBlock})
    BY <2>2, FS_AddElement
  <2>4. W = ({ChangeWindow} \cup {RecurrenceWindow}) \cup {RecurrentBlock}
    OBVIOUS
  <2> QED BY <2>3, <2>4
<1>2. \A t \in W : t <= Latest(W)
  BY <1>0, <1>1, LatestBound
<1>3. Latest(W) \in Nat
  BY <1>0, LatestType
<1>4. Lookback = Latest(W)
  BY DEF Lookback
<1>5. FailureWindow \in Nat /\ ChangeWindow \in Nat /\ FailureWindow <= ChangeWindow
  BY DEF PolicyAssumption
<1> QED BY <1>2, <1>3, <1>4, <1>5

\* Assembling facts yields a projection.
LEMMA AssembleType ==
  ASSUME NEW F \in SUBSET Fact, NEW now \in Nat
  PROVE  Assemble(Relevant(F, now), now) \in Projection
<1> DEFINE R == Relevant(F, now)
           ends == {f.until : f \in {b \in OfKind("block", R) : b.until > now}}
           starts == {f.at : f \in {b \in OfKind("block", R) :
                                      Within(b.at, RecurrenceWindow, now) /\ b.at <= now}}
<1>1. R \in SUBSET Fact
  BY DEF Relevant
<1>2. ends \in SUBSET Nat /\ starts \in SUBSET Nat
  BY <1>1 DEF OfKind, Fact
<1>3. Latest(ends) \in Nat /\ Latest(starts) \in Nat
  BY <1>2, LatestType
<1>4. Assemble(R, now).failures \in SUBSET Fact /\ Assemble(R, now).changes \in SUBSET Fact
  BY <1>1 DEF Assemble, OfKind
<1>5. /\ Assemble(R, now).blockedUntil = Latest(ends)
      /\ Assemble(R, now).lastBlock = Latest(starts)
  BY DEF Assemble
<1>6. Assemble(R, now) = [failures |-> Assemble(R, now).failures,
                          changes |-> Assemble(R, now).changes,
                          blockedUntil |-> Assemble(R, now).blockedUntil,
                          lastBlock |-> Assemble(R, now).lastBlock]
  BY DEF Assemble
<1> QED BY <1>3, <1>4, <1>5, <1>6 DEF Projection

\* Reading a projection back yields a projection.
LEMMA LoadedType ==
  ASSUME NEW p \in Projection, NEW now \in Nat
  PROVE  Trim(p, now) \in Projection /\ Loaded(p, now) \in Projection
BY DEF Trim, Loaded, Projection

\* A block that is started has an end.
LEMMA BlockStartedType ==
  ASSUME NEW p \in Projection, NEW t \in Nat
  PROVE  BlockStarted(p, t) \in Nat /\ BlockStarted(p, t) <= t + RecurrentBlock
BY DEF BlockStarted, Projection, PolicyAssumption

-----------------------------------------------------------------------------
(* Types *)

\* Every request and every refresh stays well formed along its own steps.
LEMMA RequestTypes ==
  ASSUME TypeOK, NEW r \in Requests
  PROVE  /\ req[r] \in Request /\ refresh[r] \in Refresh
         /\ Empty \in Projection /\ Done \in Request
         /\ \A x \in Phases, n \in Nat :
              /\ [req[r] EXCEPT !.pc = x] \in Request
              /\ [req[r] EXCEPT !.pc = x, !.now = n] \in Request
              /\ [req[r] EXCEPT !.pc = x, !.base = n] \in Request
         /\ \A p \in Projection :
              /\ [req[r] EXCEPT !.pc = "decided", !.view = p] \in Request
              /\ [req[r] EXCEPT !.pc = "hydrating", !.view = p] \in Request
              /\ [req[r] EXCEPT !.pc = "syncing", !.view = p] \in Request
         /\ Assemble(Relevant(facts, req[r].now), req[r].now) \in Projection
         /\ Assemble(Relevant(facts, clock), clock) \in Projection
<1>1. req[r] \in Request /\ refresh[r] \in Refresh /\ req[r].now \in Nat
  BY DEF TypeOK, Request
<1>2. Empty \in Projection
  BY DEF Empty, Projection
<1>3. Done \in Request
  BY <1>2 DEF Done, Idle, Request, Phases
<1>4. \A p \in Projection :
        /\ [req[r] EXCEPT !.pc = "decided", !.view = p] \in Request
        /\ [req[r] EXCEPT !.pc = "hydrating", !.view = p] \in Request
        /\ [req[r] EXCEPT !.pc = "syncing", !.view = p] \in Request
  BY <1>1 DEF Request, Phases
<1>5. facts \in SUBSET Fact /\ clock \in Nat
  BY DEF TypeOK
<1>6. \A x \in Phases, n \in Nat :
        /\ [req[r] EXCEPT !.pc = x] \in Request
        /\ [req[r] EXCEPT !.pc = x, !.now = n] \in Request
        /\ [req[r] EXCEPT !.pc = x, !.base = n] \in Request
  BY <1>1 DEF Request
<1> QED BY <1>1, <1>2, <1>3, <1>4, <1>5, <1>6, AssembleType

\* The facts a transaction commits are facts.
LEMMA NewFactsType ==
  ASSUME TypeOK, NEW r \in Requests
  PROVE  Fail(r) \in Fact /\ Change(r) \in Fact /\ Block(r) \in Fact
<1>1. req[r].now \in Nat /\ req[r].view \in Projection
  BY DEF TypeOK, Request
<1>2. BlockStarted(req[r].view, req[r].now) \in Nat
  BY <1>1, BlockStartedType
<1> QED BY <1>1, <1>2 DEF Fail, Change, Block, Fact, Kinds

LEMMA TypeInit == Init => TypeOK
<1> SUFFICES ASSUME Init PROVE TypeOK
  OBVIOUS
<1>1. Empty \in Projection
  BY DEF Empty, Projection
<1>2. Idle \in Request
  BY <1>1 DEF Idle, Request, Phases
<1>3. [st |-> "none", view |-> Empty] \in Refresh
  BY <1>1 DEF Refresh
<1>4. facts \in SUBSET Fact
  BY HistoriesAssumption DEF Init
<1> QED BY <1>1, <1>2, <1>3, <1>4 DEF Init, TypeOK, ClockAssumption

LEMMA TypeStep == TypeOK /\ [Next]_vars => TypeOK'
<1> SUFFICES ASSUME TypeOK, [Next]_vars PROVE TypeOK'
  OBVIOUS
<1> USE DEF cache, durable
<1>1. ASSUME NEW r \in Requests, Arrive(r) PROVE TypeOK'
  BY <1>1, RequestTypes DEF TypeOK, Arrive, Phases
<1>2. ASSUME NEW r \in Requests, Load(r) PROVE TypeOK'
  <2>1. CASE LoadPending(r)
    BY <2>1, RequestTypes DEF TypeOK, LoadPending
  <2>2. CASE LoadReady(r)
    <3>1. Trim(redis, req[r].now) \in Projection /\ Loaded(redis, req[r].now) \in Projection
      BY LoadedType DEF TypeOK, Request
    <3> QED BY <2>2, <3>1, RequestTypes DEF TypeOK, LoadReady, Decide
  <2>3. CASE LoadMissing(r)
    BY <2>3, RequestTypes DEF TypeOK, LoadMissing, Phases
  <2> QED BY <1>2, <2>1, <2>2, <2>3 DEF Load
<1>3. ASSUME NEW r \in Requests, Hydrate(r) PROVE TypeOK'
  <2>1. CASE HydrateRead(r)
    BY <2>1, RequestTypes DEF TypeOK, HydrateRead
  <2>2. CASE HydrateWrite(r)
    <3>1. req[r].view \in Projection
      BY DEF TypeOK, Request
    <3> QED BY <2>2, <3>1, RequestTypes DEF TypeOK, HydrateWrite, Replace, Decide
  <2> QED BY <1>3, <2>1, <2>2 DEF Hydrate
<1>4. ASSUME NEW r \in Requests, Answer(r) \/ Begin(r) \/ BeginRefused(r)
      PROVE TypeOK'
  <2>1. CASE Answer(r) \/ BeginRefused(r)
    BY <2>1, RequestTypes DEF TypeOK, Answer, BeginRefused
  <2>2. CASE Begin(r)
    <3>1. initialized' \in BOOLEAN
      BY <2>2 DEF Begin
    <3>2. req' \in [Requests -> Request]
      BY <2>2, RequestTypes DEF TypeOK, Begin, Phases
    <3> QED BY <2>2, <3>1, <3>2 DEF TypeOK, Begin
  <2> QED BY <1>4, <2>1, <2>2
<1>5. ASSUME NEW r \in Requests, Transact(r) PROVE TypeOK'
  <2>1. CASE LockRow(r)
    BY <2>1, RequestTypes DEF TypeOK, LockRow, Phases
  <2>2. ASSUME NEW F \in SUBSET Fact, Commit(r, F), version' \in Nat PROVE TypeOK'
    <3>1. req' \in [Requests -> Request]
      BY <2>2, RequestTypes DEF TypeOK, Commit, Phases
    <3>2. refresh' \in [Requests -> Refresh]
      BY <2>2 DEF TypeOK, Commit, Refresh
    <3> QED BY <2>2, <3>1, <3>2 DEF TypeOK, Commit
  <2>3. CASE CommitFailure(r)
    BY <2>2, <2>3, NewFactsType DEF CommitFailure, TypeOK
  <2>4. CASE CommitChange(r)
    <3>1. req[r].base + 1 \in Nat
      BY DEF TypeOK, Request
    <3> QED BY <2>2, <2>4, <3>1, NewFactsType DEF CommitChange
  <2>5. CASE Rollback(r)
    BY <2>5, RequestTypes DEF TypeOK, Rollback, Phases
  <2> QED BY <1>5, <2>1, <2>3, <2>4, <2>5 DEF Transact
<1>6. ASSUME NEW r \in Requests, Synchronize(r) PROVE TypeOK'
  <2>1. CASE SyncRead(r)
    BY <2>1, RequestTypes DEF TypeOK, SyncRead
  <2>2. CASE SyncWrite(r)
    <3>1. req[r].view \in Projection
      BY DEF TypeOK, Request
    <3> QED BY <2>2, <3>1, RequestTypes DEF TypeOK, SyncWrite, Replace
  <2> QED BY <1>6, <2>1, <2>2 DEF Synchronize
<1>7. ASSUME NEW r \in Requests, GiveUp(r) PROVE TypeOK'
  BY <1>7, RequestTypes DEF TypeOK, GiveUp
<1>8. ASSUME NEW r \in Requests, Deliver(r) PROVE TypeOK'
  <2>1. CASE RefreshRead(r)
    BY <2>1, RequestTypes DEF TypeOK, RefreshRead, Refresh
  <2>2. CASE RefreshWrite(r)
    <3>1. refresh[r].view \in Projection
      BY DEF TypeOK, Refresh
    <3>2. refresh' \in [Requests -> Refresh]
      <4>1. PICK st \in {"applied", "queued"} :
              refresh' = [refresh EXCEPT ![r] = [st |-> st, view |-> Empty]]
        BY <2>2 DEF RefreshWrite
      <4>2. [st |-> st, view |-> Empty] \in Refresh
        BY RequestTypes DEF Refresh
      <4> QED BY <4>1, <4>2 DEF TypeOK
    <3>3. initialized' \in BOOLEAN
      BY <2>2 DEF RefreshWrite, Replace
    <3> QED BY <2>2, <3>1, <3>2, <3>3 DEF TypeOK, RefreshWrite, Replace
  <2>3. CASE RefreshFails(r)
    BY <2>3, RequestTypes DEF TypeOK, RefreshFails, Refresh
  <2> QED BY <1>8, <2>1, <2>2, <2>3 DEF Deliver
<1>9. ASSUME NEW r \in Requests, RefreshAbandoned(r) PROVE TypeOK'
  BY <1>9, RequestTypes DEF TypeOK, RefreshAbandoned, Refresh
<1>10. CASE PendingExpires \/ InitializedExpires \/ Tick
  <2>1. CASE PendingExpires
    BY <2>1 DEF TypeOK, PendingExpires
  <2>2. CASE InitializedExpires
    <3>1. initialized' \in BOOLEAN
      BY <2>2 DEF InitializedExpires
    <3> QED BY <2>2, <3>1 DEF TypeOK, InitializedExpires
  <2>3. CASE Tick
    BY <2>3 DEF TypeOK, Tick
  <2> QED BY <1>10, <2>1, <2>2, <2>3
<1>11. CASE UNCHANGED vars
  BY <1>11 DEF TypeOK, vars
<1> QED BY <1>1, <1>2, <1>3, <1>4, <1>5, <1>6, <1>7, <1>8, <1>9, <1>10, <1>11 DEF Next


-----------------------------------------------------------------------------
(* The inductive invariant *)

AfterTx(r) == req[r].pc \in {"finishing", "syncing", "done"}

\* A refresh was requested only by a transaction that is over.
RefreshAfterTx == \A r \in Requests : refresh[r].st # "none" => AfterTx(r)

\* So was every fact that is not history.
FactsAfterTx == \A f \in facts : f.by \in Requests => AfterTx(f.by)

\* Whoever works in a transaction holds the row, which nobody changed since.
LockedIsHolder ==
  \A r \in Requests : req[r].pc = "locked" => rowLock = r /\ req[r].base = version

\* Nothing known bears an instant of the future, and a request that is still
\* synchronizing reads as of the instant of its own facts.
InstantsPast ==
  /\ \A r \in Requests : req[r].now <= clock
  /\ \A f \in facts : /\ f.at <= clock /\ f.until <= f.at + RecurrentBlock
                      /\ f.by \in Requests /\ req[f.by].pc \in {"finishing", "syncing"}
                           => f.at = req[f.by].now

\* A projection about to be written with the token of r shows the facts of r.
ViewShows(r) ==
  /\ req[r].pc = "syncing" => Shows(req[r].view, r, clock)
  /\ refresh[r].st = "reading" => Shows(refresh[r].view, r, clock)

ViewsShow == \A r \in Requests : ViewShows(r)

IInv ==
  /\ TypeOK /\ BarrierHolds /\ RefreshAfterTx /\ FactsAfterTx /\ LockedIsHolder
  /\ IsFiniteSet(facts) /\ VersionCountsChanges /\ InstantsPast /\ ViewsShow

\* The steps of a request before it begins its mutation.
Prepares(r) ==
  Arrive(r) \/ Load(r) \/ Hydrate(r) \/ Answer(r) \/ BeginRefused(r)

Preparing == {"idle", "loading", "missing", "hydrating", "decided"}

\* They touch nothing durable and leave the barrier alone.
LEMMA PrepareFacts ==
  ASSUME TypeOK, NEW r \in Requests, Prepares(r)
  PROVE  /\ UNCHANGED <<clock, facts, version, rowLock, refresh, pending, lapsed>>
         /\ req[r].pc \in Preparing
         /\ \E q \in Request :
              /\ req' = [req EXCEPT ![r] = q]
              /\ q.pc \in (Preparing \ {"idle"}) \cup {"done"}
              /\ q.now \in {0, clock, req[r].now}
<1> USE DEF cache, durable, Preparing
<1>0. Done.pc = "done" /\ Done.now = 0
  BY DEF Done, Idle
<1>1. CASE Arrive(r)
  <2> DEFINE q == [req[r] EXCEPT !.pc = "loading", !.now = clock]
  <2>1. q \in Request /\ q.pc = "loading" /\ q.now = clock
    <3>1. clock \in Nat /\ "loading" \in Phases /\ req[r] \in Request
      BY DEF TypeOK, Phases
    <3>2. q \in Request
      BY <3>1, RequestTypes
    <3> QED BY <3>1, <3>2 DEF Request
  <2>2. req' = [req EXCEPT ![r] = q]
    BY <1>1 DEF Arrive
  <2> QED BY <1>1, <2>1, <2>2 DEF Arrive
<1>2. CASE LoadPending(r) \/ Answer(r) \/ BeginRefused(r)
  BY <1>0, <1>2, RequestTypes DEF LoadPending, Answer, BeginRefused
<1>3. ASSUME NEW p \in Projection, Decide(r, p)
      PROVE \E q \in Request : /\ req' = [req EXCEPT ![r] = q]
                               /\ q.pc \in {"decided", "done"}
                               /\ q.now \in {0, req[r].now}
  <2> DEFINE q == [req[r] EXCEPT !.pc = "decided", !.view = p]
  <2>1. q \in Request /\ q.pc = "decided" /\ q.now = req[r].now
    BY RequestTypes DEF Request
  <2>2. CASE Allowed(p, req[r].now)
    <3>1. req' = [req EXCEPT ![r] = q]
      BY <1>3, <2>2 DEF Decide
    <3> QED BY <2>1, <3>1
  <2>3. CASE ~Allowed(p, req[r].now)
    <3>1. req' = [req EXCEPT ![r] = Done]
      BY <1>3, <2>3 DEF Decide
    <3> QED BY <1>0, <3>1, RequestTypes
  <2> QED BY <2>2, <2>3
<1>4. CASE LoadReady(r)
  <2>1. Loaded(redis, req[r].now) \in Projection
    BY LoadedType DEF TypeOK, Request
  <2> QED BY <1>3, <1>4, <2>1 DEF LoadReady
<1>5. CASE LoadMissing(r)
  <2> DEFINE q == [req[r] EXCEPT !.pc = "missing"]
  <2>1. q \in Request /\ q.pc = "missing" /\ q.now = req[r].now
    <3>1. "missing" \in Phases /\ req[r] \in Request /\ req[r].now \in Nat
      BY DEF TypeOK, Phases, Request
    <3>2. q \in Request
      BY <3>1, RequestTypes
    <3> QED BY <3>1, <3>2 DEF Request
  <2>2. req' = [req EXCEPT ![r] = q]
    BY <1>5 DEF LoadMissing
  <2> QED BY <1>5, <2>1, <2>2 DEF LoadMissing
<1>6. CASE HydrateRead(r)
  <2> DEFINE p == Assemble(Relevant(facts, req[r].now), req[r].now)
             q == [req[r] EXCEPT !.pc = "hydrating", !.view = p]
  <2>1. p \in Projection
    BY RequestTypes
  <2> HIDE DEF p
  <2>2. q \in Request /\ q.pc = "hydrating" /\ q.now = req[r].now
    BY <2>1, RequestTypes DEF Request
  <2>3. req' = [req EXCEPT ![r] = q]
    BY <1>6 DEF HydrateRead, p
  <2> QED BY <1>6, <2>2, <2>3 DEF HydrateRead
<1>7. CASE HydrateWrite(r)
  <2>1. req[r].view \in Projection
    BY DEF TypeOK, Request
  <2> QED BY <1>3, <1>7, <2>1 DEF HydrateWrite, Replace
<1> QED BY <1>1, <1>2, <1>4, <1>5, <1>6, <1>7 DEF Prepares, Load, Hydrate

-----------------------------------------------------------------------------
(* The invariant is inductive *)

\* A step is one of these.
LEMMA StepCases ==
  ASSUME [Next]_vars
  PROVE  \/ \E r \in Requests :
              \/ Prepares(r) \/ Begin(r) \/ LockRow(r) \/ CommitFailure(r)
              \/ CommitChange(r) \/ Rollback(r) \/ SyncRead(r) \/ SyncWrite(r)
              \/ GiveUp(r) \/ RefreshRead(r) \/ RefreshWrite(r)
              \/ RefreshFails(r) \/ RefreshAbandoned(r)
         \/ PendingExpires \/ InitializedExpires \/ Tick \/ UNCHANGED vars
BY DEF Next, Prepares, Transact, Synchronize, Deliver

\* The barrier of a mutation survives every step but its own end and its TTL.
LEMMA BarrierStep == IInv /\ [Next]_vars => BarrierHolds' /\ RefreshAfterTx'
<1> SUFFICES ASSUME IInv, [Next]_vars PROVE BarrierHolds' /\ RefreshAfterTx'
  OBVIOUS
<1> USE DEF BarrierHolds, RefreshAfterTx, Mutating, AfterTx, cache, durable
<1>0. /\ TypeOK /\ BarrierHolds /\ RefreshAfterTx
      /\ req \in [Requests -> Request] /\ refresh \in [Requests -> Refresh]
      /\ pending \in Requests \cup {NoRequest} /\ lapsed \in SUBSET Requests
      /\ Done.pc = "done"
  BY DEF IInv, TypeOK, Done, Idle
<1>1. ASSUME NEW r \in Requests, Prepares(r) PROVE BarrierHolds' /\ RefreshAfterTx'
  BY <1>0, <1>1, PrepareFacts DEF Preparing
<1>2. ASSUME NEW r \in Requests, Begin(r) PROVE BarrierHolds' /\ RefreshAfterTx'
  BY <1>0, <1>2 DEF Begin, Request
<1>3. ASSUME NEW r \in Requests, LockRow(r) \/ Rollback(r)
      PROVE BarrierHolds' /\ RefreshAfterTx'
  BY <1>0, <1>3 DEF LockRow, Rollback, Request
<1>4. ASSUME NEW r \in Requests, CommitFailure(r) \/ CommitChange(r)
      PROVE BarrierHolds' /\ RefreshAfterTx'
  <2>1. PICK F : Commit(r, F)
    BY <1>4 DEF CommitFailure, CommitChange
  <2>2. req[r].pc = "locked" /\ UNCHANGED <<pending, lapsed>>
    BY <1>4, <2>1 DEF CommitFailure, CommitChange, Commit
  <2>3. \A s \in Requests : req'[s].pc = IF s = r THEN "finishing" ELSE req[s].pc
    BY <1>0, <2>1 DEF Commit, Request
  <2>4. \A s \in Requests : s # r => refresh'[s] = refresh[s]
    BY <1>0, <2>1 DEF Commit
  <2> QED BY <1>0, <2>2, <2>3, <2>4
<1>5. ASSUME NEW r \in Requests, SyncRead(r) \/ GiveUp(r)
      PROVE BarrierHolds' /\ RefreshAfterTx'
  BY <1>0, <1>5 DEF SyncRead, GiveUp, Request
<1>6. ASSUME NEW r \in Requests, SyncWrite(r) PROVE BarrierHolds' /\ RefreshAfterTx'
  BY <1>0, <1>6 DEF SyncWrite, Replace, Request
<1>7. ASSUME NEW r \in Requests, RefreshRead(r) \/ RefreshFails(r) \/ RefreshAbandoned(r)
      PROVE BarrierHolds' /\ RefreshAfterTx'
  BY <1>0, <1>7 DEF RefreshRead, RefreshFails, RefreshAbandoned, Refresh
<1>8. ASSUME NEW r \in Requests, RefreshWrite(r) PROVE BarrierHolds' /\ RefreshAfterTx'
  BY <1>0, <1>8 DEF RefreshWrite, Replace, Refresh
<1>9. CASE PendingExpires \/ InitializedExpires \/ Tick \/ UNCHANGED vars
  BY <1>0, <1>9 DEF PendingExpires, InitializedExpires, Tick, vars
<1> QED BY <1>1, <1>2, <1>3, <1>4, <1>5, <1>6, <1>7, <1>8, <1>9, StepCases

\* The facts of a transaction bear the name and the instant of its request.
LEMMA NewFacts ==
  ASSUME TypeOK, NEW r \in Requests
  PROVE  \A f \in {Fail(r), Change(r), Block(r)} :
           /\ f.by = r /\ f.at = req[r].now /\ f.until <= f.at + RecurrentBlock
<1>1. req[r].now \in Nat /\ req[r].view \in Projection
  BY DEF TypeOK, Request
<1>2. BlockStarted(req[r].view, req[r].now) <= req[r].now + RecurrentBlock
  BY <1>1, BlockStartedType
<1>3. RecurrentBlock \in Nat
  BY DEF PolicyAssumption
<1>4. /\ Fail(r).by = r /\ Fail(r).at = req[r].now /\ Fail(r).until = 0
      /\ Change(r).by = r /\ Change(r).at = req[r].now /\ Change(r).until = 0
      /\ Block(r).by = r /\ Block(r).at = req[r].now
      /\ Block(r).until = BlockStarted(req[r].view, req[r].now)
  BY DEF Fail, Change, Block
<1> QED BY <1>1, <1>2, <1>3, <1>4

\* A commit of r adds some of the facts of r.
LEMMA CommitAdds ==
  ASSUME TypeOK, NEW r \in Requests, CommitFailure(r) \/ CommitChange(r)
  PROVE  \E F \in SUBSET {Fail(r), Change(r), Block(r)} :
           IsFiniteSet(F) /\ Commit(r, F)
<1>1. /\ IsFiniteSet({Fail(r)}) /\ IsFiniteSet({Change(r)})
      /\ IsFiniteSet({Fail(r)} \cup {Block(r)})
  BY FS_Singleton, FS_AddElement
<1>2. {Fail(r), Block(r)} = {Fail(r)} \cup {Block(r)}
  OBVIOUS
<1>3. CASE CommitChange(r)
  BY <1>1, <1>3 DEF CommitChange
<1>4. CASE CommitFailure(r) /\ Block(r).until = 0
  BY <1>1, <1>4 DEF CommitFailure
<1>5. CASE CommitFailure(r) /\ Block(r).until # 0
  BY <1>1, <1>2, <1>5 DEF CommitFailure
<1> QED BY <1>3, <1>4, <1>5

\* A step other than a commit leaves the facts alone, and nobody returns from
\* the end of its transaction.
LEMMA FactsStep == IInv /\ [Next]_vars => FactsAfterTx' /\ IsFiniteSet(facts)'
<1> SUFFICES ASSUME IInv, [Next]_vars PROVE FactsAfterTx' /\ IsFiniteSet(facts')
  OBVIOUS
<1> USE DEF FactsAfterTx, AfterTx, cache, durable
<1>0. /\ TypeOK /\ FactsAfterTx /\ IsFiniteSet(facts)
      /\ req \in [Requests -> Request] /\ Done.pc = "done"
  BY DEF IInv, TypeOK, Done, Idle
<1>1. ASSUME NEW r \in Requests, Prepares(r) PROVE FactsAfterTx' /\ IsFiniteSet(facts')
  BY <1>0, <1>1, PrepareFacts DEF Preparing
<1>2. ASSUME NEW r \in Requests, Begin(r) \/ LockRow(r) \/ Rollback(r)
      PROVE FactsAfterTx' /\ IsFiniteSet(facts')
  BY <1>0, <1>2 DEF Begin, LockRow, Rollback, Request
<1>3. ASSUME NEW r \in Requests, CommitFailure(r) \/ CommitChange(r)
      PROVE FactsAfterTx' /\ IsFiniteSet(facts')
  <2>1. PICK F \in SUBSET {Fail(r), Change(r), Block(r)} : IsFiniteSet(F) /\ Commit(r, F)
    BY <1>0, <1>3, CommitAdds
  <2>2. facts' = facts \cup F /\ \A f \in F : f.by = r
    BY <1>0, <2>1, NewFacts DEF Commit
  <2>3. \A s \in Requests : req'[s].pc = IF s = r THEN "finishing" ELSE req[s].pc
    BY <1>0, <2>1 DEF Commit, Request
  <2>4. IsFiniteSet(facts')
    BY <1>0, <2>1, <2>2, FS_Union
  <2> QED BY <1>0, <2>2, <2>3, <2>4
<1>4. ASSUME NEW r \in Requests, SyncRead(r) \/ SyncWrite(r) \/ GiveUp(r)
      PROVE FactsAfterTx' /\ IsFiniteSet(facts')
  BY <1>0, <1>4 DEF SyncRead, SyncWrite, GiveUp, Request
<1>5. ASSUME NEW r \in Requests,
             RefreshRead(r) \/ RefreshWrite(r) \/ RefreshFails(r) \/ RefreshAbandoned(r)
      PROVE FactsAfterTx' /\ IsFiniteSet(facts')
  BY <1>0, <1>5 DEF RefreshRead, RefreshWrite, RefreshFails, RefreshAbandoned
<1>6. CASE PendingExpires \/ InitializedExpires \/ Tick \/ UNCHANGED vars
  BY <1>0, <1>6 DEF PendingExpires, InitializedExpires, Tick, vars
<1> QED BY <1>1, <1>2, <1>3, <1>4, <1>5, <1>6, StepCases

\* The changes that requests committed.
Changes == {f \in facts : f.kind = "change" /\ f.by \in Requests}

\* Only the holder of the row moves the version, by the change it records.
LEMMA VersionStep == IInv /\ [Next]_vars => LockedIsHolder' /\ VersionCountsChanges'
<1> SUFFICES ASSUME IInv, [Next]_vars PROVE LockedIsHolder' /\ VersionCountsChanges'
  OBVIOUS
<1> USE DEF LockedIsHolder, cache, durable
<1>0. /\ TypeOK /\ LockedIsHolder /\ VersionCountsChanges /\ FactsAfterTx
      /\ IsFiniteSet(facts) /\ facts \in SUBSET Fact
      /\ req \in [Requests -> Request] /\ Done.pc = "done"
  BY DEF IInv, TypeOK, Done, Idle
<1>c. ASSUME UNCHANGED <<facts, version>> PROVE VersionCountsChanges'
  BY <1>0, <1>c DEF VersionCountsChanges
<1>1. ASSUME NEW r \in Requests, Prepares(r)
      PROVE LockedIsHolder' /\ VersionCountsChanges'
  BY <1>0, <1>1, <1>c, PrepareFacts DEF Preparing
<1>2. ASSUME NEW r \in Requests, Begin(r) \/ LockRow(r) \/ Rollback(r)
      PROVE LockedIsHolder' /\ VersionCountsChanges'
  BY <1>0, <1>2, <1>c DEF Begin, LockRow, Rollback, Request
<1>3. ASSUME NEW r \in Requests, NEW F, Commit(r, F), req[r].pc = "locked"
      PROVE /\ LockedIsHolder' /\ version = req[r].base
            /\ facts' = facts \cup F
            /\ \A f \in facts : f.by # r
  <2>1. \A s \in Requests : s # r => req[s].pc # "locked"
    BY <1>0, <1>3
  <2>2. \A s \in Requests : req'[s].pc # "locked"
    BY <1>0, <1>3, <2>1 DEF Commit, Request
  <2> QED BY <1>0, <1>3, <2>2 DEF Commit, FactsAfterTx, AfterTx
<1>4. ASSUME NEW r \in Requests, CommitFailure(r)
      PROVE LockedIsHolder' /\ VersionCountsChanges'
  <2>1. PICK F \in SUBSET {Fail(r), Block(r)} : Commit(r, F)
    BY <1>4 DEF CommitFailure
  <2>2. \A f \in F : f.kind # "change"
    <3>1. Fail(r).kind = "failure" /\ Block(r).kind = "block"
      BY DEF Fail, Block
    <3> QED BY <2>1, <3>1
  <2>3. facts' = facts \cup F /\ version' = version /\ LockedIsHolder'
    BY <1>3, <1>4, <2>1 DEF CommitFailure
  <2>4. Changes' = Changes
    BY <2>2, <2>3 DEF Changes
  <2> QED BY <1>0, <2>3, <2>4 DEF VersionCountsChanges, Changes
<1>5. ASSUME NEW r \in Requests, CommitChange(r)
      PROVE LockedIsHolder' /\ VersionCountsChanges'
  <2>1. /\ facts' = facts \cup {Change(r)} /\ version' = version + 1 /\ LockedIsHolder'
        /\ \A f \in facts : f.by # r
    BY <1>3, <1>5 DEF CommitChange
  <2>2. Change(r).kind = "change" /\ Change(r).by = r
    BY DEF Change, Fail
  <2>3. Changes' = Changes \cup {Change(r)} /\ Change(r) \notin Changes
    BY <2>1, <2>2 DEF Changes
  <2>4. IsFiniteSet(Changes)
    BY <1>0, FS_Subset DEF Changes
  <2>5. Cardinality(Changes') = Cardinality(Changes) + 1
    BY <2>3, <2>4, FS_AddElement
  <2> QED BY <1>0, <2>1, <2>5 DEF VersionCountsChanges, Changes
<1>6. ASSUME NEW r \in Requests, SyncRead(r) \/ SyncWrite(r) \/ GiveUp(r)
      PROVE LockedIsHolder' /\ VersionCountsChanges'
  BY <1>0, <1>6, <1>c DEF SyncRead, SyncWrite, GiveUp, Request
<1>7. ASSUME NEW r \in Requests,
             RefreshRead(r) \/ RefreshWrite(r) \/ RefreshFails(r) \/ RefreshAbandoned(r)
      PROVE LockedIsHolder' /\ VersionCountsChanges'
  BY <1>0, <1>7, <1>c DEF RefreshRead, RefreshWrite, RefreshFails, RefreshAbandoned
<1>8. CASE PendingExpires \/ InitializedExpires \/ Tick \/ UNCHANGED vars
  BY <1>0, <1>8, <1>c DEF PendingExpires, InitializedExpires, Tick, vars
<1> QED BY <1>1, <1>2, <1>4, <1>5, <1>6, <1>7, <1>8, StepCases

\* A projection goes on showing the facts of a request as time passes.
LEMMA ShowsLater ==
  ASSUME TypeOK, NEW p, NEW r \in Requests, NEW t \in Nat, NEW u \in Nat, t <= u,
         Shows(p, r, t)
  PROVE  Shows(p, r, u)
<1>1. ASSUME NEW f \in facts PROVE f.at \in Nat /\ f.until \in Nat
  BY DEF TypeOK, Fact
<1>2. FailureWindow \in Nat /\ ChangeWindow \in Nat
  BY DEF PolicyAssumption
<1> QED BY <1>1, <1>2 DEF Shows, Within

\* What is assembled as of an instant no later than t shows, at t, every fact
\* that had occurred by then: no window is longer than the lookback.
LEMMA AssembledShows ==
  ASSUME TypeOK, IsFiniteSet(facts), InstantsPast,
         NEW r \in Requests, NEW now \in Nat, NEW t \in Nat, now <= t,
         \A f \in facts : f.by = r => f.at <= now
  PROVE  Shows(Assemble(Relevant(facts, now), now), r, t)
<1> DEFINE p == Assemble(Relevant(facts, now), now)
           active == {b \in OfKind("block", Relevant(facts, now)) : b.until > now}
           ends == {f.until : f \in active}
<1>0. /\ FailureWindow \in Nat /\ ChangeWindow \in Nat /\ RecurrentBlock \in Nat
      /\ Lookback \in Nat /\ ChangeWindow <= Lookback
      /\ FailureWindow <= Lookback /\ RecurrentBlock <= Lookback
  BY LookbackCovers DEF PolicyAssumption
<1>1. SUFFICES ASSUME NEW f \in facts, f.by = r
      PROVE /\ f.kind = "failure" /\ Within(f.at, FailureWindow, t) => f \in p.failures
            /\ f.kind = "change" /\ Within(f.at, ChangeWindow, t) => f \in p.changes
            /\ f.kind = "block" => p.blockedUntil >= f.until \/ f.until <= t
  BY DEF Shows
<1>2. f.at \in Nat /\ f.until \in Nat /\ f.at <= now /\ f.until <= f.at + RecurrentBlock
  BY <1>1 DEF TypeOK, Fact, InstantsPast
<1>3. ASSUME f.kind = "failure", Within(f.at, FailureWindow, t) PROVE f \in p.failures
  BY <1>0, <1>1, <1>2, <1>3 DEF Assemble, Relevant, OfKind, Within
<1>4. ASSUME f.kind = "change", Within(f.at, ChangeWindow, t) PROVE f \in p.changes
  BY <1>0, <1>1, <1>2, <1>4 DEF Assemble, Relevant, OfKind, Within
<1>5. ASSUME f.kind = "block", ~(f.until <= t) PROVE p.blockedUntil >= f.until
  <2>1. f \in active
    BY <1>0, <1>1, <1>2, <1>5 DEF Relevant, OfKind
  <2>2. IsFiniteSet(ends)
    <3>1. IsFiniteSet(active)
      BY FS_Subset DEF Relevant, OfKind
    <3>2. [b \in active |-> b.until] \in Surjection(active, ends)
      BY DEF Surjection
    <3> QED BY <3>1, <3>2, FS_Surjection
  <2>3. ends \in SUBSET Nat /\ f.until \in ends
    BY <2>1 DEF Relevant, OfKind, TypeOK, Fact
  <2>4. f.until <= Latest(ends) /\ Latest(ends) \in Nat
    BY <2>2, <2>3, LatestBound, LatestType
  <2>5. p.blockedUntil = Latest(ends)
    BY DEF Assemble
  <2> QED BY <1>2, <2>4, <2>5
<1> QED BY <1>3, <1>4, <1>5

\* No step reaches into the future or back into a finished transaction.
LEMMA InstantsStep == IInv /\ [Next]_vars => InstantsPast'
<1> SUFFICES ASSUME IInv, [Next]_vars PROVE InstantsPast'
  OBVIOUS
<1> USE DEF InstantsPast, cache, durable
<1>0. /\ TypeOK /\ InstantsPast /\ FactsAfterTx
      /\ req \in [Requests -> Request] /\ Done.pc = "done" /\ Done.now = 0
      /\ clock \in Nat
      /\ \A f \in facts : f.at \in Nat /\ f.until \in Nat
      /\ \A r \in Requests : req[r].now \in Nat
  BY DEF IInv, TypeOK, Done, Idle, Fact, Request
<1>1. ASSUME NEW r \in Requests, Prepares(r) PROVE InstantsPast'
  BY <1>0, <1>1, PrepareFacts DEF Preparing, Request
<1>2. ASSUME NEW r \in Requests, Begin(r) \/ LockRow(r) PROVE InstantsPast'
  BY <1>0, <1>2 DEF Begin, LockRow, Request
<1>3. ASSUME NEW r \in Requests, Rollback(r) PROVE InstantsPast'
  <2>1. \A f \in facts : f.by # r
    BY <1>0, <1>3 DEF Rollback, FactsAfterTx, AfterTx
  <2>2. \A s \in Requests : /\ req'[s].now = req[s].now
                            /\ s # r => req'[s].pc = req[s].pc
    BY <1>0, <1>3 DEF Rollback, Request
  <2> QED BY <1>0, <1>3, <2>1, <2>2 DEF Rollback
<1>4. ASSUME NEW r \in Requests, CommitFailure(r) \/ CommitChange(r) PROVE InstantsPast'
  <2>1. PICK F \in SUBSET {Fail(r), Change(r), Block(r)} : IsFiniteSet(F) /\ Commit(r, F)
    BY <1>0, <1>4, CommitAdds
  <2>2. /\ facts' = facts \cup F /\ clock' = clock
        /\ \A f \in F : f.by = r /\ f.at = req[r].now /\ f.until <= f.at + RecurrentBlock
    BY <1>0, <2>1, NewFacts DEF Commit
  <2>3. \A s \in Requests : /\ req'[s].now = req[s].now
                            /\ s # r => req'[s].pc = req[s].pc
    BY <1>0, <2>1 DEF Commit, Request
  <2>4. \A f \in facts : f.by # r
    BY <1>0, <1>4 DEF CommitFailure, CommitChange, FactsAfterTx, AfterTx
  <2> QED BY <1>0, <2>2, <2>3, <2>4
<1>5. ASSUME NEW r \in Requests, SyncRead(r) \/ SyncWrite(r) \/ GiveUp(r)
      PROVE InstantsPast'
  BY <1>0, <1>5 DEF SyncRead, SyncWrite, GiveUp, Request
<1>6. ASSUME NEW r \in Requests,
             RefreshRead(r) \/ RefreshWrite(r) \/ RefreshFails(r) \/ RefreshAbandoned(r)
      PROVE InstantsPast'
  BY <1>0, <1>6 DEF RefreshRead, RefreshWrite, RefreshFails, RefreshAbandoned
<1>7. CASE PendingExpires \/ InitializedExpires \/ Tick \/ UNCHANGED vars
  BY <1>0, <1>7 DEF PendingExpires, InitializedExpires, Tick, vars
<1> QED BY <1>1, <1>2, <1>3, <1>4, <1>5, <1>6, <1>7, StepCases

\* Steps that add no fact of r and keep the view of r keep it showing them.
LEMMA ShowsKept ==
  ASSUME TypeOK, NEW p, NEW r \in Requests, Shows(p, r, clock),
         clock' \in Nat, clock <= clock', {f \in facts' : f.by = r} \subseteq facts
  PROVE  Shows(p, r, clock)'
<1>1. Shows(p, r, clock')
  BY ShowsLater DEF TypeOK
<1> QED BY <1>1 DEF Shows

\* What is about to be written keeps showing the facts of its request.
LEMMA ViewsStep == IInv /\ [Next]_vars => ViewsShow'
<1> SUFFICES ASSUME IInv, [Next]_vars PROVE ViewsShow'
  OBVIOUS
<1> USE DEF cache, durable
<1>0. /\ TypeOK /\ ViewsShow /\ InstantsPast /\ RefreshAfterTx /\ FactsAfterTx
      /\ IsFiniteSet(facts) /\ clock \in Nat
      /\ req \in [Requests -> Request] /\ refresh \in [Requests -> Refresh]
      /\ Done.pc = "done"
  BY DEF IInv, TypeOK, Done, Idle
\* A request whose writes in preparation and whose facts the step leaves alone.
<1>k. ASSUME clock' \in Nat, clock <= clock', NEW s \in Requests,
             {f \in facts' : f.by = s} \subseteq facts,
             req'[s].pc = "syncing" => req'[s] = req[s],
             refresh'[s].st = "reading" => refresh'[s] = refresh[s]
      PROVE ViewShows(s)'
  <2>1. ASSUME NEW p, Shows(p, s, clock) PROVE Shows(p, s, clock)'
    BY <1>0, <1>k, <2>1, ShowsKept
  <2>2. ViewShows(s)
    BY <1>0 DEF ViewsShow
  <2>3. CASE req'[s].pc = "syncing"
    <3>1. Shows(req[s].view, s, clock)'
      BY <1>k, <2>1, <2>2, <2>3 DEF ViewShows
    <3> QED BY <1>k, <2>1, <2>2, <2>3, <3>1 DEF ViewShows
  <2>4. CASE req'[s].pc # "syncing"
    BY <1>k, <2>1, <2>2, <2>4 DEF ViewShows
  <2> QED BY <2>3, <2>4
\* A step of r that moves neither the clock nor the facts, nor r to a write.
<1>q. ASSUME UNCHANGED <<clock, facts>>, NEW r \in Requests,
             \A s \in Requests \ {r} : req'[s] = req[s] /\ refresh'[s] = refresh[s],
             req'[r].pc = "syncing" => req'[r] = req[r],
             refresh'[r].st = "reading" => refresh'[r] = refresh[r]
      PROVE ViewsShow'
  <2>1. ASSUME NEW s \in Requests PROVE ViewShows(s)'
    BY <1>0, <1>k, <1>q
  <2> QED BY <2>1 DEF ViewsShow
<1>1. ASSUME NEW r \in Requests, Prepares(r) PROVE ViewsShow'
  <2>1. req'[r].pc # "syncing"
    BY <1>0, <1>1, PrepareFacts DEF Preparing
  <2> QED BY <1>0, <1>1, <1>q, <2>1, PrepareFacts
<1>2. ASSUME NEW r \in Requests, Begin(r) \/ LockRow(r) \/ Rollback(r) PROVE ViewsShow'
  <2>1. req'[r].pc # "syncing"
    BY <1>0, <1>2 DEF Begin, LockRow, Rollback, Request
  <2> QED BY <1>0, <1>2, <1>q, <2>1 DEF Begin, LockRow, Rollback
<1>3. ASSUME NEW r \in Requests, SyncWrite(r) \/ GiveUp(r) PROVE ViewsShow'
  <2>1. req'[r].pc # "syncing"
    BY <1>0, <1>3 DEF SyncWrite, GiveUp
  <2> QED BY <1>0, <1>3, <1>q, <2>1 DEF SyncWrite, GiveUp
<1>4. ASSUME NEW r \in Requests, RefreshWrite(r) \/ RefreshFails(r) \/ RefreshAbandoned(r)
      PROVE ViewsShow'
  <2>1. refresh'[r].st # "reading"
    BY <1>0, <1>4 DEF RefreshWrite, RefreshFails, RefreshAbandoned, Refresh
  <2> QED BY <1>0, <1>4, <1>q, <2>1 DEF RefreshWrite, RefreshFails, RefreshAbandoned
<1>5. ASSUME NEW r \in Requests, CommitFailure(r) \/ CommitChange(r) PROVE ViewsShow'
  <2>1. PICK F \in SUBSET {Fail(r), Change(r), Block(r)} : IsFiniteSet(F) /\ Commit(r, F)
    BY <1>0, <1>5, CommitAdds
  <2>2. facts' = facts \cup F /\ clock' = clock /\ \A f \in F : f.by = r
    BY <1>0, <2>1, NewFacts DEF Commit
  <2>3. req'[r].pc = "finishing" /\ refresh'[r].st = "queued"
    BY <1>0, <2>1 DEF Commit, Request, Refresh
  <2>4. \A s \in Requests \ {r} : req'[s] = req[s] /\ refresh'[s] = refresh[s]
    BY <1>0, <2>1 DEF Commit
  <2>5. ASSUME NEW s \in Requests \ {r} PROVE ViewShows(s)'
    BY <1>0, <1>k, <2>2, <2>4
  <2>6. ViewShows(r)'
    BY <2>3 DEF ViewShows
  <2> QED BY <2>5, <2>6 DEF ViewsShow
<1>6. ASSUME NEW r \in Requests, SyncRead(r) PROVE ViewsShow'
  <2> DEFINE now == req[r].now
             p == Assemble(Relevant(facts, now), now)
  <2>1. now \in Nat /\ now <= clock /\ \A f \in facts : f.by = r => f.at <= now
    BY <1>0, <1>6 DEF SyncRead, InstantsPast, Request
  <2>2. Shows(p, r, clock)
    BY <1>0, <2>1, AssembledShows
  <2>3. req'[r].view = p
    BY <1>0, <1>6 DEF SyncRead, Request
  <2> HIDE DEF p, now
  <2>4. UNCHANGED <<clock, facts, refresh>> /\ \A s \in Requests \ {r} : req'[s] = req[s]
    BY <1>0, <1>6 DEF SyncRead
  <2>5. ASSUME NEW s \in Requests \ {r} PROVE ViewShows(s)'
    BY <1>0, <1>k, <2>4
  <2>6. ViewShows(r)
    BY <1>0 DEF ViewsShow
  <2>7. ViewShows(r)'
    BY <2>2, <2>3, <2>4, <2>6 DEF ViewShows, Shows
  <2> QED BY <2>5, <2>7 DEF ViewsShow
<1>7. ASSUME NEW r \in Requests, RefreshRead(r) PROVE ViewsShow'
  <2> DEFINE p == Assemble(Relevant(facts, clock), clock)
  <2>1. \A f \in facts : f.at <= clock
    BY <1>0 DEF InstantsPast
  <2>2. Shows(p, r, clock)
    BY <1>0, <2>1, AssembledShows
  <2>3. refresh'[r].view = p
    BY <1>0, <1>7 DEF RefreshRead
  <2> HIDE DEF p
  <2>4. /\ UNCHANGED <<clock, facts, req>>
        /\ \A s \in Requests \ {r} : refresh'[s] = refresh[s]
    BY <1>0, <1>7 DEF RefreshRead
  <2>5. ASSUME NEW s \in Requests \ {r} PROVE ViewShows(s)'
    BY <1>0, <1>k, <2>4
  <2>6. ViewShows(r)
    BY <1>0 DEF ViewsShow
  <2>7. ViewShows(r)'
    BY <2>2, <2>3, <2>4, <2>6 DEF ViewShows, Shows
  <2> QED BY <2>5, <2>7 DEF ViewsShow
<1>8. CASE PendingExpires \/ InitializedExpires \/ Tick \/ UNCHANGED vars
  <2>1. /\ clock' \in Nat /\ clock <= clock' /\ UNCHANGED <<facts, req, refresh>>
    BY <1>0, <1>8 DEF PendingExpires, InitializedExpires, Tick, vars
  <2>2. ASSUME NEW s \in Requests PROVE ViewShows(s)'
    BY <1>0, <1>k, <2>1
  <2> QED BY <2>2 DEF ViewsShow
<1> QED BY <1>1, <1>2, <1>3, <1>4, <1>5, <1>6, <1>7, <1>8, StepCases

LEMMA IInvInit == Init => IInv
<1> SUFFICES ASSUME Init PROVE IInv
  OBVIOUS
<1>1. TypeOK
  BY TypeInit
<1>2. facts \in Histories /\ version = 0 /\ clock = FirstInstant
  BY DEF Init
<1>3. /\ IsFiniteSet(facts)
      /\ \A f \in facts : /\ f.by = NoRequest /\ f.at <= clock
                          /\ f.at \in Nat /\ f.until \in Nat
                          /\ f.until <= f.at + RecurrentBlock
  <2>1. ASSUME NEW f \in facts
        PROVE /\ f.at \in Nat /\ f.until \in Nat
              /\ f.kind # "block" => f.until = 0
              /\ f.kind = "block" => f.until \in f.at + 1 .. f.at + RecurrentBlock
    BY <1>1, <1>2, HistoriesAssumption DEF TypeOK, Fact
  <2> QED BY <1>2, <2>1, HistoriesAssumption DEF PolicyAssumption
<1>4. \A r \in Requests : /\ req[r].pc = "idle" /\ req[r].now = 0
                          /\ refresh[r].st = "none"
  BY DEF Init, Idle
<1>5. VersionCountsChanges
  <2>1. {f \in facts : f.kind = "change" /\ f.by \in Requests} = {}
    BY <1>3
  <2> QED BY <1>2, <2>1, FS_EmptySet DEF VersionCountsChanges
<1>6. InstantsPast
  BY <1>2, <1>3, <1>4 DEF InstantsPast
<1> QED BY <1>1, <1>3, <1>4, <1>5, <1>6
     DEF IInv, BarrierHolds, Mutating, RefreshAfterTx, FactsAfterTx, LockedIsHolder,
         ViewsShow, ViewShows

LEMMA IInvHolds == Spec => []IInv
<1>1. IInv /\ [Next]_vars => IInv'
  BY TypeStep, BarrierStep, FactsStep, VersionStep, InstantsStep, ViewsStep DEF IInv
<1> QED BY <1>1, IInvInit, PTL DEF Spec

-----------------------------------------------------------------------------
(* The theorems *)

\* Every variable keeps its type (all operations of the password change).
THEOREM PasswordChangeTypeOK == Spec => []TypeOK
<1>1. IInv => TypeOK
  BY DEF IInv
<1> QED BY <1>1, IInvHolds, PTL

\* A mutation holds its barrier from SET NX to the end of its transaction,
\* unless the TTL of the barrier passes (BEGIN and REPLACE scripts).
THEOREM PasswordChangeBarrierHolds == Spec => []BarrierHolds
<1>1. IInv => BarrierHolds
  BY DEF IInv
<1> QED BY <1>1, IInvHolds, PTL

\* The credential version counts the committed changes even when the barrier
\* times out (findByIdForUpdate, incrementCredentialVersion).
THEOREM PasswordChangeVersionCounts == Spec => []VersionCountsChanges
<1>1. IInv => VersionCountsChanges
  BY DEF IInv
<1> QED BY <1>1, IInvHolds, PTL

\* Nobody loads a READY state while a mutation whose barrier has not timed out
\* may still commit (the LOAD script looks at the barrier first).
THEOREM PasswordChangeNoReadyLoad == Spec => NoReadyLoadWhileMutating
<1> DEFINE Quiet == \A r \in Requests :
       req[r].pc = "loading" /\ req'[r].pc = "decided"
         => \A s \in Requests \ lapsed : ~Mutating(s)
<1>1. IInv /\ [Next]_vars => [Quiet]_vars
  <2> SUFFICES ASSUME IInv, [Next]_vars,
                      NEW r \in Requests, req[r].pc = "loading", req'[r].pc = "decided"
               PROVE \A s \in Requests \ lapsed : ~Mutating(s)
    OBVIOUS
  <2>0. req \in [Requests -> Request] /\ Done.pc = "done"
    BY DEF IInv, TypeOK, Done, Idle
  <2>1. pending = NoRequest
    <3>1. PICK s \in Requests : \/ Prepares(s) \/ Begin(s) \/ LockRow(s)
                               \/ CommitFailure(s) \/ CommitChange(s) \/ Rollback(s)
                               \/ SyncRead(s) \/ SyncWrite(s) \/ GiveUp(s)
      BY StepCases DEF RefreshRead, RefreshWrite, RefreshFails, RefreshAbandoned,
         PendingExpires, InitializedExpires, Tick, vars
    <3>2. CASE LoadReady(s)
      BY <3>2 DEF LoadReady
    <3>3. CASE ~LoadReady(s)
      BY <2>0, <3>1, <3>3 DEF Prepares, Load, Hydrate, Arrive, LoadPending, LoadMissing,
         HydrateRead, HydrateWrite, Decide, Answer, BeginRefused, Begin, LockRow,
         CommitFailure, CommitChange, Commit, Rollback, SyncRead, SyncWrite, GiveUp, Request
    <3> QED BY <3>2, <3>3
  <2> QED BY <2>1, NoRequestAssumption DEF IInv, BarrierHolds
<1> QED BY <1>1, IInvHolds, PTL DEF Spec, NoReadyLoadWhileMutating

\* Before its TTL a barrier is lifted only by a projection that shows what its
\* mutation committed (synchronizeState, the refresh handler, REPLACE).
THEOREM PasswordChangeLiftingShows == Spec => LiftingShowsFacts
<1> DEFINE Shown == \A r \in Requests :
       pending = r /\ pending' # r /\ r \notin lapsed'
         => ~Mutating(r) /\ Shows(redis', r, clock)
<1>1. IInv /\ [Next]_vars => [Shown]_vars
  <2> SUFFICES ASSUME IInv, [Next]_vars, NEW r \in Requests,
                      pending = r, pending' # r, r \notin lapsed'
               PROVE ~Mutating(r) /\ Shows(redis', r, clock)
    OBVIOUS
  <2> USE DEF cache, durable
  <2>0. TypeOK /\ RefreshAfterTx /\ ViewsShow
    BY DEF IInv
  <2>1. SyncWrite(r) \/ RefreshWrite(r)
    <3>1. ASSUME NEW s \in Requests, Prepares(s) PROVE FALSE
      BY <2>0, <3>1, PrepareFacts
    <3>2. ASSUME NEW s \in Requests,
                 \/ Begin(s) \/ LockRow(s) \/ CommitFailure(s) \/ CommitChange(s)
                 \/ Rollback(s) \/ SyncRead(s) \/ GiveUp(s)
          PROVE FALSE
      BY <3>2, NoRequestAssumption DEF Begin, LockRow, CommitFailure, CommitChange,
         Commit, Rollback, SyncRead, GiveUp
    <3>3. ASSUME NEW s \in Requests,
                 RefreshRead(s) \/ RefreshFails(s) \/ RefreshAbandoned(s)
          PROVE FALSE
      BY <3>3 DEF RefreshRead, RefreshFails, RefreshAbandoned
    <3>4. ASSUME NEW s \in Requests, SyncWrite(s) \/ RefreshWrite(s) PROVE s = r
      BY <3>4 DEF SyncWrite, RefreshWrite, Replace
    <3>5. ASSUME PendingExpires \/ InitializedExpires \/ Tick \/ UNCHANGED vars
          PROVE FALSE
      BY <3>5 DEF PendingExpires, InitializedExpires, Tick, vars
    <3> QED BY <3>1, <3>2, <3>3, <3>4, <3>5, StepCases
  <2>2. CASE SyncWrite(r)
    BY <2>0, <2>2 DEF SyncWrite, Replace, ViewsShow, ViewShows, Mutating
  <2>3. CASE RefreshWrite(r)
    BY <2>0, <2>3 DEF RefreshWrite, Replace, ViewsShow, ViewShows, Mutating,
       RefreshAfterTx, AfterTx
  <2> QED BY <2>1, <2>2, <2>3
<1> QED BY <1>1, IInvHolds, PTL DEF Spec, LiftingShowsFacts


-----------------------------------------------------------------------------
(* The projection, aged and read back *)

\* Latest of a finite set is one of its instants, or null if there is none.
LEMMA LatestIsMember ==
  ASSUME NEW S \in SUBSET Nat, IsFiniteSet(S)
  PROVE  /\ S # {} => Latest(S) \in S
         /\ S = {} => Latest(S) = 0
<1> DEFINE newest == {x \in S : \A u \in S : u <= x}
<1>1. ASSUME S # {} PROVE Latest(S) \in S
  <2>1. newest # {}
    BY <1>1, LatestExists
  <2>2. (CHOOSE x \in newest : TRUE) \in newest
    BY <2>1
  <2> QED BY <2>1, <2>2 DEF Latest
<1>2. ASSUME S = {} PROVE Latest(S) = 0
  BY <1>2 DEF Latest
<1> QED BY <1>1, <1>2

\* The values that a finite set of facts has in a column are finitely many.
LEMMA FiniteColumn ==
  ASSUME NEW B, IsFiniteSet(B)
  PROVE  IsFiniteSet({b.at : b \in B}) /\ IsFiniteSet({b.until : b \in B})
<1>1. [b \in B |-> b.at] \in Surjection(B, {b.at : b \in B})
  BY DEF Surjection
<1>2. [b \in B |-> b.until] \in Surjection(B, {b.until : b \in B})
  BY DEF Surjection
<1> QED BY <1>1, <1>2, FS_Surjection

\* Of a finite set of facts that is not empty some fact is the newest.
LEMMA NewestFact ==
  ASSUME NEW B, IsFiniteSet(B), B # {}, \A b \in B : b.at \in Nat
  PROVE  \E c \in B : \A d \in B : d.at <= c.at
<1> DEFINE S == {b.at : b \in B}
<1>1. S \in SUBSET Nat /\ IsFiniteSet(S) /\ S # {}
  BY FiniteColumn
<1> HIDE DEF S
<1>2. \E t \in S : \A u \in S : u <= t
  BY <1>1, LatestExists
<1> QED BY <1>2 DEF S

\* ZREVRANGE returns fewer than the limit only if there are fewer, and the
\* newest in any case.
LEMMA CapKeeps ==
  ASSUME NEW C, IsFiniteSet(C), \A c \in C : c.at \in Nat, NEW L \in Nat \ {0}
  PROVE  LET R == {c \in C : Cardinality({d \in C : d.at > c.at}) < L}
         IN /\ Cardinality(R) < L <=> Cardinality(C) < L
            /\ C # {} => \E c \in R : \A d \in C : d.at <= c.at
<1> DEFINE Above(c) == {d \in C : d.at > c.at}
           R == {c \in C : Cardinality(Above(c)) < L}
           n == Cardinality(C)
           m == Cardinality(R)
<1>1. /\ \A c \in C : IsFiniteSet(Above(c)) /\ Cardinality(Above(c)) \in Nat
                      /\ Cardinality(Above(c)) <= n
      /\ IsFiniteSet(R) /\ m \in Nat /\ m <= n /\ n \in Nat
  <2>1. \A S \in SUBSET C : /\ IsFiniteSet(S) /\ Cardinality(S) \in Nat
                            /\ Cardinality(S) <= n /\ n \in Nat
    BY FS_Subset, FS_CardinalityType
  <2>2. R \in SUBSET C /\ \A c \in C : Above(c) \in SUBSET C
    OBVIOUS
  <2> HIDE DEF Above, R, n
  <2> QED BY <2>1, <2>2
<1>7. \A c \in C : c \in R <=> Cardinality(Above(c)) < L
  <2> HIDE DEF Above
  <2> QED OBVIOUS
<1>2. ASSUME n >= L PROVE m >= L
  <2>1. CASE R = C
    BY <1>2, <2>1
  <2>2. CASE R # C
    <3> DEFINE D == C \ R
    <3>1. D # {} /\ IsFiniteSet(D) /\ \A b \in D : b.at \in Nat
      BY <2>2, FS_Subset
    <3> HIDE DEF D
    <3>2. PICK c \in D : \A d \in D : d.at <= c.at
      BY <3>1, NewestFact
    <3>3. c \in C /\ c \notin R /\ c.at \in Nat
      BY <3>2 DEF D
    <3>4. Above(c) \subseteq R
      <4> SUFFICES ASSUME NEW d \in Above(c), d \notin R PROVE FALSE
        OBVIOUS
      <4>1. d \in C /\ d.at > c.at /\ d.at \in Nat
        OBVIOUS
      <4>2. d.at <= c.at
        BY <3>2, <4>1 DEF D
      <4> QED BY <3>3, <4>1, <4>2
    <3>5. Cardinality(Above(c)) >= L
      <4> HIDE DEF Above, R
      <4> QED BY <1>1, <1>7, <3>3
    <3> HIDE DEF Above, R
    <3>6. Cardinality(Above(c)) <= Cardinality(R)
      BY <1>1, <3>4, FS_Subset
    <3> QED BY <1>1, <3>3, <3>5, <3>6
  <2> QED BY <2>1, <2>2
<1>3. m < L <=> n < L
  <2> HIDE DEF m, n
  <2> QED BY <1>1, <1>2
<1>4. ASSUME C # {} PROVE \E c \in R : \A d \in C : d.at <= c.at
  <2>1. PICK c \in C : \A d \in C : d.at <= c.at
    BY <1>4, NewestFact
  <2>2. Above(c) = {}
    BY <2>1
  <2>3. Cardinality(Above(c)) = 0
    <3> HIDE DEF Above
    <3> QED BY <2>2, FS_EmptySet
  <2>4. c \in R
    BY <2>3
  <2> QED BY <2>1, <2>4
<1>5. (m < L <=> n < L) /\ (C # {} => \E c \in R : \A d \in C : d.at <= c.at)
  BY <1>3, <1>4
<1> QED BY <1>5

\* What a window still contains, and what the cap on loaded changes leaves.
InWindow(S, w, now) == {f \in S : Within(f.at, w, now)}
Capped(S) == {c \in S : Cardinality({d \in S : d.at > c.at}) < ChangeLimit}

\* Loading a projection trims its windows and caps its changes.
LEMMA LoadedWindows ==
  ASSUME NEW q \in Projection, NEW now \in Nat
  PROVE  /\ Loaded(q, now).failures = InWindow(q.failures, FailureWindow, now)
         /\ Loaded(q, now).changes = Capped(InWindow(q.changes, ChangeWindow, now))
<1> DEFINE T == Trim(q, now)
<1>1. /\ T.failures = InWindow(q.failures, FailureWindow, now)
      /\ T.changes = InWindow(q.changes, ChangeWindow, now)
      /\ T \in Projection
  BY LoadedType DEF Trim, Projection, InWindow
<1>2. Loaded(q, now) = [T EXCEPT !.changes = Capped(T.changes)]
  BY <1>1 DEF Loaded, Projection, Capped
<1>3. Loaded(q, now).failures = T.failures /\ Loaded(q, now).changes = Capped(T.changes)
  <2> HIDE DEF T
  <2> QED BY <1>1, <1>2 DEF Projection
<1> QED BY <1>1, <1>3

\* It leaves the block alone.
LEMMA LoadedBlock ==
  ASSUME NEW q \in Projection, NEW now \in Nat
  PROVE  Loaded(q, now).blockedUntil = q.blockedUntil /\ Loaded(q, now).lastBlock = q.lastBlock
<1> DEFINE T == Trim(q, now)
           K == {c \in T.changes : Cardinality({d \in T.changes : d.at > c.at}) < ChangeLimit}
<1>1. T.blockedUntil = q.blockedUntil /\ T.lastBlock = q.lastBlock /\ T \in Projection
  BY LoadedType DEF Trim, Projection
<1>2. Loaded(q, now) = [T EXCEPT !.changes = K]
  BY <1>1 DEF Loaded, Projection
<1> HIDE DEF T, K
<1> QED BY <1>1, <1>2 DEF Projection


\* What the assembler leaves out of the windows at s, or the script trims at
\* now, is just what has left the windows at now.
LEMMA AgedFields ==
  ASSUME NEW F \in SUBSET Fact, NEW s \in Nat, NEW now \in Nat, s <= now,
         \A f \in F : f.at <= s
  PROVE  LET p == Loaded(Assemble(Relevant(F, s), s), now)
         IN /\ p.failures = InWindow(OfKind("failure", F), FailureWindow, now)
            /\ p.changes = Capped(InWindow(OfKind("change", F), ChangeWindow, now))
<1> DEFINE A == Assemble(Relevant(F, s), s)
           p == Loaded(A, now)
<1>1. A \in Projection
  BY AssembleType
<1>2. \A f \in F : f.at \in Nat
  BY DEF Fact
<1>3. /\ A.failures = {f \in OfKind("failure", Relevant(F, s)) :
                         Within(f.at, FailureWindow, s) /\ f.at <= s}
      /\ A.changes = {f \in OfKind("change", Relevant(F, s)) :
                         Within(f.at, ChangeWindow, s) /\ f.at <= s}
  BY DEF Assemble
<1>4. FailureWindow \in Nat /\ ChangeWindow \in Nat
  BY DEF PolicyAssumption
<1>5. InWindow(A.failures, FailureWindow, now) = InWindow(OfKind("failure", F), FailureWindow, now)
  BY <1>2, <1>3, <1>4, LookbackCovers DEF OfKind, Relevant, Within, InWindow
<1>6. InWindow(A.changes, ChangeWindow, now) = InWindow(OfKind("change", F), ChangeWindow, now)
  BY <1>2, <1>3, <1>4, LookbackCovers DEF OfKind, Relevant, Within, InWindow
<1>7. /\ p.failures = InWindow(A.failures, FailureWindow, now)
      /\ p.changes = Capped(InWindow(A.changes, ChangeWindow, now))
  <2> HIDE DEF A
  <2> QED BY <1>1, LoadedWindows
<1> QED BY <1>5, <1>6, <1>7

\* The end of the block in force, as the assembler finds it.
LEMMA BlockedAgrees ==
  ASSUME NEW F \in SUBSET Fact, IsFiniteSet(F), NEW s \in Nat, NEW now \in Nat, s <= now,
         \A f \in F : f.at <= s /\ f.until <= f.at + RecurrentBlock
  PROVE  Assemble(Relevant(F, s), s).blockedUntil <= now
           <=> \A b \in OfKind("block", F) : b.until <= now
<1> DEFINE B == {b \in OfKind("block", Relevant(F, s)) : b.until > s}
           S == {b.until : b \in B}
<1>1. Assemble(Relevant(F, s), s).blockedUntil = Latest(S)
  BY DEF Assemble
<1>2. B \subseteq F /\ IsFiniteSet(B)
  BY FS_Subset DEF OfKind, Relevant
<1>3. \A f \in F : f.at \in Nat /\ f.until \in Nat
  BY DEF Fact
<1>4. S \in SUBSET Nat /\ IsFiniteSet(S)
  BY <1>2, <1>3, FiniteColumn
<1>5. \A b \in OfKind("block", F) : b.until > s => b \in B
  BY <1>3, LookbackCovers DEF OfKind, Relevant, PolicyAssumption
<1>6. \A b \in B : b \in OfKind("block", F)
  BY DEF OfKind, Relevant
<1>7. ASSUME \A b \in OfKind("block", F) : b.until <= now PROVE Latest(S) <= now
  <2>1. \A u \in S : u <= now
    BY <1>6, <1>7
  <2>2. Latest(S) \in S \/ Latest(S) = 0
    BY <1>4, LatestIsMember
  <2> QED BY <2>1, <2>2
<1>8. ASSUME Latest(S) <= now, NEW b \in OfKind("block", F) PROVE b.until <= now
  <2>1. b \in F
    BY DEF OfKind
  <2>2. CASE b.until > s
    <3>1. b.until \in S
      BY <1>5, <2>2
    <3>2. b.until <= Latest(S) /\ Latest(S) \in Nat
      BY <1>4, <3>1, LatestBound, LatestType
    <3> QED BY <1>3, <1>8, <2>1, <3>2
  <2>3. CASE ~(b.until > s)
    BY <1>3, <2>1, <2>3
  <2> QED BY <2>2, <2>3
<1> QED BY <1>1, <1>7, <1>8

\* The last block makes a new one recurrent exactly while some block is in the
\* recurrence window.
LEMMA RecurrenceAgrees ==
  ASSUME NEW F \in SUBSET Fact, IsFiniteSet(F), NEW s \in Nat, NEW now \in Nat, s <= now,
         \A f \in F : f.at \in 1 .. s
  PROVE  LET last == Assemble(Relevant(F, s), s).lastBlock
         IN (last # 0 /\ Within(last, RecurrenceWindow, now) /\ last <= now)
              <=> \E b \in OfKind("block", F) : Within(b.at, RecurrenceWindow, now)
<1> DEFINE B == {b \in OfKind("block", Relevant(F, s)) :
                   Within(b.at, RecurrenceWindow, s) /\ b.at <= s}
           S == {b.at : b \in B}
           last == Latest(S)
<1>1. Assemble(Relevant(F, s), s).lastBlock = last
  BY DEF Assemble
<1>2. B \subseteq F /\ IsFiniteSet(B)
  BY FS_Subset DEF OfKind, Relevant
<1>3. S \in SUBSET Nat /\ IsFiniteSet(S) /\ S \subseteq 1 .. s
  <2>1. \A b \in B : b.at \in 1 .. s
    BY <1>2
  <2> HIDE DEF B
  <2>2. IsFiniteSet(S)
    BY <1>2, FiniteColumn
  <2>3. S \subseteq 1 .. s
    BY <2>1
  <2> HIDE DEF S
  <2> QED BY <2>2, <2>3
<1>4. last \in S \/ (S = {} /\ last = 0)
  BY <1>3, LatestIsMember
<1>5. ASSUME last # 0, Within(last, RecurrenceWindow, now)
      PROVE  \E b \in OfKind("block", F) : Within(b.at, RecurrenceWindow, now)
  <2>1. PICK b \in B : b.at = last
    BY <1>4, <1>5
  <2>2. b \in OfKind("block", F)
    BY DEF OfKind, Relevant
  <2> QED BY <1>5, <2>1, <2>2
<1>6. ASSUME NEW b \in OfKind("block", F), Within(b.at, RecurrenceWindow, now)
      PROVE  last # 0 /\ Within(last, RecurrenceWindow, now) /\ last <= now
  <2>1. b \in F /\ b.at \in 1 .. s /\ RecurrenceWindow \in Nat
    BY DEF OfKind, PolicyAssumption
  <2>2. Within(b.at, RecurrenceWindow, s) /\ b.at + Lookback >= s
    BY <1>6, <2>1, LookbackCovers DEF Within
  <2>3. b \in B
    BY <2>1, <2>2 DEF OfKind, Relevant
  <2>4. b.at \in S
    BY <2>3
  <2>5. b.at <= last
    BY <1>3, <2>4, LatestBound
  <2>6. last \in 1 .. s
    BY <1>3, <1>4, <2>4
  <2> HIDE DEF last
  <2> QED BY <1>6, <2>1, <2>5, <2>6 DEF Within
<1> HIDE DEF last
<1> QED BY <1>1, <1>5, <1>6

\* The aged projection decides as the facts do.
LEMMA AgedAgrees ==
  ASSUME NEW F \in SUBSET Fact, IsFiniteSet(F), NEW s \in Nat, NEW now \in Nat, s <= now,
         \A f \in F : f.at \in 1 .. s /\ f.until <= f.at + RecurrentBlock
  PROVE  LET p == Loaded(Assemble(Relevant(F, s), s), now)
         IN /\ Allowed(p, now) <=> PolicyAllows(F, now)
            /\ BlockStarted(p, now) = PolicyBlocks(F, now)
<1> DEFINE A == Assemble(Relevant(F, s), s)
           p == Loaded(A, now)
           C == InWindow(OfKind("change", F), ChangeWindow, now)
           E == InWindow(OfKind("failure", F), FailureWindow, now)
           R == Capped(C)
           recent == {b \in OfKind("block", F) : Within(b.at, RecurrenceWindow, now)}
<1>1. \A f \in F : f.at <= s /\ f.at \in Nat
  OBVIOUS
<1>2. p.failures = E /\ p.changes = R /\ p.blockedUntil = A.blockedUntil
      /\ p.lastBlock = A.lastBlock
  <2>1. \A f \in F : f.at <= s
    BY <1>1
  <2>2. p.failures = E
    BY <2>1, AgedFields
  <2>3. p.changes = R
    BY <2>1, AgedFields
  <2>4. p.blockedUntil = A.blockedUntil /\ p.lastBlock = A.lastBlock
    <3>1. A \in Projection
      BY AssembleType
    <3> HIDE DEF A
    <3> QED BY <3>1, LoadedBlock
  <2> QED BY <2>2, <2>3, <2>4
<1>3. A.blockedUntil <= now <=> \A b \in OfKind("block", F) : b.until <= now
  BY <1>1, BlockedAgrees
<1>4. (A.lastBlock # 0 /\ Within(A.lastBlock, RecurrenceWindow, now) /\ A.lastBlock <= now)
        <=> recent # {}
  BY RecurrenceAgrees
<1>5. IsFiniteSet(C) /\ \A c \in C : c.at \in Nat
  BY <1>1, FS_Subset DEF OfKind, InWindow
<1>6. ChangeLimit \in Nat \ {0} /\ Cooldown \in Nat
  BY DEF PolicyAssumption
<1>7. /\ Cardinality(R) < ChangeLimit <=> Cardinality(C) < ChangeLimit
      /\ C # {} => \E c \in R : \A d \in C : d.at <= c.at
  <2> HIDE DEF C
  <2> QED BY <1>5, <1>6, CapKeeps DEF Capped
<1>8. {c \in R : Within(c.at, ChangeWindow, now)} = R /\ R \subseteq C
  BY DEF Capped, InWindow
<1>9. (\A c \in R : c.at + Cooldown <= now) <=> (\A c \in C : c.at + Cooldown <= now)
  <2> HIDE DEF C, R
  <2>1. ASSUME \A c \in R : c.at + Cooldown <= now, NEW d \in C PROVE d.at + Cooldown <= now
    <3>1. PICK c \in R : \A e \in C : e.at <= c.at
      BY <1>7
    <3>2. c.at \in Nat /\ d.at \in Nat /\ d.at <= c.at /\ c.at + Cooldown <= now
      BY <1>5, <1>8, <2>1, <3>1
    <3> QED BY <1>6, <3>2
  <2> QED BY <1>8, <2>1
<1>10. Allowed(p, now) <=> PolicyAllows(F, now)
  <2>1. Allowed(p, now) <=> /\ p.blockedUntil <= now
                            /\ \A c \in R : c.at + Cooldown <= now
                            /\ Cardinality(R) < ChangeLimit
    BY <1>2, <1>8 DEF Allowed
  <2>2. PolicyAllows(F, now) <=> /\ \A b \in OfKind("block", F) : b.until <= now
                                 /\ \A c \in C : c.at + Cooldown <= now
                                 /\ Cardinality(C) < ChangeLimit
    BY DEF PolicyAllows, InWindow
  <2> HIDE DEF C, R, p, A
  <2> QED BY <1>2, <1>3, <1>7, <1>9, <2>1, <2>2
<1>11. BlockStarted(p, now) = PolicyBlocks(F, now)
  <2> DEFINE k == Cardinality(E)
             again == A.lastBlock # 0 /\ Within(A.lastBlock, RecurrenceWindow, now)
                        /\ A.lastBlock <= now
  <2>1. IsFiniteSet(E) /\ k \in Nat
    BY FS_Subset, FS_CardinalityType DEF OfKind, InWindow
  <2>2. FailureLimit \in Nat
    BY DEF PolicyAssumption
  <2>3. PolicyBlocks(F, now) = IF k + 1 < FailureLimit THEN 0
                               ELSE now + (IF recent = {} THEN FirstBlock ELSE RecurrentBlock)
    BY DEF PolicyBlocks, InWindow
  <2>4. BlockStarted(p, now) =
          CASE k + 1 < FailureLimit -> 0
            [] /\ k + 1 >= FailureLimit
               /\ A.lastBlock # 0
               /\ Within(A.lastBlock, RecurrenceWindow, now)
               /\ A.lastBlock <= now -> now + RecurrentBlock
            [] OTHER -> now + FirstBlock
    BY <1>2 DEF BlockStarted
  <2>5. again <=> recent # {}
    BY <1>4
  <2> HIDE DEF k, E, A, recent
  <2>6. CASE k + 1 < FailureLimit
    BY <2>1, <2>2, <2>3, <2>4, <2>6
  <2>7. CASE ~(k + 1 < FailureLimit) /\ again
    BY <2>1, <2>2, <2>3, <2>4, <2>5, <2>7
  <2>8. CASE ~(k + 1 < FailureLimit) /\ ~again
    BY <2>1, <2>2, <2>3, <2>4, <2>5, <2>8
  <2> QED BY <2>6, <2>7, <2>8
<1> QED BY <1>10, <1>11

\* An instant is never null: neither of a fact nor of a request that has begun.
InstantsReal ==
  /\ clock >= 1
  /\ \A f \in facts : f.at >= 1
  /\ \A r \in Requests : req[r].pc \notin {"idle", "done"} => req[r].now >= 1

LEMMA InstantsRealStep == IInv /\ InstantsReal /\ [Next]_vars => InstantsReal'
<1> SUFFICES ASSUME IInv, InstantsReal, [Next]_vars PROVE InstantsReal'
  OBVIOUS
<1> USE DEF InstantsReal, cache, durable
<1>0. /\ TypeOK /\ req \in [Requests -> Request] /\ Done.pc = "done" /\ clock \in Nat
  BY DEF IInv, TypeOK, Done, Idle
<1>1. ASSUME NEW r \in Requests,
             Arrive(r) \/ LoadPending(r) \/ LoadMissing(r) \/ HydrateRead(r) \/ Answer(r)
             \/ BeginRefused(r) \/ Begin(r) \/ LockRow(r) \/ Rollback(r) \/ SyncRead(r)
             \/ SyncWrite(r) \/ GiveUp(r)
      PROVE  InstantsReal'
  BY <1>0, <1>1 DEF Arrive, LoadPending, LoadMissing, HydrateRead, Answer, BeginRefused,
    Begin, LockRow, Rollback, SyncRead, SyncWrite, GiveUp, Request
<1>2. ASSUME NEW r \in Requests, LoadReady(r) \/ HydrateWrite(r) PROVE InstantsReal'
  BY <1>0, <1>2 DEF LoadReady, HydrateWrite, Decide, Request
<1>3. ASSUME NEW r \in Requests, CommitFailure(r) \/ CommitChange(r) PROVE InstantsReal'
  <2>1. PICK F \in SUBSET {Fail(r), Change(r), Block(r)} : IsFiniteSet(F) /\ Commit(r, F)
    BY <1>0, <1>3, CommitAdds
  <2>2. /\ facts' = facts \cup F /\ clock' = clock
        /\ \A f \in F : f.at = req[r].now
    BY <1>0, <2>1, NewFacts DEF Commit
  <2>3. req[r].now >= 1
    BY <1>3 DEF CommitFailure, CommitChange
  <2>4. \A s \in Requests : /\ req'[s].now = req[s].now
                            /\ s # r => req'[s].pc = req[s].pc
    BY <1>0, <2>1 DEF Commit, Request
  <2> QED BY <2>2, <2>3, <2>4
<1>4. ASSUME NEW r \in Requests, Deliver(r) \/ RefreshAbandoned(r) PROVE InstantsReal'
  BY <1>4 DEF Deliver, RefreshRead, RefreshWrite, RefreshFails, RefreshAbandoned
<1>5. CASE PendingExpires \/ InitializedExpires \/ Tick \/ UNCHANGED vars
  BY <1>0, <1>5 DEF PendingExpires, InitializedExpires, Tick, vars
<1> QED BY <1>1, <1>2, <1>3, <1>4, <1>5
        DEF Next, Load, Hydrate, Transact, Synchronize

\* A projection that was complete when it was written decides, however much
\* later it is read, exactly as the durable facts do: assembler, scripts and
\* policy agree on every edge of every window, for any limits and windows.
THEOREM PasswordChangeAgedDecides == Spec => []AgedProjectionDecidesAsFacts
<1>1. Init => InstantsReal
  <2>1. ASSUME Init, NEW f \in facts PROVE f.at \in 1 .. FirstInstant
    BY <2>1, HistoriesAssumption DEF Init
  <2>2. ASSUME Init, NEW f \in facts PROVE f.at >= 1
    BY <2>1, <2>2
  <2>3. Init => clock >= 1
    BY ClockAssumption DEF Init
  <2>4. ASSUME Init, NEW r \in Requests PROVE req[r].pc = "idle"
    BY <2>4 DEF Init, Idle
  <2> QED BY <2>2, <2>3, <2>4 DEF InstantsReal
<1>2. IInv /\ InstantsReal => AgedProjectionDecidesAsFacts
  <2> SUFFICES ASSUME IInv, InstantsReal, NEW s \in 0 .. clock
               PROVE  LET F == {f \in facts : f.at <= s}
                          p == Loaded(Assemble(Relevant(F, s), s), clock)
                      IN /\ Allowed(p, clock) <=> PolicyAllows(F, clock)
                         /\ BlockStarted(p, clock) = PolicyBlocks(F, clock)
    BY DEF AgedProjectionDecidesAsFacts
  <2> DEFINE F == {f \in facts : f.at <= s}
  <2>1. /\ facts \in SUBSET Fact /\ IsFiniteSet(facts) /\ clock \in Nat
        /\ \A f \in facts : f.at \in Nat /\ f.at >= 1 /\ f.until <= f.at + RecurrentBlock
    BY DEF IInv, TypeOK, InstantsPast, InstantsReal, Fact
  <2>2. F \in SUBSET Fact /\ IsFiniteSet(F)
    BY <2>1, FS_Subset
  <2>3. /\ s \in Nat /\ s <= clock
        /\ \A f \in F : f.at \in 1 .. s /\ f.until <= f.at + RecurrentBlock
    BY <2>1
  <2> HIDE DEF F
  <2>4. LET p == Loaded(Assemble(Relevant(F, s), s), clock)
        IN /\ Allowed(p, clock) <=> PolicyAllows(F, clock)
           /\ BlockStarted(p, clock) = PolicyBlocks(F, clock)
    BY <2>1, <2>2, <2>3, AgedAgrees
  <2> QED BY <2>4 DEF F
<1>3. IInv /\ InstantsReal /\ [Next]_vars => InstantsReal'
  BY InstantsRealStep
<1> QED BY <1>1, <1>2, <1>3, IInvHolds, PTL DEF Spec
=============================================================================
