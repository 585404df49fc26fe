-------------------------- MODULE EmailVerification --------------------------
(***************************************************************************)
(* Verifying the e-mail of one user: challenges in PostgreSQL, created once *)
(* by the worker when the user signed up and again by every resend, and    *)
(* the state in Redis that limits resends: the manual sends of the window, *)
(* a cooldown and the barrier of a resend under way (the last send, which  *)
(* is only shown, is left out).  Lua scripts, each atomic, change it.      *)
(*                                                                         *)
(* Time is a small integer clock; a Redis key with a TTL is an instant     *)
(* until which it exists.  A resend and its challenge share a name.        *)
(***************************************************************************)
EXTENDS Naturals, FiniteSets

CONSTANTS
  Resends,       \* resend requests of the user
  Automatic,     \* the challenge of the handler of user.created
  NoResend,      \* owner of no barrier
  LastInstant,   \* bound of the clock
  Renewals,      \* renewals of the barrier in one transaction, 3 in the code
  Limit, Window, InitialCooldown, MaxCooldown, MutationTtl, TokenTtl, MinimumUsable

Challenges == Resends \cup {Automatic}

ASSUME NamesAssumption == Automatic \notin Resends /\ NoResend \notin Challenges
ASSUME PolicyAssumption ==
  /\ {LastInstant, Renewals, Limit, Window, InitialCooldown, MaxCooldown, MutationTtl,
      TokenTtl, MinimumUsable} \subseteq Nat \ {0}
  /\ InitialCooldown <= MaxCooldown
\* config.module.ts refuses a token TTL that breaks this.
ASSUME TokenTtlAssumption == TokenTtl >= MaxCooldown + MinimumUsable

VARIABLES
  clock,
  status,      \* of the user
  challenge,   \* email_verification_challenges
  userLock,    \* who holds the row lock of the user
  verified,    \* UserEmailVerifiedEvents stored in the outbox
  manual,      \* sorted set: resends that count towards the limit
  cooldown,    \* until when the cooldown key exists, 0 when it does not
  barrier,     \* the pending key: its owner and the end of its TTL
  req,         \* the resend requests
  delivery,    \* the delivery of user.created to its handler
  began,       \* history: when each resend that counts acquired the barrier
  slipped      \* history: committed resends whose barrier was gone before COMPLETE

stored == <<status, challenge, userLock, verified>>
redis == <<manual, cooldown, barrier>>
history == <<began, slipped>>
vars == <<clock, stored, redis, req, delivery, history>>

Challenge == [st : {"none", "open", "verifying", "repeating", "consumed"}, at : Nat]

Phases == {"idle", "arrived", "acquired", "locked", "committed", "aborting", "done"}

Request == [pc : Phases, now : Nat, renewals : 0 .. Renewals]

TypeOK ==
  /\ clock \in Nat
  /\ status \in {"PENDING", "ACTIVE"}
  /\ challenge \in [Challenges -> Challenge]
  /\ userLock \in Challenges \cup {NoResend}
  /\ verified \in Nat
  /\ manual \subseteq Resends
  /\ cooldown \in Nat
  /\ barrier \in [owner : Resends \cup {NoResend}, until : Nat]
  /\ req \in [Resends -> Request]
  /\ delivery \in {"waiting", "committed", "done"}
  /\ began \in [Resends -> Nat]
  /\ slipped \subseteq Resends

NoBarrier == [owner |-> NoResend, until |-> 0]

Init ==
  /\ clock = 1 /\ status = "PENDING" /\ userLock = NoResend /\ verified = 0
  /\ challenge = [c \in Challenges |-> [st |-> "none", at |-> 0]]
  /\ manual = {} /\ cooldown = 0 /\ barrier = NoBarrier
  /\ req = [r \in Resends |-> [pc |-> "idle", now |-> 0, renewals |-> 0]]
  /\ delivery = "waiting"
  /\ began = [r \in Resends |-> 0] /\ slipped = {}

-----------------------------------------------------------------------------
At(r, phase) == req[r].pc = phase
Goto(r, phase) == req' = [req EXCEPT ![r].pc = phase]
Leave(r, phase) == req' = [req EXCEPT ![r] = [pc |-> phase, now |-> 0, renewals |-> 0]]
Forget(rs) == began' = [r \in Resends |-> IF r \in rs THEN 0 ELSE began[r]]

Sent(c) == challenge[c].st # "none"
ExpiresAt(c) == challenge[c].at + TokenTtl

(* The scripts *)

\* Mutant: the newer cooldown replaces the older one.
Later_Mutant(a, b) == b

Later(a, b) == IF a >= b THEN a ELSE b

\* ZREMRANGEBYSCORE manual -inf now - window.  A score is the instant of the
\* challenge.
Pruned(now) == {m \in manual : challenge[m].at + Window > now}

\* The waits of the two scripts that look for restrictions; the key of the
\* barrier is gone at its TTL.
CooldownWait == IF cooldown > clock THEN cooldown - clock ELSE 0
BarrierWait == IF barrier.until > clock THEN barrier.until - clock ELSE 0

\* Mutant: one too many.
LimitReached_Mutant(now) == Cardinality(Pruned(now)) > Limit

LimitReached(now) == Cardinality(Pruned(now)) >= Limit

\* Until the oldest send leaves the window.
DailyWait(now) ==
  IF ~LimitReached(now) THEN 0
  ELSE LET oldest == CHOOSE m \in Pruned(now) :
             \A n \in Pruned(now) : challenge[m].at <= challenge[n].at
       IN challenge[oldest].at + Window - now

\* Mutant: the limit is not among the restrictions.
Available_Mutant(now) == CooldownWait = 0 /\ BarrierWait = 0

\* What BEGIN asks for.
Available(now) == CooldownWait = 0 /\ BarrierWait = 0 /\ ~LimitReached(now)

\* Mutant: the first restriction found instead of the longest.
RetryAfter_Mutant(now) ==
  CASE CooldownWait > 0 -> CooldownWait
    [] CooldownWait = 0 /\ BarrierWait > 0 -> BarrierWait
    [] OTHER -> DailyWait(now)

\* The longest wait, which Retry-After announces.
RetryAfter(now) ==
  CHOOSE w \in {CooldownWait, BarrierWait, DailyWait(now)} :
    \A v \in {CooldownWait, BarrierWait, DailyWait(now)} : v <= w

\* The reply of LOAD, for GET resend/status.
Load(now) ==
  LET used == Cardinality(Pruned(now))
  IN [available |-> RetryAfter(now) = 0, retryAfter |-> RetryAfter(now),
      used |-> used, remaining |-> Later(Limit - used, 0)]

\* parseManualCount, parseRemaining and parseRetryAfterSeconds, which fail on any
\* other reply; the status is then reported as not available.
Parsed(reply) ==
  /\ reply.used <= Limit /\ reply.remaining = Limit - reply.used
  /\ reply.available \/ reply.retryAfter > 0

\* Mutant: no maximum.
Backoff_Mutant(c, count) ==
  IF c = Automatic THEN InitialCooldown ELSE InitialCooldown * 2^count

\* The cooldown a send starts, from the count after its ZADD: doubling from
\* the initial one up to the maximum; an automatic send starts the initial one.
Backoff(c, count) ==
  LET doubled == InitialCooldown * 2^count
  IN CASE c = Automatic -> InitialCooldown
       [] c # Automatic /\ doubled <= MaxCooldown -> doubled
       [] OTHER -> MaxCooldown

\* COMPLETE counts the send, prolongs the cooldown and lifts the barrier if it
\* still is the caller's.
Complete(c) ==
  /\ manual' = Pruned(clock) \cup ({c} \cap Resends)
  /\ LET until == Later(cooldown, challenge[c].at + Backoff(c, Cardinality(manual')))
     IN cooldown' = IF until > clock THEN until ELSE 0
  /\ barrier' = IF c = barrier.owner THEN NoBarrier ELSE barrier

-----------------------------------------------------------------------------
(* ResendEmailVerificationUseCase *)

\* The user is read without a lock, and now is taken before the script runs.
Arrive(r) ==
  /\ At(r, "idle") /\ status = "PENDING"
  /\ req' = [req EXCEPT ![r].pc = "arrived", ![r].now = clock]
  /\ UNCHANGED <<clock, stored, redis, delivery, history>>

BeginRefused(r) ==
  /\ At(r, "arrived") /\ ~Available(req[r].now)
  /\ manual' = Pruned(req[r].now)
  /\ Leave(r, "done")
  /\ UNCHANGED <<clock, stored, cooldown, barrier, delivery, history>>

Begin(r) ==
  /\ At(r, "arrived") /\ Available(req[r].now)
  /\ manual' = Pruned(req[r].now)
  /\ barrier' = [owner |-> r, until |-> clock + MutationTtl]
  /\ began' = [began EXCEPT ![r] = clock]
  /\ Goto(r, "acquired")
  /\ UNCHANGED <<clock, stored, cooldown, delivery, slipped>>

\* findByIdForUpdate: a user verified meanwhile ends the resend.
LockUser(r) ==
  /\ At(r, "acquired") /\ userLock = NoResend
  /\ IF status = "PENDING" THEN userLock' = r /\ Goto(r, "locked") /\ UNCHANGED began
     ELSE Leave(r, "aborting") /\ Forget({r}) /\ UNCHANGED userLock
  /\ UNCHANGED <<clock, status, challenge, verified, redis, delivery, slipped>>

Owns(r) == barrier.owner = r /\ barrier.until > clock

\* Mutant: the renewals are not bounded by the steps of the transaction.
Renew_Mutant(r) ==
  /\ At(r, "locked") /\ Owns(r)
  /\ barrier' = [barrier EXCEPT !.until = clock + MutationTtl]
  /\ req' = [req EXCEPT ![r].renewals = @ + 1]
  /\ UNCHANGED <<clock, stored, manual, cooldown, delivery, history>>

\* The barrier is renewed after the lock, the challenge and the message.
Renew(r) ==
  /\ At(r, "locked") /\ req[r].renewals < Renewals /\ Owns(r)
  /\ barrier' = [barrier EXCEPT !.until = clock + MutationTtl]
  /\ req' = [req EXCEPT ![r].renewals = @ + 1]
  /\ UNCHANGED <<clock, stored, manual, cooldown, delivery, history>>

\* The barrier is lost, or a call fails: everything is rolled back.
Rollback(r) ==
  /\ At(r, "locked")
  /\ userLock' = NoResend /\ Leave(r, "aborting") /\ Forget({r})
  /\ UNCHANGED <<clock, status, challenge, verified, redis, delivery, slipped>>

\* Challenge and message become visible; createdAt is the instant of arrival.
\* When the answer of the commit is lost the resend takes it for a failure.
Commit(r) ==
  /\ At(r, "locked") /\ req[r].renewals = Renewals
  /\ challenge' = [challenge EXCEPT ![r] = [st |-> "open", at |-> req[r].now]]
  /\ userLock' = NoResend
  /\ \/ /\ Leave(r, "committed")
        /\ slipped' = IF barrier.owner = r THEN slipped ELSE slipped \cup {r}
     \/ Leave(r, "aborting") /\ slipped' = slipped \cup {r}
  /\ Forget(slipped')
  /\ UNCHANGED <<clock, status, verified, redis, delivery>>

\* GetEmailVerificationResendStatusUseCase: LOAD prunes too.
ReadStatus ==
  /\ status = "PENDING"
  /\ manual' = Pruned(clock)
  /\ UNCHANGED <<clock, stored, cooldown, barrier, req, delivery, history>>

CompleteResend(r) ==
  /\ At(r, "committed")
  /\ Complete(r)
  /\ Leave(r, "done")
  /\ UNCHANGED <<clock, stored, delivery, history>>

\* ABORT compares the token before it deletes the key.
Abort(r) ==
  /\ At(r, "aborting")
  /\ barrier' = IF barrier.owner = r THEN NoBarrier ELSE barrier
  /\ Leave(r, "done")
  /\ UNCHANGED <<clock, stored, manual, cooldown, delivery, history>>

\* Redis does not answer (logged only), or the process dies.
GiveUp(r) ==
  /\ req[r].pc \in Phases \ {"idle", "done"}
  /\ Leave(r, "done")
  /\ userLock' = IF At(r, "locked") THEN NoResend ELSE userLock
  /\ slipped' = IF At(r, "committed") THEN slipped \cup {r} ELSE slipped
  /\ Forget({r})
  /\ UNCHANGED <<clock, status, challenge, verified, redis, delivery>>

-----------------------------------------------------------------------------
(* EnqueueEmailVerificationOnUserCreatedHandler *)

\* saveAutomaticIfAbsent: the partial unique index makes a second delivery use
\* the challenge of the first.  The handler does not look at the user again.
HandleUserCreated ==
  /\ delivery = "waiting"
  /\ challenge' = IF Sent(Automatic) THEN challenge
                  ELSE [challenge EXCEPT ![Automatic] = [st |-> "open", at |-> clock]]
  /\ delivery' = "committed"
  /\ UNCHANGED <<clock, status, userLock, verified, redis, req, history>>

CompleteAutomatic ==
  /\ delivery = "committed"
  /\ Complete(Automatic)
  /\ delivery' = "done"
  /\ UNCHANGED <<clock, stored, req, history>>

\* Redis does not answer (logged only).
CompleteAutomaticFails ==
  /\ delivery = "committed" /\ delivery' = "done"
  /\ UNCHANGED <<clock, stored, redis, req, history>>

\* The outbox delivers the event again after a failed enqueue or a crash.
Redeliver ==
  /\ delivery \in {"committed", "done"} /\ delivery' = "waiting"
  /\ UNCHANGED <<clock, stored, redis, req, history>>

-----------------------------------------------------------------------------
(* ConfirmEmailVerificationUseCase *)

\* Mutant: the user is read without waiting for its lock.
UserFree_Mutant == TRUE

UserFree == userLock = NoResend

\* findByTokenHashForUpdate and findByIdForUpdate: a confirmation that waits for
\* the user holds nothing but its own challenge.  A consumed or expired link
\* changes nothing, an ACTIVE user is not verified again.
LockConfirmed(c) ==
  /\ challenge[c].st = "open" /\ clock < ExpiresAt(c) /\ UserFree
  /\ userLock' = c
  /\ challenge' = [challenge EXCEPT ![c].st =
       IF status = "PENDING" THEN "verifying" ELSE "repeating"]
  /\ UNCHANGED <<clock, status, verified, redis, req, delivery, history>>

\* The user, its event and the consumed challenge are committed together.
CommitConfirmation(c) ==
  /\ challenge[c].st \in {"verifying", "repeating"}
  /\ challenge' = [challenge EXCEPT ![c].st = "consumed"]
  /\ status' = "ACTIVE"
  /\ verified' = IF challenge[c].st = "verifying" THEN verified + 1 ELSE verified
  /\ userLock' = NoResend
  /\ UNCHANGED <<clock, redis, req, delivery, history>>

ConfirmationFails(c) ==
  /\ challenge[c].st \in {"verifying", "repeating"}
  /\ challenge' = [challenge EXCEPT ![c].st = "open"]
  /\ userLock' = IF userLock = c THEN NoResend ELSE userLock
  /\ UNCHANGED <<clock, status, verified, redis, req, delivery, history>>

-----------------------------------------------------------------------------
\* Keys whose TTL has ended are gone.
Tick ==
  /\ clock < LastInstant
  /\ clock' = clock + 1
  /\ cooldown' = IF cooldown > clock' THEN cooldown ELSE 0
  /\ barrier' = IF barrier.until > clock' THEN barrier ELSE NoBarrier
  /\ slipped' = slipped \cup {r \in Resends : At(r, "committed") /\ barrier'.owner # r}
  /\ Forget(slipped')
  /\ UNCHANGED <<stored, manual, req, delivery>>

Resend(r) ==
  \/ Arrive(r) \/ BeginRefused(r) \/ Begin(r) \/ LockUser(r) \/ Renew(r)
  \/ Rollback(r) \/ Commit(r) \/ CompleteResend(r) \/ Abort(r) \/ GiveUp(r)

Confirm(c) ==
  LockConfirmed(c) \/ CommitConfirmation(c) \/ ConfirmationFails(c)

Handler ==
  \/ HandleUserCreated \/ CompleteAutomatic \/ CompleteAutomaticFails \/ Redeliver

Next ==
  \/ \E r \in Resends : Resend(r)
  \/ Handler
  \/ \E c \in Challenges : Confirm(c)
  \/ ReadStatus
  \/ Tick

Spec == Init /\ [][Next]_vars
-----------------------------------------------------------------------------
(* Properties *)

\* At no instant does the window that ends there hold more manual sends than
\* the limit, except those whose barrier lapsed, or whose COMPLETE failed,
\* between their commit and their count (BEGIN counts, COMPLETE adds, and only
\* the barrier joins the two).
SendsAreLimited ==
  LET Counted == {r \in Resends \ slipped : Sent(r)}
      InWindow(t) == {r \in Counted : began[r] <= t /\ t < challenge[r].at + Window}
  IN \A r \in Counted : Cardinality(InWindow(began[r])) <= Limit

\* A resend that began after another one was committed did not begin before
\* that one's cooldown was over; delays between the clock of the request and
\* the script do not shorten it.
SendsAreSpaced ==
  \A c, r \in Resends \ slipped :
    Sent(c) /\ Sent(r) /\ began[c] < began[r] =>
      began[r] >= challenge[c].at + Backoff(c, 1)

\* The user is verified once, however many links are confirmed at once: one
\* UserEmailVerifiedEvent, and with it one welcome e-mail.
VerifiedOnce == verified = IF status = "ACTIVE" THEN 1 ELSE 0

\* While the cooldown forbids another resend, some link that was sent can still
\* be used for the minimum time: the user is never left without a link.
CooldownLeavesALink ==
  cooldown > clock =>
    \E c \in Challenges : Sent(c) /\ cooldown + MinimumUsable <= ExpiresAt(c)

\* GET resend/status has an answer, and the one BEGIN would give, unless a send
\* is counted whose barrier lapsed before: with one send too many the parsers
\* refuse every reply until the oldest leaves the window.
StatusIsAnswered ==
  LET reply == Load(clock)
  IN /\ Pruned(clock) \cap slipped = {} => Parsed(reply)
     /\ reply.available <=> Available(clock)

\* After the announced wait nothing restricts a resend any more, unless other
\* requests came in between (or the limit was exceeded, see SendsAreLimited).
RetryAfterSuffices ==
  LET then == clock + RetryAfter(clock)
  IN Parsed(Load(clock)) =>
       /\ cooldown <= then /\ barrier.until <= then
       /\ Cardinality(Pruned(then)) < Limit
=============================================================================
