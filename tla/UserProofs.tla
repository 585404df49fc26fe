----------------------------- MODULE UserProofs -----------------------------
(***************************************************************************)
(* Part one, the verification of the e-mail: however resends, the handler   *)
(* of user.created and confirmations interleave, the user is verified once, *)
(* is never left without a usable link, and is not sent more than the limit *)
(* or before the cooldown.                                                 *)
(*                                                                         *)
(* Part two, the record of the user: what was committed under the row lock *)
(* survives the saves that read without it.                                *)
(***************************************************************************)
EXTENDS EmailVerification, FiniteSetTheorems, WellFoundedInduction, TLAPS

\* The record, its cache and the requests that save it.
CONSTANTS Requests, NoRequest, NoEntry
VARIABLES exists, row, rowLock, entry, saving, committed, versions, overwritten

Rec == INSTANCE UserRecord WITH req <- saving

-----------------------------------------------------------------------------
(* The policy *)

\* A set of n elements has 2^n subsets, which are two at least if n > 0.
LEMMA PowerOfTwo ==
  ASSUME NEW n \in Nat
  PROVE  2^n \in Nat /\ (n > 0 => 2^n >= 2)
<1> DEFINE S == 1 .. n
<1>1. IsFiniteSet(S) /\ Cardinality(S) = n
  BY FS_Interval
<1>2. IsFiniteSet(SUBSET S) /\ Cardinality(SUBSET S) = 2^n
  BY <1>1, FS_SUBSET
<1>3. 2^n \in Nat
  BY <1>2, FS_CardinalityType
<1>4. ASSUME n > 0 PROVE 2^n >= 2
  <2>1. IsFiniteSet({{}}) /\ Cardinality({{}}) = 1
    BY FS_Singleton
  <2>2. IsFiniteSet({{}} \cup {{1}}) /\ Cardinality({{}} \cup {{1}}) = 2
    <3> DEFINE U == {{}}
               x == {1}
    <3>1. x \notin U
      OBVIOUS
    <3>2. IsFiniteSet(U) /\ Cardinality(U) = 1
      BY <2>1
    <3> HIDE DEF U, x
    <3>3. IsFiniteSet(U \cup {x}) /\ Cardinality(U \cup {x}) = 2
      BY <3>1, <3>2, FS_AddElement
    <3> QED  BY <3>3 DEF U, x
  <2>3. ({{}} \cup {{1}}) \in SUBSET (SUBSET S)
    BY <1>4
  <2>4. Cardinality({{}} \cup {{1}}) <= Cardinality(SUBSET S)
    BY <1>2, <2>3, FS_Subset
  <2> QED  BY <1>2, <2>2, <2>4
<1> QED  BY <1>3, <1>4

\* A set of naturals has a least element.
LEMMA Least ==
  ASSUME NEW T, T \subseteq Nat, T # {}
  PROVE  \E x \in T : \A y \in T : x <= y
<1> DEFINE Below == {0 .. x : x \in T}
           R == StrictSubsetOrdering(Nat)
<1>1. IsWellFoundedOn(R, FiniteSubsetsOf(Nat))
  BY FS_StrictSubsetOrderingWellFounded
<1>2. Below # {} /\ Below \subseteq FiniteSubsetsOf(Nat)
  <2>1. \A x \in T : IsFiniteSet(0 .. x) /\ (0 .. x) \in SUBSET Nat
    BY FS_Interval
  <2> QED  BY <2>1 DEF FiniteSubsetsOf
<1> HIDE DEF R
<1>3. \E B \in Below : \A C \in Below : ~(<<C, B>> \in R)
  BY <1>1, <1>2, WFMin
<1>4. PICK x \in T : \A y \in T : ~(<<0 .. y, 0 .. x>> \in R)
  BY <1>3
<1>5. ASSUME NEW y \in T, y < x PROVE FALSE
  <2>1. (0 .. y) \subseteq (0 .. x) /\ x \in (0 .. x) /\ x \notin (0 .. y) /\ (0 .. x) \subseteq Nat
    BY <1>5
  <2>2. (0 .. y) # (0 .. x)
    BY <2>1
  <2>3. <<0 .. y, 0 .. x>> \in R
    BY <2>1, <2>2 DEF R, StrictSubsetOrdering
  <2> QED  BY <1>4, <2>3
<1> QED  BY <1>5

LEMMA Policy ==
  /\ LastInstant \in Nat \ {0} /\ Renewals \in Nat \ {0} /\ Limit \in Nat \ {0}
  /\ Window \in Nat \ {0} /\ InitialCooldown \in Nat \ {0} /\ MaxCooldown \in Nat \ {0}
  /\ MutationTtl \in Nat \ {0} /\ TokenTtl \in Nat \ {0} /\ MinimumUsable \in Nat \ {0}
  /\ InitialCooldown <= MaxCooldown /\ MaxCooldown + MinimumUsable <= TokenTtl
  /\ Automatic \notin Resends /\ NoResend \notin Resends /\ NoResend # Automatic
<1>1. MaxCooldown + MinimumUsable <= TokenTtl
  BY PolicyAssumption, TokenTtlAssumption
<1> QED  BY <1>1, PolicyAssumption, NamesAssumption DEF Challenges

\* The backoff never exceeds the maximum, and the first one is the shortest.
LEMMA BackoffBounds ==
  ASSUME NEW c, NEW n \in Nat
  PROVE  /\ Backoff(c, n) \in Nat /\ Backoff(c, n) <= MaxCooldown
         /\ n > 0 => Backoff(c, 1) <= Backoff(c, n)
<1> DEFINE p == 2^n
<1>1. p \in Nat /\ (n > 0 => p >= 2)
  BY PowerOfTwo
<1>2. 2^1 = 2
  OBVIOUS
<1> DEFINE d == InitialCooldown * p
           e == InitialCooldown * 2
<1>3. d \in Nat /\ e \in Nat /\ (n > 0 => e <= d)
  BY <1>1, Policy
<1>4. /\ Backoff(c, n) = IF c = Automatic THEN InitialCooldown
                         ELSE IF d <= MaxCooldown THEN d ELSE MaxCooldown
      /\ Backoff(c, 1) = IF c = Automatic THEN InitialCooldown
                         ELSE IF e <= MaxCooldown THEN e ELSE MaxCooldown
  BY <1>2 DEF Backoff
<1> HIDE DEF p, d, e
<1> QED  BY <1>3, <1>4, Policy

-----------------------------------------------------------------------------
(* The inductive invariants *)

\* What each resend may rely on.
Progress(r) ==
  /\ req[r].pc \in {"idle", "arrived", "acquired", "locked"} => ~Sent(r)
  /\ req[r].pc = "committed" => Sent(r)
  /\ req[r].pc = "locked" => userLock = r

\* What each link under confirmation relies on.
Confirming(c) ==
  /\ challenge[c].st \in {"verifying", "repeating"} => userLock = c
  /\ challenge[c].st = "verifying" => status = "PENDING"
  /\ challenge[c].st = "repeating" => status = "ACTIVE"

LinkInv ==
  /\ TypeOK /\ IsFiniteSet(manual)
  /\ \A r \in Resends : Progress(r)
  /\ \A c \in Challenges : Confirming(c)
  /\ (delivery = "committed" => Sent(Automatic))
  /\ VerifiedOnce /\ CooldownLeavesALink

\* The barrier joins the count of BEGIN to the commit: whose it is has begun
\* last, and its key exists.
Holds(r) == barrier.owner = r /\ req[r].pc \in {"acquired", "locked"}

BarrierOK ==
  /\ barrier.owner # NoResend => barrier.until > clock
  /\ \A r \in Resends : Holds(r) => \A s \in Resends : began[s] <= began[r]

\* A resend that counts, or will if its barrier lasts, and from when.
Weighs(r) == r \notin slipped /\ (Sent(r) \/ Holds(r))
Stamp(r) == IF Sent(r) THEN challenge[r].at ELSE req[r].now
Weighing(t) == {r \in Resends : Weighs(r) /\ began[r] <= t /\ t < Stamp(r) + Window}

\* COMPLETE has counted the resend and started its cooldown.
Remembered(r) ==
  LET until == challenge[r].at + Backoff(r, 1)
  IN /\ (r \in manual \/ challenge[r].at + Window <= clock)
     /\ (until <= cooldown \/ until <= clock)

\* From the start of a resend until COMPLETE has counted it and its cooldown.
Counting(r) ==
  /\ began[r] <= clock
  /\ req[r].pc \in {"arrived", "acquired", "locked"} => req[r].now <= clock
  /\ Sent(r) => challenge[r].at <= clock
  /\ r \in manual \cup slipped => Sent(r)
  /\ Sent(r) /\ r \notin slipped =>
       \/ req[r].pc = "committed" /\ barrier.owner = r
       \/ req[r].pc = "done" /\ Remembered(r)

Limited == \A t \in Nat : IsFiniteSet(Weighing(t)) /\ Cardinality(Weighing(t)) <= Limit

Spaced ==
  \A c, r \in Resends :
    Sent(c) /\ c \notin slipped /\ Weighs(r) /\ began[c] < began[r] =>
      began[r] >= challenge[c].at + Backoff(c, 1)

SendInv ==
  /\ BarrierOK
  /\ \A r \in Resends : Counting(r)
  /\ Limited /\ Spaced

-----------------------------------------------------------------------------
(* Types, links and the cooldown *)

\* A request after the step of its resend is a request.
LEMMA Stepped ==
  ASSUME TypeOK, NEW r \in Resends, NEW phase \in Phases
  PROVE  /\ Goto(r, phase) => req' \in [Resends -> Request]
         /\ Leave(r, phase) => req' \in [Resends -> Request]
<1>1. req[r] \in Request /\ 0 \in 0 .. Renewals
  BY Policy DEF TypeOK
<1>2. [req[r] EXCEPT !.pc = phase] \in Request
  BY <1>1 DEF Request
<1>3. [pc |-> phase, now |-> 0, renewals |-> 0] \in Request
  BY <1>1 DEF Request
<1>4. Goto(r, phase) => req' = [req EXCEPT ![r] = [req[r] EXCEPT !.pc = phase]]
  BY DEF Goto, TypeOK
<1> QED  BY <1>2, <1>3, <1>4 DEF Leave, TypeOK

LEMMA PrunedSubset ==
  ASSUME IsFiniteSet(manual), NEW now
  PROVE  Pruned(now) \subseteq manual /\ IsFiniteSet(Pruned(now))
                                      /\ Cardinality(Pruned(now)) \in Nat
<1>1. Pruned(now) \subseteq manual
  BY DEF Pruned
<1> QED  BY <1>1, FS_Subset, FS_CardinalityType

\* What COMPLETE leaves, in terms of the send it completes.
LEMMA Completed ==
  ASSUME TypeOK, IsFiniteSet(manual), NEW c \in Challenges, Complete(c)
  PROVE  /\ manual' \subseteq Resends /\ IsFiniteSet(manual')
         /\ cooldown' \in Nat
         /\ barrier' \in [owner : Resends \cup {NoResend}, until : Nat]
         /\ cooldown' > clock =>
              cooldown' = cooldown \/ cooldown' <= challenge[c].at + MaxCooldown
         /\ cooldown <= cooldown' \/ cooldown <= clock
         /\ LET until == challenge[c].at + Backoff(c, 1)
            IN c \in Resends => (until <= cooldown' \/ until <= clock)
<1> DEFINE one == {c} \cap Resends
           P == Pruned(clock)
           n == Cardinality(manual')
<1>1. manual' = P \cup one /\ P \subseteq Resends /\ IsFiniteSet(P)
  BY PrunedSubset DEF Complete, TypeOK
<1>2. IsFiniteSet(one)
  <2>1. IsFiniteSet({c})
    BY FS_Singleton
  <2> QED  BY <2>1, FS_Subset
<1>3. IsFiniteSet(manual') /\ manual' \subseteq Resends
  BY <1>1, <1>2, FS_Union
<1>4. n \in Nat /\ (c \in Resends => n > 0)
  <2>1. n \in Nat /\ (n = 0 <=> manual' = {})
    BY <1>3, FS_CardinalityType, FS_EmptySet
  <2> QED  BY <1>1, <2>1
<1> DEFINE b == Backoff(c, n)
           a == challenge[c].at
<1>5. b \in Nat /\ b <= MaxCooldown /\ (n > 0 => Backoff(c, 1) <= b) /\ Backoff(c, 1) \in Nat
  BY <1>4, BackoffBounds
<1>6. a \in Nat /\ cooldown \in Nat /\ clock \in Nat
  BY DEF TypeOK, Challenge
<1>7. cooldown' = IF Later(cooldown, a + b) > clock THEN Later(cooldown, a + b) ELSE 0
  BY DEF Complete
<1>8. barrier' \in [owner : Resends \cup {NoResend}, until : Nat]
  BY DEF Complete, TypeOK, NoBarrier
<1> HIDE DEF one, P, n, b, a
<1>9. Later(cooldown, a + b) = IF cooldown >= a + b THEN cooldown ELSE a + b
  BY DEF Later
<1>10. MaxCooldown \in Nat
  BY Policy
<1>11. cooldown' \in Nat
  BY <1>5, <1>6, <1>7, <1>9
<1>12. cooldown' > clock => cooldown' = cooldown \/ cooldown' <= a + MaxCooldown
  BY <1>5, <1>6, <1>7, <1>9, <1>10
<1>13. cooldown <= cooldown' \/ cooldown <= clock
  BY <1>5, <1>6, <1>7, <1>9
<1>14. c \in Resends => (a + Backoff(c, 1) <= cooldown' \/ a + Backoff(c, 1) <= clock)
  BY <1>4, <1>5, <1>6, <1>7, <1>9
<1> QED  BY <1>3, <1>8, <1>11, <1>12, <1>13, <1>14 DEF a

\* The types are preserved.
LEMMA TypeStep ==
  ASSUME TypeOK, IsFiniteSet(manual), [Next]_vars
  PROVE  TypeOK' /\ IsFiniteSet(manual')
<1>1. ASSUME NEW r \in Resends, Resend(r) PROVE TypeOK' /\ IsFiniteSet(manual')
  <2>1. CASE Arrive(r)
    <3> DEFINE q == [req[r] EXCEPT !.pc = "arrived", !.now = clock]
    <3>1. req[r] \in Request /\ clock \in Nat
      BY DEF TypeOK
    <3>2. q \in Request
      BY <3>1 DEF Request, Phases
    <3>3. req' = [req EXCEPT ![r] = q]
      BY <2>1 DEF Arrive, TypeOK
    <3> HIDE DEF q
    <3>4. req' \in [Resends -> Request]
      BY <3>2, <3>3 DEF TypeOK
    <3> QED  BY <2>1, <3>4 DEF Arrive, TypeOK, stored, redis, history
  <2>2. CASE BeginRefused(r)
    <3>1. manual' \subseteq manual /\ IsFiniteSet(manual')
      BY <2>2, PrunedSubset DEF BeginRefused
    <3>2. req' \in [Resends -> Request]
      BY <2>2, Stepped DEF BeginRefused, Phases
    <3> QED  BY <2>2, <3>1, <3>2 DEF BeginRefused, TypeOK, stored, history
  <2>3. CASE Begin(r)
    <3>1. manual' \subseteq manual /\ IsFiniteSet(manual')
      BY <2>3, PrunedSubset DEF Begin
    <3>2. req' \in [Resends -> Request]
      BY <2>3, Stepped DEF Begin, Phases
    <3>3. barrier' \in [owner : Resends \cup {NoResend}, until : Nat]
      BY <2>3, Policy DEF Begin, TypeOK
    <3>4. began' \in [Resends -> Nat]
      BY <2>3 DEF Begin, TypeOK
    <3> QED  BY <2>3, <3>1, <3>2, <3>3, <3>4 DEF Begin, TypeOK, stored
  <2>4. CASE LockUser(r)
    <3>1. req' \in [Resends -> Request]
      BY <2>4, Stepped DEF LockUser, Phases
    <3>2. userLock' \in Challenges \cup {NoResend}
      BY <2>4 DEF LockUser, TypeOK, Challenges
    <3>3. began' \in [Resends -> Nat]
      BY <2>4 DEF LockUser, TypeOK, Forget
    <3> QED  BY <2>4, <3>1, <3>2, <3>3 DEF LockUser, TypeOK, redis
  <2>5. CASE Renew(r)
    <3> DEFINE q == [req[r] EXCEPT !.renewals = @ + 1]
    <3>1. req[r] \in Request /\ req[r].renewals < Renewals /\ Renewals \in Nat
      BY <2>5, Policy DEF TypeOK, Renew
    <3>2. q \in Request
      BY <3>1 DEF Request
    <3>3. req' = [req EXCEPT ![r] = q]
      BY <2>5 DEF Renew, TypeOK
    <3> HIDE DEF q
    <3>4. req' \in [Resends -> Request]
      BY <3>2, <3>3 DEF TypeOK
    <3>5. barrier' \in [owner : Resends \cup {NoResend}, until : Nat]
      BY <2>5, Policy DEF Renew, TypeOK
    <3> QED  BY <2>5, <3>4, <3>5 DEF Renew, TypeOK, stored, history
  <2>6. CASE Rollback(r)
    <3>1. req' \in [Resends -> Request]
      BY <2>6, Stepped DEF Rollback, Phases
    <3>2. began' \in [Resends -> Nat]
      BY <2>6 DEF Rollback, TypeOK, Forget
    <3> QED  BY <2>6, <3>1, <3>2 DEF Rollback, TypeOK, redis
  <2>7. CASE Commit(r)
    <3>1. req' \in [Resends -> Request]
      BY <2>7, Stepped DEF Commit, Phases
    <3>2. began' \in [Resends -> Nat]
      BY <2>7 DEF Commit, TypeOK, Forget
    <3>3. challenge' \in [Challenges -> Challenge]
      <4>1. req[r].now \in Nat
        BY DEF TypeOK, Request
      <4>2. [st |-> "open", at |-> req[r].now] \in Challenge
        BY <4>1 DEF Challenge
      <4> QED  BY <2>7, <4>2 DEF Commit, TypeOK
    <3>4. slipped' \subseteq Resends
      BY <2>7 DEF Commit, TypeOK
    <3> QED  BY <2>7, <3>1, <3>2, <3>3, <3>4 DEF Commit, TypeOK, redis
  <2>8. CASE CompleteResend(r)
    <3>1. req' \in [Resends -> Request]
      BY <2>8, Stepped DEF CompleteResend, Phases
    <3>2. /\ manual' \subseteq Resends /\ IsFiniteSet(manual') /\ cooldown' \in Nat
          /\ barrier' \in [owner : Resends \cup {NoResend}, until : Nat]
      <4>1. r \in Challenges /\ Complete(r)
        BY <2>8 DEF CompleteResend, Challenges
      <4> QED  BY <4>1, Completed
    <3> QED  BY <2>8, <3>1, <3>2 DEF CompleteResend, TypeOK, stored, history
  <2>9. CASE Abort(r)
    <3>1. req' \in [Resends -> Request]
      BY <2>9, Stepped DEF Abort, Phases
    <3>2. barrier' \in [owner : Resends \cup {NoResend}, until : Nat]
      BY <2>9 DEF Abort, TypeOK, NoBarrier
    <3> QED  BY <2>9, <3>1, <3>2 DEF Abort, TypeOK, stored, history
  <2>10. CASE GiveUp(r)
    <3>1. req' \in [Resends -> Request]
      BY <2>10, Stepped DEF GiveUp, Phases
    <3>2. began' \in [Resends -> Nat]
      BY <2>10 DEF GiveUp, TypeOK, Forget
    <3>3. userLock' \in Challenges \cup {NoResend} /\ slipped' \subseteq Resends
      BY <2>10 DEF GiveUp, TypeOK
    <3> QED  BY <2>10, <3>1, <3>2, <3>3 DEF GiveUp, TypeOK, redis
  <2> QED  BY <1>1, <2>1, <2>2, <2>3, <2>4, <2>5, <2>6, <2>7, <2>8, <2>9, <2>10 DEF Resend
<1>2. CASE HandleUserCreated
  <2>1. challenge' \in [Challenges -> Challenge]
    <3>1. [st |-> "open", at |-> clock] \in Challenge
      BY DEF Challenge, TypeOK
    <3> QED  BY <1>2, <3>1 DEF HandleUserCreated, TypeOK
  <2> QED  BY <1>2, <2>1 DEF HandleUserCreated, TypeOK, redis, history
<1>3. CASE CompleteAutomatic
  <2>1. /\ manual' \subseteq Resends /\ IsFiniteSet(manual') /\ cooldown' \in Nat
        /\ barrier' \in [owner : Resends \cup {NoResend}, until : Nat]
    <3>1. Automatic \in Challenges /\ Complete(Automatic)
      BY <1>3 DEF CompleteAutomatic, Challenges
    <3> QED  BY <3>1, Completed
  <2> QED  BY <1>3, <2>1 DEF CompleteAutomatic, TypeOK, stored, history
<1>4. CASE CompleteAutomaticFails
  BY <1>4 DEF CompleteAutomaticFails, TypeOK, stored, redis, history
<1>5. CASE Redeliver
  BY <1>5 DEF Redeliver, TypeOK, stored, redis, history
<1>6. ASSUME NEW c \in Challenges, Confirm(c) PROVE TypeOK' /\ IsFiniteSet(manual')
  <2>1. challenge[c] \in Challenge
    BY DEF TypeOK
  <2>2. CASE LockConfirmed(c)
    <3> DEFINE q == [challenge[c] EXCEPT !.st =
                       IF status = "PENDING" THEN "verifying" ELSE "repeating"]
    <3>1. q \in Challenge
      BY <2>1 DEF Challenge
    <3>2. challenge' = [challenge EXCEPT ![c] = q]
      BY <2>2 DEF LockConfirmed, TypeOK
    <3> HIDE DEF q
    <3>3. challenge' \in [Challenges -> Challenge]
      BY <3>1, <3>2 DEF TypeOK
    <3> QED  BY <2>2, <3>3 DEF LockConfirmed, TypeOK, redis, history
  <2>3. CASE CommitConfirmation(c)
    <3> DEFINE q == [challenge[c] EXCEPT !.st = "consumed"]
    <3>1. q \in Challenge
      BY <2>1 DEF Challenge
    <3>2. challenge' = [challenge EXCEPT ![c] = q]
      BY <2>3 DEF CommitConfirmation, TypeOK
    <3> HIDE DEF q
    <3>3. challenge' \in [Challenges -> Challenge]
      BY <3>1, <3>2 DEF TypeOK
    <3>4. verified' \in Nat
      BY <2>3 DEF CommitConfirmation, TypeOK
    <3> QED  BY <2>3, <3>3, <3>4 DEF CommitConfirmation, TypeOK, redis, history
  <2>4. CASE ConfirmationFails(c)
    <3> DEFINE q == [challenge[c] EXCEPT !.st = "open"]
    <3>1. q \in Challenge
      BY <2>1 DEF Challenge
    <3>2. challenge' = [challenge EXCEPT ![c] = q]
      BY <2>4 DEF ConfirmationFails, TypeOK
    <3> HIDE DEF q
    <3>3. challenge' \in [Challenges -> Challenge]
      BY <3>1, <3>2 DEF TypeOK
    <3> QED  BY <2>4, <3>3 DEF ConfirmationFails, TypeOK, redis, history
  <2> QED  BY <1>6, <2>2, <2>3, <2>4 DEF Confirm
<1>7. CASE ReadStatus
  <2>1. manual' \subseteq manual /\ IsFiniteSet(manual')
    BY <1>7, PrunedSubset DEF ReadStatus
  <2> QED  BY <1>7, <2>1 DEF ReadStatus, TypeOK, stored, history
<1>8. CASE Tick
  <2>1. clock' \in Nat /\ cooldown' \in Nat
    BY <1>8 DEF Tick, TypeOK
  <2>2. barrier' \in [owner : Resends \cup {NoResend}, until : Nat]
    BY <1>8 DEF Tick, TypeOK, NoBarrier
  <2>3. slipped' \subseteq Resends /\ began' \in [Resends -> Nat]
    BY <1>8 DEF Tick, TypeOK, Forget
  <2> QED  BY <1>8, <2>1, <2>2, <2>3 DEF Tick, TypeOK, stored
<1>9. CASE UNCHANGED vars
  BY <1>9 DEF vars, TypeOK, stored, redis, history
<1> QED  BY <1>1, <1>2, <1>3, <1>4, <1>5, <1>6, <1>7, <1>8, <1>9 DEF Next, Handler

\* A resend's step changes its own request only.
LEMMA OwnRequest ==
  ASSUME TypeOK, NEW r \in Resends, NEW phase \in Phases
  PROVE  /\ Goto(r, phase) => /\ req'[r].pc = phase /\ req'[r].now = req[r].now
                              /\ \A s \in Resends \ {r} : req'[s] = req[s]
         /\ Leave(r, phase) => /\ req'[r].pc = phase
                               /\ \A s \in Resends \ {r} : req'[s] = req[s]
<1>1. req[r] \in Request
  BY DEF TypeOK
<1> QED  BY <1>1 DEF Goto, Leave, TypeOK, Request

\* Steps of a resend that leave the database alone.
LEMMA ProgressStored ==
  ASSUME LinkInv, NEW r \in Resends, UNCHANGED stored,
         \A s \in Resends \ {r} : req'[s] = req[s],
         \/ req[r].pc = "idle" /\ req'[r].pc = "arrived"
         \/ req[r].pc = "arrived" /\ req'[r].pc = "acquired"
         \/ req[r].pc = "locked" /\ req'[r].pc = "locked"
         \/ req'[r].pc = "done"
  PROVE  \A s \in Resends : Progress(s)'
<1>1. UNCHANGED <<challenge, userLock>>
  BY DEF stored
<1>2. Progress(r)'
  BY <1>1 DEF LinkInv, Progress, Sent
<1>3. ASSUME NEW s \in Resends \ {r} PROVE Progress(s)'
  BY <1>1, <1>3 DEF LinkInv, Progress, Sent
<1> QED  BY <1>2, <1>3

\* No step takes a link back or changes the instant of its creation.
LEMMA LinksStay ==
  ASSUME LinkInv, [Next]_vars, NEW c \in Challenges, Sent(c)
  PROVE  Sent(c)' /\ challenge'[c].at = challenge[c].at
<1>1. ASSUME NEW r \in Resends, Resend(r) PROVE Sent(c)' /\ challenge'[c].at = challenge[c].at
  <2>1. CASE Commit(r)
    <3>1. c # r
      BY <2>1 DEF LinkInv, Progress, Commit, At
    <3>2. challenge'[c] = challenge[c]
      BY <2>1, <3>1 DEF Commit, LinkInv, TypeOK
    <3> QED  BY <3>2 DEF Sent
  <2>2. CASE ~Commit(r)
    <3>1. challenge' = challenge
      BY <1>1, <2>2 DEF Resend, Arrive, BeginRefused, Begin, LockUser, Renew, Rollback,
           CompleteResend, Abort, GiveUp, stored
    <3> QED  BY <3>1 DEF Sent
  <2> QED  BY <2>1, <2>2
<1>2. CASE HandleUserCreated
  <2>1. challenge'[c] = challenge[c]
    BY <1>2 DEF HandleUserCreated, LinkInv, TypeOK
  <2> QED  BY <2>1 DEF Sent
<1>3. CASE CompleteAutomatic
  BY <1>3 DEF CompleteAutomatic, stored, Sent
<1>4. CASE CompleteAutomaticFails
  BY <1>4 DEF CompleteAutomaticFails, stored, Sent
<1>5. CASE Redeliver
  BY <1>5 DEF Redeliver, stored, Sent
<1>6. ASSUME NEW d \in Challenges, Confirm(d)
      PROVE  Sent(c)' /\ challenge'[c].at = challenge[c].at
  <2> DEFINE q(st) == [challenge[d] EXCEPT !.st = st]
  <2>1. challenge[d] \in Challenge /\ challenge \in [Challenges -> Challenge]
    BY DEF LinkInv, TypeOK
  <2>2. \E st \in {"verifying", "repeating", "consumed", "open"} :
          challenge' = [challenge EXCEPT ![d] = q(st)]
    BY <1>6, <2>1 DEF Confirm, LockConfirmed, CommitConfirmation, ConfirmationFails
  <2>3. PICK st \in {"verifying", "repeating", "consumed", "open"} :
          challenge' = [challenge EXCEPT ![d] = q(st)]
    BY <2>2
  <2>4. q(st).st = st /\ q(st).at = challenge[d].at
    BY <2>1 DEF Challenge
  <2> HIDE DEF q
  <2>5. CASE c = d
    BY <2>1, <2>3, <2>4, <2>5 DEF Sent
  <2>6. CASE c # d
    <3>1. challenge'[c] = challenge[c]
      BY <2>1, <2>3, <2>6
    <3> QED  BY <3>1 DEF Sent
  <2> QED  BY <2>5, <2>6
<1>7. CASE ReadStatus
  BY <1>7 DEF ReadStatus, stored, Sent
<1>8. CASE Tick
  BY <1>8 DEF Tick, stored, Sent
<1>9. CASE UNCHANGED vars
  BY <1>9 DEF vars, stored, Sent
<1> QED  BY <1>1, <1>2, <1>3, <1>4, <1>5, <1>6, <1>7, <1>8, <1>9 DEF Next, Handler

\* A cooldown is an older one, or one that a send started.
LEMMA CooldownSource ==
  ASSUME LinkInv, [Next]_vars, cooldown' > clock'
  PROVE  \/ cooldown' = cooldown /\ cooldown > clock
         \/ \E c \in Challenges : Sent(c) /\ cooldown' <= challenge[c].at + MaxCooldown
<1>0. clock \in Nat /\ cooldown \in Nat
  BY DEF LinkInv, TypeOK
<1>1. ASSUME UNCHANGED <<clock, cooldown>> PROVE cooldown' = cooldown /\ cooldown > clock
  BY <1>1
<1>2. ASSUME NEW c \in Challenges, Sent(c), Complete(c), clock' = clock
      PROVE  \/ cooldown' = cooldown /\ cooldown > clock
             \/ \E d \in Challenges : Sent(d) /\ cooldown' <= challenge[d].at + MaxCooldown
  <2>1. cooldown' = cooldown \/ cooldown' <= challenge[c].at + MaxCooldown
    BY <1>2, Completed DEF LinkInv
  <2> QED  BY <1>2, <2>1
<1>3. ASSUME NEW r \in Resends, Resend(r)
      PROVE  UNCHANGED <<clock, cooldown>> \/ (Sent(r) /\ Complete(r) /\ clock' = clock)
  <2>1. CASE CompleteResend(r)
    BY <2>1 DEF CompleteResend, LinkInv, Progress, At
  <2>2. CASE ~CompleteResend(r)
    BY <1>3, <2>2 DEF Resend, Arrive, BeginRefused, Begin, LockUser, Renew, Rollback,
         Commit, Abort, GiveUp, redis
  <2> QED  BY <2>1, <2>2
<1>4. CASE HandleUserCreated
  BY <1>1, <1>4 DEF HandleUserCreated, redis
<1>5. CASE CompleteAutomatic
  BY <1>2, <1>5 DEF CompleteAutomatic, LinkInv, Challenges
<1>6. CASE CompleteAutomaticFails
  BY <1>1, <1>6 DEF CompleteAutomaticFails, redis
<1>7. CASE Redeliver
  BY <1>1, <1>7 DEF Redeliver, redis
<1>8. ASSUME NEW c \in Challenges, Confirm(c) PROVE UNCHANGED <<clock, cooldown>>
  BY <1>8 DEF Confirm, LockConfirmed, CommitConfirmation, ConfirmationFails, redis
<1>9. CASE ReadStatus
  BY <1>1, <1>9 DEF ReadStatus
<1>10. CASE Tick
  <2>1. clock' = clock + 1 /\ cooldown' = IF cooldown > clock' THEN cooldown ELSE 0
    BY <1>10 DEF Tick
  <2> QED  BY <1>0, <2>1
<1>11. CASE UNCHANGED vars
  BY <1>1, <1>11 DEF vars, redis
<1> QED
  <2>1. ASSUME NEW r \in Resends, Resend(r)
        PROVE  \/ cooldown' = cooldown /\ cooldown > clock
               \/ \E d \in Challenges : Sent(d) /\ cooldown' <= challenge[d].at + MaxCooldown
    BY <1>1, <1>2, <1>3, <2>1 DEF Challenges
  <2> QED  BY <1>1, <2>1, <1>4, <1>5, <1>6, <1>7, <1>8, <1>9, <1>10, <1>11 DEF Next, Handler

LEMMA CooldownStep ==
  ASSUME LinkInv, [Next]_vars
  PROVE  CooldownLeavesALink'
<1> SUFFICES ASSUME cooldown' > clock'
             PROVE  \E c \in Challenges : Sent(c)' /\ cooldown' + MinimumUsable <= ExpiresAt(c)'
  BY DEF CooldownLeavesALink
<1>1. cooldown' \in Nat /\ \A c \in Challenges : challenge[c].at \in Nat
  BY TypeStep DEF LinkInv, TypeOK, Challenge
<1>2. \E c \in Challenges : Sent(c) /\ cooldown' + MinimumUsable <= challenge[c].at + TokenTtl
  <2>1. CASE cooldown' = cooldown /\ cooldown > clock
    BY <2>1 DEF LinkInv, CooldownLeavesALink, ExpiresAt
  <2>2. ASSUME NEW c \in Challenges, Sent(c), cooldown' <= challenge[c].at + MaxCooldown
        PROVE  cooldown' + MinimumUsable <= challenge[c].at + TokenTtl
    BY <1>1, <2>2, Policy
  <2> QED  BY <2>1, <2>2, CooldownSource
<1>3. PICK c \in Challenges : Sent(c) /\ cooldown' + MinimumUsable <= challenge[c].at + TokenTtl
  BY <1>2
<1>4. Sent(c)' /\ challenge'[c].at = challenge[c].at
  BY <1>3, LinksStay
<1> QED  BY <1>3, <1>4 DEF ExpiresAt

\* What each resend and each link relies on is preserved.
LEMMA ProgressStep ==
  ASSUME LinkInv, [Next]_vars
  PROVE  /\ \A s \in Resends : Progress(s)'
         /\ \A c \in Challenges : Confirming(c)'
         /\ VerifiedOnce'
         /\ (delivery = "committed" => Sent(Automatic))'
<1> DEFINE Goal == /\ \A s \in Resends : Progress(s)'
                   /\ \A c \in Challenges : Confirming(c)'
                   /\ VerifiedOnce'
                   /\ (delivery = "committed" => Sent(Automatic))'
<1>0. /\ TypeOK /\ \A s \in Resends : Progress(s)
      /\ \A c \in Challenges : Confirming(c)
      /\ (delivery = "committed" => Sent(Automatic)) /\ VerifiedOnce
      /\ \A s \in Resends : s \in Challenges /\ s # NoResend /\ s # Automatic
      /\ NoResend \notin Challenges /\ Automatic \in Challenges
      /\ challenge \in [Challenges -> Challenge] /\ req \in [Resends -> Request]
  BY NamesAssumption DEF LinkInv, Challenges, TypeOK
<1>a. ASSUME UNCHANGED stored
      PROVE  (\A c \in Challenges : Confirming(c)') /\ VerifiedOnce'
             /\ (UNCHANGED delivery => (delivery = "committed" => Sent(Automatic))')
  BY <1>0, <1>a DEF stored, Confirming, VerifiedOnce, Sent
<1>1. ASSUME NEW r \in Resends, Resend(r) PROVE Goal
  <2>1. CASE Arrive(r) \/ BeginRefused(r) \/ Begin(r) \/ Renew(r) \/ CompleteResend(r) \/ Abort(r)
    <3>1. UNCHANGED stored /\ UNCHANGED delivery
      BY <2>1 DEF Arrive, BeginRefused, Begin, Renew, CompleteResend, Abort
    <3>2. /\ \A s \in Resends \ {r} : req'[s] = req[s]
          /\ \/ req[r].pc = "idle" /\ req'[r].pc = "arrived"
             \/ req[r].pc = "arrived" /\ req'[r].pc = "acquired"
             \/ req[r].pc = "locked" /\ req'[r].pc = "locked"
             \/ req'[r].pc = "done"
      <4>0. req[r] \in Request
        BY <1>0
      <4>1. CASE Arrive(r)
        BY <1>0, <4>0, <4>1 DEF Arrive, At, Request
      <4>2. CASE BeginRefused(r)
        BY <1>0, <4>2, OwnRequest DEF BeginRefused, Phases
      <4>3. CASE Begin(r)
        BY <1>0, <4>3, OwnRequest DEF Begin, Phases, At
      <4>4. CASE Renew(r)
        BY <1>0, <4>0, <4>4 DEF Renew, At, Request
      <4>5. CASE CompleteResend(r)
        BY <1>0, <4>5, OwnRequest DEF CompleteResend, Phases
      <4>6. CASE Abort(r)
        BY <1>0, <4>6, OwnRequest DEF Abort, Phases
      <4> QED  BY <2>1, <4>1, <4>2, <4>3, <4>4, <4>5, <4>6
    <3>3. \A s \in Resends : Progress(s)'
      BY <3>1, <3>2, ProgressStored
    <3> QED  BY <1>a, <3>1, <3>3
  <2>2. CASE LockUser(r)
    <3>1. UNCHANGED <<challenge, status, verified, delivery>> /\ userLock = NoResend
      BY <2>2 DEF LockUser
    <3>2. CASE status = "PENDING"
      <4>1. /\ userLock' = r /\ req'[r].pc = "locked" /\ req[r].pc = "acquired"
            /\ \A s \in Resends \ {r} : req'[s] = req[s]
        BY <1>0, <2>2, <3>2, OwnRequest DEF LockUser, Phases, At
      <4>2. \A s \in Resends : Progress(s)'
        BY <1>0, <3>1, <4>1 DEF Progress, Sent
      <4>3. \A c \in Challenges : Confirming(c)'
        BY <1>0, <3>1, <4>1 DEF Confirming
      <4> QED  BY <1>0, <3>1, <4>2, <4>3 DEF VerifiedOnce, Sent
    <3>3. CASE status # "PENDING"
      <4>1. /\ userLock' = userLock /\ req'[r].pc = "aborting"
            /\ \A s \in Resends \ {r} : req'[s] = req[s]
        BY <1>0, <2>2, <3>3, OwnRequest DEF LockUser, Phases
      <4>2. \A s \in Resends : Progress(s)'
        BY <1>0, <3>1, <4>1 DEF Progress, Sent
      <4> QED  BY <1>a, <3>1, <4>1, <4>2 DEF stored
    <3> QED  BY <3>2, <3>3
  <2>3. CASE Rollback(r)
    <3>1. /\ UNCHANGED <<challenge, status, verified, delivery>> /\ userLock = r /\ ~Sent(r)
          /\ userLock' = NoResend /\ req'[r].pc = "aborting"
          /\ \A s \in Resends \ {r} : req'[s] = req[s]
      BY <1>0, <2>3, OwnRequest DEF Rollback, Phases, At, Progress
    <3>2. \A s \in Resends : Progress(s)'
      BY <1>0, <3>1 DEF Progress, Sent
    <3>3. \A c \in Challenges : Confirming(c)'
      BY <1>0, <3>1 DEF Confirming, Sent
    <3> QED  BY <1>0, <3>1, <3>2, <3>3 DEF VerifiedOnce, Sent
  <2>4. CASE Commit(r)
    <3>1. /\ UNCHANGED <<status, verified, delivery>> /\ userLock = r /\ ~Sent(r)
          /\ userLock' = NoResend /\ req'[r].pc \in {"aborting", "committed"}
          /\ \A s \in Resends \ {r} : req'[s] = req[s]
      BY <1>0, <2>4, OwnRequest DEF Commit, Phases, At, Progress
    <3>2. /\ challenge'[r].st = "open"
          /\ \A c \in Challenges \ {r} : challenge'[c] = challenge[c]
      BY <1>0, <2>4 DEF Commit
    <3>3. Progress(r)'
      BY <3>1, <3>2 DEF Progress, Sent
    <3>4. ASSUME NEW s \in Resends \ {r} PROVE Progress(s)'
      BY <1>0, <3>1, <3>2, <3>4 DEF Progress, Sent
    <3>5. \A c \in Challenges : Confirming(c)'
      BY <1>0, <3>1, <3>2 DEF Confirming, Sent
    <3>6. (delivery = "committed" => Sent(Automatic))'
      BY <1>0, <3>1, <3>2 DEF Sent
    <3> QED  BY <1>0, <3>1, <3>3, <3>4, <3>5, <3>6 DEF VerifiedOnce
  <2>5. CASE GiveUp(r)
    <3>1. /\ UNCHANGED <<challenge, status, verified, delivery>>
          /\ userLock' = (IF req[r].pc = "locked" THEN NoResend ELSE userLock)
          /\ req[r].pc = "locked" => userLock = r /\ ~Sent(r)
          /\ req'[r].pc = "done" /\ \A s \in Resends \ {r} : req'[s] = req[s]
      BY <1>0, <2>5, OwnRequest DEF GiveUp, Phases, At, Progress
    <3>2. \A s \in Resends : Progress(s)'
      BY <1>0, <3>1 DEF Progress, Sent
    <3>3. \A c \in Challenges : Confirming(c)'
      BY <1>0, <3>1 DEF Confirming, Sent
    <3> QED  BY <1>0, <3>1, <3>2, <3>3 DEF VerifiedOnce, Sent
  <2> QED  BY <1>1, <2>1, <2>2, <2>3, <2>4, <2>5 DEF Resend
<1>b. ASSUME UNCHANGED stored, UNCHANGED req PROVE \A s \in Resends : Progress(s)'
  BY <1>0, <1>b DEF stored, Progress, Sent
<1>2. CASE HandleUserCreated
  <2>1. UNCHANGED <<status, userLock, verified, req>>
    BY <1>2 DEF HandleUserCreated
  <2>2. /\ \A c \in Challenges \ {Automatic} : challenge'[c] = challenge[c]
        /\ challenge'[Automatic] = challenge[Automatic] \/ challenge'[Automatic].st = "open"
        /\ challenge'[Automatic].st # "none"
    BY <1>0, <1>2 DEF HandleUserCreated, Sent
  <2>3. \A s \in Resends : Progress(s)'
    BY <1>0, <2>1, <2>2 DEF Progress, Sent
  <2>4. \A c \in Challenges : Confirming(c)'
    BY <1>0, <2>1, <2>2 DEF Confirming
  <2> QED  BY <1>0, <2>1, <2>2, <2>3, <2>4 DEF VerifiedOnce, Sent
<1>3. CASE CompleteAutomatic \/ CompleteAutomaticFails \/ Redeliver
  <2>1. UNCHANGED stored /\ UNCHANGED req /\ delivery' # "committed"
    BY <1>3 DEF CompleteAutomatic, CompleteAutomaticFails, Redeliver
  <2> QED  BY <1>a, <1>b, <2>1
<1>4. ASSUME NEW d \in Challenges, Confirm(d) PROVE Goal
  <2>0. challenge[d] \in Challenge /\ Sent(d)
    BY <1>0, <1>4 DEF Confirm, LockConfirmed, CommitConfirmation, ConfirmationFails, Sent
  <2>1. UNCHANGED <<req, delivery>>
    BY <1>4 DEF Confirm, LockConfirmed, CommitConfirmation, ConfirmationFails
  <2>2. \A c \in Challenges \ {d} : challenge'[c] = challenge[c]
    BY <1>0, <1>4 DEF Confirm, LockConfirmed, CommitConfirmation, ConfirmationFails
  <2>3. ASSUME challenge'[d].st # "none" PROVE (delivery = "committed" => Sent(Automatic))'
    BY <1>0, <2>1, <2>2, <2>3 DEF Sent
  <2>4. CASE LockConfirmed(d)
    <3>1. /\ UNCHANGED <<status, verified>> /\ userLock = NoResend /\ userLock' = d
          /\ challenge'[d].st = IF status = "PENDING" THEN "verifying" ELSE "repeating"
      BY <1>0, <2>0, <2>4 DEF LockConfirmed, UserFree, Challenge
    <3>2. \A s \in Resends : Progress(s)'
      BY <1>0, <2>0, <2>1, <2>2, <3>1 DEF Progress, Sent
    <3>3. Confirming(d)'
      BY <1>0, <3>1 DEF Confirming, TypeOK
    <3>4. \A c \in Challenges \ {d} : Confirming(c)'
      BY <1>0, <2>2, <3>1 DEF Confirming
    <3> QED  BY <1>0, <2>3, <3>1, <3>2, <3>3, <3>4 DEF VerifiedOnce
  <2>5. CASE CommitConfirmation(d)
    <3>1. /\ userLock = d /\ userLock' = NoResend /\ status' = "ACTIVE"
          /\ challenge'[d].st = "consumed"
          /\ challenge[d].st \in {"verifying", "repeating"}
          /\ verified' = IF challenge[d].st = "verifying" THEN verified + 1 ELSE verified
      BY <1>0, <2>0, <2>5 DEF CommitConfirmation, Challenge, Confirming
    <3>2. \A s \in Resends : Progress(s)'
      BY <1>0, <2>0, <2>1, <2>2, <3>1 DEF Progress, Sent
    <3>3. \A c \in Challenges : Confirming(c)'
      BY <1>0, <2>2, <3>1 DEF Confirming
    <3>4. VerifiedOnce'
      BY <1>0, <3>1 DEF VerifiedOnce, Confirming
    <3> QED  BY <2>3, <3>1, <3>2, <3>3, <3>4
  <2>6. CASE ConfirmationFails(d)
    <3>1. /\ UNCHANGED <<status, verified>> /\ userLock = d /\ userLock' = NoResend
          /\ challenge'[d].st = "open"
      BY <1>0, <2>0, <2>6 DEF ConfirmationFails, Challenge, Confirming
    <3>2. \A s \in Resends : Progress(s)'
      BY <1>0, <2>0, <2>1, <2>2, <3>1 DEF Progress, Sent
    <3>3. \A c \in Challenges : Confirming(c)'
      BY <1>0, <2>2, <3>1 DEF Confirming
    <3> QED  BY <1>0, <2>3, <3>1, <3>2, <3>3 DEF VerifiedOnce
  <2> QED  BY <1>4, <2>4, <2>5, <2>6 DEF Confirm
<1>5. CASE ReadStatus \/ Tick
  BY <1>a, <1>b, <1>5 DEF ReadStatus, Tick
<1>6. CASE UNCHANGED vars
  BY <1>a, <1>b, <1>6 DEF vars
<1> QED  BY <1>1, <1>2, <1>3, <1>4, <1>5, <1>6 DEF Next, Handler

\* LinkInv holds at first and in every step.
LEMMA LinkInductive ==
  /\ Init => LinkInv
  /\ LinkInv /\ [Next]_vars => LinkInv'
<1>1. ASSUME Init PROVE LinkInv
  <2>1. TypeOK
    <3>1. [pc |-> "idle", now |-> 0, renewals |-> 0] \in Request
      BY Policy DEF Request, Phases
    <3>2. [st |-> "none", at |-> 0] \in Challenge
      BY DEF Challenge
    <3>3. challenge \in [Challenges -> Challenge] /\ req \in [Resends -> Request]
      BY <1>1, <3>1, <3>2 DEF Init
    <3> QED  BY <1>1, <3>3 DEF Init, TypeOK, NoBarrier
  <2>2. IsFiniteSet(manual)
    BY <1>1, FS_EmptySet DEF Init
  <2>3. \A c \in Challenges : challenge[c].st = "none"
    BY <1>1 DEF Init
  <2>4. \A r \in Resends : req[r].pc = "idle" /\ r \in Challenges
    BY <1>1 DEF Init, Challenges
  <2>5. cooldown = 0 /\ clock = 1 /\ verified = 0 /\ status = "PENDING" /\ delivery = "waiting"
    BY <1>1 DEF Init
  <2> QED  BY <2>1, <2>2, <2>3, <2>4, <2>5
           DEF LinkInv, Progress, Confirming, Sent, VerifiedOnce, CooldownLeavesALink
<1>2. ASSUME LinkInv, [Next]_vars PROVE LinkInv'
  BY <1>2, TypeStep, ProgressStep, CooldownStep DEF LinkInv
<1> QED  BY <1>1, <1>2
-----------------------------------------------------------------------------
(* The limit and the cooldown *)

\* What is remembered stays so while time passes, expired members are pruned
\* and the cooldown grows or ends.
LEMMA RememberedStays ==
  ASSUME LinkInv, NEW s \in Resends, Remembered(s),
         clock' \in Nat, clock <= clock', cooldown' \in Nat,
         cooldown <= cooldown' \/ cooldown <= clock',
         challenge'[s].at = challenge[s].at,
         NEW now \in Nat, now <= clock', Pruned(now) \subseteq manual'
  PROVE  Remembered(s)'
<1> DEFINE a == challenge[s].at
           b == Backoff(s, 1)
<1>1. a \in Nat /\ clock \in Nat /\ cooldown \in Nat
  BY DEF LinkInv, TypeOK, Challenge, Challenges
<1>2. b \in Nat
  BY BackoffBounds
<1>3. (s \in manual \/ a + Window <= clock) /\ (a + b <= cooldown \/ a + b <= clock)
  BY DEF Remembered
<1>4. s \in manual => s \in manual' \/ a + Window <= now
  BY <1>1, Policy DEF Pruned
<1>5. Remembered(s)' = /\ s \in manual' \/ a + Window <= clock'
                       /\ a + b <= cooldown' \/ a + b <= clock'
  BY DEF Remembered, Backoff
<1> HIDE DEF a, b
<1>6. s \in manual' \/ a + Window <= clock'
  BY <1>1, <1>3, <1>4, Policy
<1>7. a + b <= cooldown' \/ a + b <= clock'
  BY <1>1, <1>2, <1>3
<1> QED  BY <1>5, <1>6, <1>7

\* Where what weighs afterwards weighed before, the limit and the spacing hold.
LEMMA Shrinking ==
  ASSUME SendInv,
         \A r \in Resends : Weighs(r)' =>
           Weighs(r) /\ began'[r] = began[r] /\ Stamp(r)' = Stamp(r)
  PROVE  Limited'
<1> SUFFICES ASSUME NEW t \in Nat
             PROVE  IsFiniteSet(Weighing(t)') /\ Cardinality(Weighing(t)') <= Limit
  BY DEF Limited
<1>1. Weighing(t)' \subseteq Weighing(t)
  BY DEF Weighing
<1>2. IsFiniteSet(Weighing(t)) /\ Cardinality(Weighing(t)) <= Limit
  BY DEF SendInv, Limited
<1>3. IsFiniteSet(Weighing(t)') /\ Cardinality(Weighing(t)') <= Cardinality(Weighing(t))
  BY <1>1, <1>2, FS_Subset
<1>4. Cardinality(Weighing(t)') \in Nat /\ Cardinality(Weighing(t)) \in Nat
  BY <1>2, <1>3, FS_CardinalityType
<1> HIDE DEF Weighing
<1> QED  BY <1>2, <1>3, <1>4, Policy

\* A step that neither begins nor commits a resend.
LEMMA Quiet ==
  ASSUME LinkInv, SendInv, TypeOK', clock <= clock',
         \A s \in Resends : Sent(s)' = Sent(s) /\ challenge'[s].at = challenge[s].at,
         barrier'.owner # NoResend => barrier'.until > clock',
         slipped \subseteq slipped',
         \A s \in Resends : began'[s] = began[s] \/ began'[s] = 0,
         \A s \in Resends : Holds(s)' =>
           Holds(s) /\ req'[s].now = req[s].now /\ began'[s] = began[s],
         \A s \in Resends : Sent(s) /\ s \notin slipped' => began'[s] = began[s],
         \A s \in Resends : req'[s].pc \in {"arrived", "acquired", "locked"} =>
           req'[s].now <= clock',
         \A s \in manual' \cup slipped' : Sent(s),
         \A s \in Resends : Sent(s) /\ s \notin slipped' =>
           \/ req'[s].pc = "committed" /\ barrier'.owner = s
           \/ req'[s].pc = "done" /\ Remembered(s)'
  PROVE  SendInv'
<1>0. /\ clock \in Nat /\ clock' \in Nat /\ \A s \in Resends : began[s] \in Nat /\ began'[s] \in Nat
      /\ \A s \in Resends : challenge[s].at \in Nat
  BY DEF LinkInv, TypeOK, Challenge, Challenges
<1>1. BarrierOK'
  <2>1. ASSUME NEW r \in Resends, Holds(r)', NEW s \in Resends PROVE began'[s] <= began'[r]
    <3>1. began[s] <= began[r] /\ began'[r] = began[r]
      BY <2>1 DEF SendInv, BarrierOK
    <3> QED  BY <1>0, <3>1
  <2> QED  BY <2>1 DEF BarrierOK
<1>2. ASSUME NEW s \in Resends PROVE Counting(s)'
  <2>1. began[s] <= clock /\ (Sent(s) => challenge[s].at <= clock)
    BY DEF SendInv, Counting
  <2>2. began'[s] <= clock'
    BY <1>0, <2>1
  <2>3. Sent(s)' => challenge'[s].at <= clock'
    BY <1>0, <2>1
  <2>4. Sent(s)' = Sent(s)
    OBVIOUS
  <2> QED  BY <2>2, <2>3, <2>4 DEF Counting
<1>3. \A r \in Resends : Weighs(r)' => Weighs(r) /\ began'[r] = began[r] /\ Stamp(r)' = Stamp(r)
  BY DEF Weighs, Stamp
<1>4. Limited'
  BY <1>3, Shrinking
<1>5. Spaced'
  <2> SUFFICES ASSUME NEW c \in Resends, NEW r \in Resends, Sent(c)', c \notin slipped',
                      Weighs(r)', began'[c] < began'[r]
               PROVE  began'[r] >= challenge'[c].at + Backoff(c, 1)
    BY DEF Spaced, Backoff
  <2>1. Sent(c) /\ c \notin slipped /\ Weighs(r) /\ began'[c] = began[c] /\ began'[r] = began[r]
    BY <1>3
  <2>2. began[r] >= challenge[c].at + Backoff(c, 1)
    BY <2>1 DEF SendInv, Spaced
  <2> QED  BY <2>1, <2>2
<1> QED  BY <1>1, <1>2, <1>4, <1>5 DEF SendInv

\* Nothing restricts a resend that begins.
LEMMA Unrestricted ==
  ASSUME LinkInv, SendInv, NEW now, Available(now)
  PROVE  /\ cooldown <= clock /\ barrier.owner = NoResend
         /\ Cardinality(Pruned(now)) < Limit
<1>1. clock \in Nat /\ cooldown \in Nat /\ barrier.until \in Nat
  BY DEF LinkInv, TypeOK
<1>2. cooldown <= clock /\ barrier.until <= clock
  BY <1>1 DEF Available, CooldownWait, BarrierWait
<1>3. barrier.owner = NoResend
  BY <1>1, <1>2 DEF SendInv, BarrierOK
<1>4. Cardinality(Pruned(now)) \in Nat /\ ~(Cardinality(Pruned(now)) >= Limit)
  BY PrunedSubset DEF LinkInv, Available, LimitReached
<1> QED  BY <1>2, <1>3, <1>4, Policy

\* BEGIN finds every send that still weighs in the sorted set, since nobody
\* else holds the barrier; so one more fits.
LEMMA BeginStep ==
  ASSUME LinkInv, SendInv, NEW r \in Resends, Begin(r), TypeOK'
  PROVE  SendInv'
<1> DEFINE now == req[r].now
<1>0. /\ clock \in Nat /\ now \in Nat /\ now <= clock /\ r \in Challenges
      /\ \A s \in Resends : challenge[s].at \in Nat /\ began[s] \in Nat
      /\ cooldown \in Nat
  BY DEF LinkInv, TypeOK, Challenge, Challenges, Request, SendInv, Counting, Begin, At
<1>1. /\ UNCHANGED <<clock, challenge, cooldown, slipped>>
      /\ manual' = Pruned(now) /\ req[r].pc = "arrived"
      /\ barrier'.owner = r /\ barrier'.until = clock + MutationTtl
      /\ began' = [began EXCEPT ![r] = clock]
  BY DEF Begin, stored, At
<1>2. /\ req'[r].pc = "acquired" /\ req'[r].now = now
      /\ \A s \in Resends \ {r} : req'[s] = req[s]
  BY OwnRequest DEF Begin, LinkInv, Phases
<1>3. began'[r] = clock /\ \A s \in Resends \ {r} : began'[s] = began[s]
  BY <1>1 DEF LinkInv, TypeOK
<1>4. /\ cooldown <= clock /\ barrier.owner = NoResend
      /\ Cardinality(Pruned(now)) < Limit
  BY Unrestricted DEF Begin
<1>5. \A s \in Resends : Sent(s)' = Sent(s)
  BY <1>1 DEF Sent
<1>6. ~Sent(r)
  BY <1>1 DEF LinkInv, Progress
<1>7. \A s \in Resends : Sent(s) /\ s \notin slipped => req[s].pc = "done" /\ Remembered(s)
  BY <1>4, Policy DEF SendInv, Counting
<1>8. manual' \subseteq manual
  BY <1>1, PrunedSubset DEF LinkInv
<1>9. \A s \in Resends : Weighs(s)' => s = r \/ (Sent(s) /\ s \notin slipped)
  BY <1>1, <1>5 DEF Weighs, Holds
<1>10. BarrierOK'
  <2>1. barrier'.until > clock'
    BY <1>0, <1>1, Policy
  <2>2. \A s \in Resends : Holds(s)' => s = r
    BY <1>1 DEF Holds
  <2>3. \A s \in Resends : began'[s] <= began'[r]
    BY <1>0, <1>3 DEF SendInv, Counting
  <2> QED  BY <2>1, <2>2, <2>3 DEF BarrierOK
<1>11. ASSUME NEW s \in Resends PROVE Counting(s)'
  <2>1. began'[s] <= clock'
    BY <1>0, <1>1, <1>3 DEF SendInv, Counting
  <2>2. req'[s].pc \in {"arrived", "acquired", "locked"} => req'[s].now <= clock'
    BY <1>0, <1>1, <1>2 DEF SendInv, Counting
  <2>3. Sent(s)' => challenge'[s].at <= clock'
    BY <1>1, <1>5 DEF SendInv, Counting
  <2>4. s \in manual' \cup slipped' => Sent(s)'
    BY <1>1, <1>5, <1>8 DEF SendInv, Counting
  <2>5. ASSUME Sent(s)', s \notin slipped' PROVE req'[s].pc = "done" /\ Remembered(s)'
    <3>1. s # r /\ req[s].pc = "done" /\ Remembered(s)
      BY <1>1, <1>5, <1>6, <1>7, <2>5
    <3>2. Remembered(s)'
      BY <1>0, <1>1, <3>1, RememberedStays
    <3> QED  BY <1>2, <3>1, <3>2
  <2> QED  BY <2>1, <2>2, <2>3, <2>4, <2>5 DEF Counting
<1>12. Limited'
  <2> SUFFICES ASSUME NEW t \in Nat
               PROVE  IsFiniteSet(Weighing(t)') /\ Cardinality(Weighing(t)') <= Limit
    BY DEF Limited
  <2>1. CASE t < clock
    <3>1. Weighing(t)' \subseteq Weighing(t)
      <4> SUFFICES ASSUME NEW s \in Weighing(t)' PROVE s \in Weighing(t)
        OBVIOUS
      <4>1. s \in Resends /\ Weighs(s)' /\ began'[s] <= t /\ t < Stamp(s)' + Window
        BY DEF Weighing
      <4>2. s # r
        BY <1>0, <1>3, <2>1, <4>1
      <4>3. Sent(s) /\ s \notin slipped /\ began[s] <= t
        BY <1>3, <1>9, <4>1, <4>2
      <4>4. Stamp(s)' = Stamp(s)
        BY <1>1, <1>5, <4>1, <4>3 DEF Stamp
      <4> QED  BY <4>1, <4>3, <4>4 DEF Weighing, Weighs
    <3>2. IsFiniteSet(Weighing(t)) /\ Cardinality(Weighing(t)) <= Limit
      BY DEF SendInv, Limited
    <3>3. IsFiniteSet(Weighing(t)') /\ Cardinality(Weighing(t)') <= Cardinality(Weighing(t))
      BY <3>1, <3>2, FS_Subset
    <3>4. Cardinality(Weighing(t)') \in Nat /\ Cardinality(Weighing(t)) \in Nat
      BY <3>2, <3>3, FS_CardinalityType
    <3> HIDE DEF Weighing
    <3> QED  BY <3>2, <3>3, <3>4, Policy
  <2>2. CASE t >= clock
    <3> DEFINE P == Pruned(now)
    <3>1. Weighing(t)' \subseteq P \cup {r}
      <4> SUFFICES ASSUME NEW s \in Weighing(t)', s # r PROVE s \in P
        OBVIOUS
      <4>1. s \in Resends /\ Weighs(s)' /\ t < Stamp(s)' + Window
        BY DEF Weighing
      <4>2. Sent(s) /\ Remembered(s)
        BY <1>7, <1>9, <4>1
      <4>3. Stamp(s)' = challenge[s].at
        BY <1>1, <1>5, <4>1, <4>2 DEF Stamp
      <4>4. clock < challenge[s].at + Window
        BY <1>0, <2>2, <4>1, <4>3, Policy
      <4>5. s \in manual
        BY <1>0, <4>1, <4>2, <4>4, Policy DEF Remembered
      <4>6. challenge[s].at + Window > now
        BY <1>0, <4>1, <4>4, Policy
      <4> QED  BY <4>5, <4>6 DEF Pruned
    <3>2. IsFiniteSet(P) /\ Cardinality(P) \in Nat
      BY PrunedSubset DEF LinkInv
    <3>3. Cardinality(P) < Limit
      BY <1>4
    <3> HIDE DEF P
    <3>4. /\ IsFiniteSet(P \cup {r}) /\ Cardinality(P \cup {r}) <= Cardinality(P) + 1
      BY <3>2, FS_AddElement
    <3>5. /\ IsFiniteSet(Weighing(t)')
          /\ Cardinality(Weighing(t)') <= Cardinality(P \cup {r})
      BY <3>1, <3>4, FS_Subset
    <3>6. Cardinality(Weighing(t)') \in Nat /\ Cardinality(P \cup {r}) \in Nat
      BY <3>4, <3>5, FS_CardinalityType
    <3> HIDE DEF Weighing
    <3> QED  BY <3>2, <3>3, <3>4, <3>5, <3>6, Policy
  <2> QED  BY <1>0, <2>1, <2>2
<1>13. Spaced'
  <2> SUFFICES ASSUME NEW c \in Resends, NEW s \in Resends, Sent(c)', c \notin slipped',
                      Weighs(s)', began'[c] < began'[s]
               PROVE  began'[s] >= challenge'[c].at + Backoff(c, 1)
    BY DEF Spaced, Backoff
  <2>1. Sent(c) /\ c \notin slipped /\ c # r
    BY <1>1, <1>5, <1>6
  <2>2. Backoff(c, 1) \in Nat
    BY BackoffBounds
  <2>3. CASE s = r
    <3>1. \/ challenge[c].at + Backoff(c, 1) <= cooldown
          \/ challenge[c].at + Backoff(c, 1) <= clock
      BY <1>7, <2>1 DEF Remembered
    <3> QED  BY <1>0, <1>1, <1>3, <1>4, <2>2, <2>3, <3>1
  <2>4. CASE s # r
    <3>1. Sent(s) /\ s \notin slipped /\ Weighs(s)
      BY <1>9, <2>4 DEF Weighs
    <3>2. began[c] < began[s]
      BY <1>3, <2>1, <2>4
    <3>3. began[s] >= challenge[c].at + Backoff(c, 1)
      BY <2>1, <3>1, <3>2 DEF SendInv, Spaced
    <3> QED  BY <1>1, <1>3, <2>4, <3>3
  <2> QED  BY <2>3, <2>4
<1> QED  BY <1>10, <1>11, <1>12, <1>13 DEF SendInv

\* A resend whose barrier lasts until its commit already weighed, and nobody
\* began after it; any other is set apart.
LEMMA CommitStep ==
  ASSUME LinkInv, SendInv, NEW r \in Resends, Commit(r), TypeOK'
  PROVE  SendInv'
<1>0. /\ clock \in Nat /\ req[r].now \in Nat /\ req[r].now <= clock /\ r \in Challenges
      /\ \A s \in Resends : challenge[s].at \in Nat /\ began[s] \in Nat /\ s \in Challenges
      /\ \A s \in Resends : began'[s] \in Nat
  BY DEF LinkInv, TypeOK, Challenge, Challenges, Request, SendInv, Counting, Commit, At
<1>1. /\ UNCHANGED <<clock, manual, cooldown, barrier>> /\ req[r].pc = "locked"
      /\ slipped \subseteq slipped' /\ slipped' \subseteq slipped \cup {r}
      /\ r \notin slipped' => barrier.owner = r /\ req'[r].pc = "committed"
      /\ req'[r].pc \in {"committed", "aborting"}
      /\ \A s \in Resends \ {r} : req'[s] = req[s]
  BY OwnRequest DEF Commit, redis, At, LinkInv, Phases
<1>2. challenge' = [challenge EXCEPT ![r] = [st |-> "open", at |-> req[r].now]]
  BY DEF Commit
<1>3. /\ Sent(r)' /\ challenge'[r].at = req[r].now /\ ~Sent(r)
      /\ \A s \in Resends \ {r} : challenge'[s] = challenge[s] /\ Sent(s)' = Sent(s)
  BY <1>0, <1>1, <1>2 DEF LinkInv, TypeOK, Sent, Progress
<1>4. \A s \in Resends : began'[s] = IF s \in slipped' THEN 0 ELSE began[s]
  BY DEF Commit, Forget
<1>5. \A s \in Resends : Holds(s)' => Holds(s) /\ s # r
  BY <1>1 DEF Holds
<1>6. BarrierOK'
  <2>1. ASSUME NEW q \in Resends, Holds(q)', NEW s \in Resends PROVE began'[s] <= began'[q]
    <3>1. Holds(q) /\ q # r /\ ~Sent(q)
      BY <1>5, <2>1 DEF Holds, LinkInv, Progress
    <3>2. q \notin slipped'
      BY <1>1, <3>1 DEF SendInv, Counting
    <3>3. began[s] <= began[q]
      BY <3>1 DEF SendInv, BarrierOK
    <3> QED  BY <1>0, <1>4, <3>2, <3>3
  <2> QED  BY <1>1, <2>1 DEF BarrierOK, SendInv
<1>7. ASSUME NEW s \in Resends PROVE Counting(s)'
  <2>1. began'[s] <= clock'
    BY <1>0, <1>1, <1>4 DEF SendInv, Counting
  <2>2. req'[s].pc \in {"arrived", "acquired", "locked"} => req'[s].now <= clock'
    BY <1>1 DEF SendInv, Counting
  <2>3. Sent(s)' => challenge'[s].at <= clock'
    BY <1>0, <1>1, <1>3 DEF SendInv, Counting
  <2>4. s \in manual' \cup slipped' => Sent(s)'
    BY <1>1, <1>3 DEF SendInv, Counting
  <2>5. ASSUME Sent(s)', s \notin slipped'
        PROVE  \/ req'[s].pc = "committed" /\ barrier'.owner = s
               \/ req'[s].pc = "done" /\ Remembered(s)'
    <3>1. CASE s = r
      BY <1>1, <2>5, <3>1
    <3>2. CASE s # r
      <4>1. \/ req[s].pc = "committed" /\ barrier.owner = s
            \/ req[s].pc = "done" /\ Remembered(s)
        BY <1>1, <1>3, <2>5, <3>2 DEF SendInv, Counting
      <4>2. Remembered(s)' = Remembered(s)
        BY <1>1, <1>3, <3>2 DEF Remembered, Backoff
      <4> QED  BY <1>1, <3>2, <4>1, <4>2
    <3> QED  BY <3>1, <3>2
  <2> QED  BY <2>1, <2>2, <2>3, <2>4, <2>5 DEF Counting
<1>8. ASSUME NEW s \in Resends, Weighs(s)'
      PROVE  Weighs(s) /\ began'[s] = began[s] /\ Stamp(s)' = Stamp(s)
  <2>1. s \notin slipped' /\ s \notin slipped /\ began'[s] = began[s]
    BY <1>1, <1>4, <1>8 DEF Weighs
  <2>2. CASE s = r
    BY <1>1, <1>3, <2>1, <2>2 DEF Weighs, Stamp, Holds
  <2>3. CASE s # r
    BY <1>1, <1>3, <1>5, <1>8, <2>1, <2>3 DEF Weighs, Stamp
  <2> QED  BY <2>1, <2>2, <2>3
<1>9. Limited'
  BY <1>8, Shrinking
<1>10. Spaced'
  <2> SUFFICES ASSUME NEW c \in Resends, NEW s \in Resends, Sent(c)', c \notin slipped',
                      Weighs(s)', began'[c] < began'[s]
               PROVE  began'[s] >= challenge'[c].at + Backoff(c, 1)
    BY DEF Spaced, Backoff
  <2>1. Weighs(s) /\ began'[s] = began[s] /\ began'[c] = began[c] /\ c \notin slipped
    BY <1>1, <1>4, <1>8
  <2>2. c # r
    <3> SUFFICES ASSUME c = r PROVE FALSE
      OBVIOUS
    <3>1. Holds(r)
      BY <1>1 DEF Holds
    <3>2. began[s] <= began[r]
      BY <3>1 DEF SendInv, BarrierOK
    <3> QED  BY <1>0, <2>1, <3>2
  <2>3. Sent(c) /\ challenge'[c].at = challenge[c].at
    BY <1>3, <2>2
  <2>4. began[s] >= challenge[c].at + Backoff(c, 1)
    BY <2>1, <2>3 DEF SendInv, Spaced
  <2> QED  BY <2>1, <2>3, <2>4
<1> QED  BY <1>6, <1>7, <1>9, <1>10 DEF SendInv

\* A send that has been counted stays counted, and one that has not waits for
\* its COMPLETE, in a step that leaves the barrier, the counts and its request.
LEMMA StillCounted ==
  ASSUME LinkInv, SendInv, UNCHANGED <<clock, manual, cooldown>>,
         NEW s \in Resends, Sent(s), s \notin slipped,
         challenge'[s].at = challenge[s].at, req'[s].pc = req[s].pc,
         barrier.owner = s => barrier'.owner = s
  PROVE  \/ req'[s].pc = "committed" /\ barrier'.owner = s
         \/ req'[s].pc = "done" /\ Remembered(s)'
<1>1. \/ req[s].pc = "committed" /\ barrier.owner = s
      \/ req[s].pc = "done" /\ Remembered(s)
  BY DEF SendInv, Counting
<1>2. Remembered(s)' = Remembered(s)
  BY DEF Remembered, Backoff
<1> QED  BY <1>1, <1>2

\* The steps of a resend between its arrival and its end that leave Redis alone
\* or touch the barrier only.
LEMMA BarrierSteps ==
  ASSUME LinkInv, SendInv, TypeOK', NEW r \in Resends,
         UNCHANGED <<clock, challenge, manual, cooldown>>,
         barrier' = barrier
           \/ (barrier'.owner = NoResend /\ barrier.owner = r)
           \/ (barrier'.owner = barrier.owner /\ barrier'.until > clock),
         slipped \subseteq slipped', \A s \in slipped' : s \in slipped \/ (s = r /\ Sent(r)),
         \A s \in Resends : began'[s] = began[s] \/ (began'[s] = 0 /\ (s = r \/ s \in slipped')),
         \A s \in Resends \ {r} : req'[s] = req[s],
         \/ /\ req[r].pc \in {"idle", "acquired", "locked"} /\ ~Sent(r)
            /\ req'[r].pc = "arrived" => req'[r].now = clock
            /\ req'[r].pc \in {"acquired", "locked"} =>
                 req'[r].now = req[r].now /\ began'[r] = began[r]
                 /\ req[r].pc \in {"acquired", "locked"}
         \/ req'[r].pc = "done" /\ (Sent(r) => r \in slipped')
  PROVE  SendInv'
<1>0. /\ clock \in Nat /\ clock' = clock
      /\ \A s \in Resends : Sent(s)' = Sent(s) /\ challenge'[s].at = challenge[s].at
  BY DEF LinkInv, TypeOK, Sent
<1>1. barrier'.owner # NoResend => barrier'.until > clock'
  BY DEF SendInv, BarrierOK
<1>2. \A s \in Resends : Holds(s)' =>
        Holds(s) /\ req'[s].now = req[s].now /\ began'[s] = began[s]
  <2> SUFFICES ASSUME NEW s \in Resends, Holds(s)'
               PROVE  Holds(s) /\ req'[s].now = req[s].now /\ began'[s] = began[s]
    OBVIOUS
  <2>1. barrier.owner = s
    BY Policy DEF Holds
  <2>2. CASE s = r
    BY <2>1, <2>2 DEF Holds
  <2>3. CASE s # r
    <3>1. req[s].pc \in {"acquired", "locked"} /\ req'[s] = req[s]
      BY <2>3 DEF Holds
    <3>2. ~Sent(s) /\ s \notin slipped'
      BY <2>3, <3>1 DEF LinkInv, Progress, SendInv, Counting
    <3> QED  BY <2>1, <2>3, <3>1, <3>2 DEF Holds
  <2> QED  BY <2>2, <2>3
<1>3. \A s \in Resends : Sent(s) /\ s \notin slipped' => s # r
  OBVIOUS
<1>4. \A s \in Resends : Sent(s) /\ s \notin slipped' => began'[s] = began[s]
  BY <1>3
<1>5. \A s \in Resends : req'[s].pc \in {"arrived", "acquired", "locked"} =>
        req'[s].now <= clock'
  <2>1. clock <= clock
    BY <1>0
  <2>2. ASSUME req'[r].pc \in {"arrived", "acquired", "locked"} PROVE req'[r].now <= clock'
    BY <1>0, <2>1, <2>2 DEF SendInv, Counting
  <2>3. ASSUME NEW s \in Resends \ {r}, req'[s].pc \in {"arrived", "acquired", "locked"}
        PROVE  req'[s].now <= clock'
    BY <1>0, <2>3 DEF SendInv, Counting
  <2> QED  BY <2>2, <2>3
<1>6. \A s \in manual' \cup slipped' : Sent(s)
  <2>1. manual \subseteq Resends /\ slipped \subseteq Resends
    BY DEF LinkInv, TypeOK
  <2> QED  BY <2>1 DEF SendInv, Counting
<1>7. \A s \in Resends : Sent(s) /\ s \notin slipped' =>
        \/ req'[s].pc = "committed" /\ barrier'.owner = s
        \/ req'[s].pc = "done" /\ Remembered(s)'
  <2> SUFFICES ASSUME NEW s \in Resends, Sent(s), s \notin slipped'
               PROVE  \/ req'[s].pc = "committed" /\ barrier'.owner = s
                      \/ req'[s].pc = "done" /\ Remembered(s)'
    OBVIOUS
  <2>1. s # r /\ s \notin slipped /\ req'[s].pc = req[s].pc
    BY <1>3
  <2>2. barrier.owner = s => barrier'.owner = s
    BY <2>1
  <2> QED  BY <1>0, <2>1, <2>2, StillCounted
<1>8. clock <= clock' /\ \A s \in Resends : began'[s] = began[s] \/ began'[s] = 0
  BY <1>0
<1> QED  BY <1>0, <1>1, <1>2, <1>4, <1>5, <1>6, <1>7, <1>8, Quiet

\* Pruning, and COMPLETE, keep what is counted.
LEMMA CountSteps ==
  ASSUME LinkInv, SendInv, TypeOK', UNCHANGED <<clock, challenge, slipped, began>>,
         NEW r,
         \A s \in Resends \ {r} : req'[s] = req[s],
         r \in Resends => req'[r].pc = "done",
         barrier' = barrier \/ (barrier'.owner = NoResend /\ barrier.owner = r),
         cooldown <= cooldown' \/ cooldown <= clock,
         NEW now \in Nat, now <= clock, Pruned(now) \subseteq manual',
         \A s \in manual' : Sent(s),
         r \in Resends /\ Sent(r) /\ r \notin slipped => Remembered(r)'
  PROVE  SendInv'
<1>0. /\ clock \in Nat /\ clock' = clock /\ clock <= clock' /\ clock' \in Nat /\ cooldown' \in Nat
      /\ \A s \in Resends : Sent(s)' = Sent(s) /\ challenge'[s].at = challenge[s].at
  BY DEF LinkInv, TypeOK, Sent
<1>1. barrier'.owner # NoResend => barrier'.until > clock'
  BY DEF SendInv, BarrierOK
<1>2. \A s \in Resends : Holds(s)' =>
        Holds(s) /\ req'[s].now = req[s].now /\ began'[s] = began[s]
  BY Policy DEF Holds
<1>3. \A s \in Resends : req'[s].pc \in {"arrived", "acquired", "locked"} =>
        req'[s].now <= clock'
  BY DEF SendInv, Counting
<1>4. \A s \in manual' \cup slipped' : Sent(s)
  BY DEF SendInv, Counting, LinkInv, TypeOK
<1>5. ASSUME NEW s \in Resends, Sent(s), s \notin slipped
      PROVE  \/ req'[s].pc = "committed" /\ barrier'.owner = s
             \/ req'[s].pc = "done" /\ Remembered(s)'
  <2>1. CASE s = r
    BY <1>5, <2>1
  <2>2. CASE s # r
    <3>1. \/ req[s].pc = "committed" /\ barrier.owner = s
          \/ req[s].pc = "done" /\ Remembered(s)
      BY <1>5 DEF SendInv, Counting
    <3>2. Remembered(s) => Remembered(s)'
      BY <1>0, RememberedStays
    <3> QED  BY <2>2, <3>1, <3>2
  <2> QED  BY <2>1, <2>2
<1> QED  BY <1>0, <1>1, <1>2, <1>3, <1>4, <1>5, Quiet

\* Time passes: keys whose TTL has ended are gone, and a resend whose barrier
\* goes before its COMPLETE is set apart.
LEMMA TickStep ==
  ASSUME LinkInv, SendInv, Tick, TypeOK'
  PROVE  SendInv'
<1>0. /\ clock \in Nat /\ clock' = clock + 1 /\ clock <= clock' /\ cooldown \in Nat
      /\ clock' \in Nat /\ cooldown' \in Nat
      /\ UNCHANGED <<challenge, manual, req>>
      /\ cooldown' = (IF cooldown > clock' THEN cooldown ELSE 0)
      /\ barrier' = (IF barrier.until > clock' THEN barrier ELSE NoBarrier)
      /\ slipped' = slipped \cup {r \in Resends : At(r, "committed") /\ barrier'.owner # r}
  BY DEF LinkInv, TypeOK, Tick, stored
<1>1. \A s \in Resends : Sent(s)' = Sent(s) /\ challenge'[s].at = challenge[s].at
  BY <1>0 DEF Sent
<1>2. barrier'.owner # NoResend => barrier'.until > clock'
  BY <1>0 DEF NoBarrier
<1>3. \A s \in Resends : began'[s] = IF s \in slipped' THEN 0 ELSE began[s]
  BY DEF Tick, Forget
<1>4. \A s \in slipped' : Sent(s)
  BY <1>0 DEF At, LinkInv, TypeOK, Progress, SendInv, Counting
<1>5. \A s \in Resends : Holds(s)' =>
        Holds(s) /\ req'[s].now = req[s].now /\ began'[s] = began[s]
  <2> SUFFICES ASSUME NEW s \in Resends, Holds(s)'
               PROVE  Holds(s) /\ req'[s].now = req[s].now /\ began'[s] = began[s]
    OBVIOUS
  <2>1. barrier'.owner = s /\ req[s].pc \in {"acquired", "locked"}
    BY <1>0 DEF Holds
  <2>2. barrier.owner = s
    BY <1>0, <2>1, Policy DEF NoBarrier
  <2>3. ~Sent(s)
    BY <2>1 DEF LinkInv, Progress
  <2> QED  BY <1>0, <1>3, <1>4, <2>1, <2>2, <2>3 DEF Holds
<1>6. \A s \in Resends : req'[s].pc \in {"arrived", "acquired", "locked"} =>
        req'[s].now <= clock'
  <2> SUFFICES ASSUME NEW s \in Resends, req[s].pc \in {"arrived", "acquired", "locked"}
               PROVE  req[s].now <= clock'
    BY <1>0
  <2>1. req[s].now <= clock /\ req[s].now \in Nat
    BY DEF SendInv, Counting, LinkInv, TypeOK, Request
  <2> QED  BY <1>0, <2>1
<1>7. \A s \in manual' \cup slipped' : Sent(s)
  BY <1>0, <1>4 DEF SendInv, Counting, LinkInv, TypeOK
<1>8. ASSUME NEW s \in Resends, Sent(s), s \notin slipped'
      PROVE  \/ req'[s].pc = "committed" /\ barrier'.owner = s
             \/ req'[s].pc = "done" /\ Remembered(s)'
  <2>1. \/ req[s].pc = "committed" /\ barrier.owner = s
        \/ req[s].pc = "done" /\ Remembered(s)
    BY <1>0, <1>8 DEF SendInv, Counting
  <2>2. ASSUME Remembered(s) PROVE Remembered(s)'
    <3>1. Pruned(clock) \subseteq manual'
      BY <1>0, PrunedSubset DEF LinkInv
    <3>2. cooldown <= cooldown' \/ cooldown <= clock'
      BY <1>0
    <3> QED  BY <1>0, <1>1, <2>2, <3>1, <3>2, RememberedStays
  <2>3. req[s].pc = "committed" => barrier'.owner = s
    BY <1>0, <1>8 DEF At
  <2> QED  BY <1>0, <2>1, <2>2, <2>3
<1>9. /\ slipped \subseteq slipped'
      /\ \A s \in Resends : began'[s] = began[s] \/ began'[s] = 0
      /\ \A s \in Resends : Sent(s) /\ s \notin slipped' => began'[s] = began[s]
  BY <1>0, <1>3
<1> QED  BY <1>0, <1>1, <1>2, <1>5, <1>6, <1>7, <1>8, <1>9, Quiet

\* The limit and the cooldown are preserved by every step.
LEMMA SendStep ==
  ASSUME LinkInv, SendInv, [Next]_vars
  PROVE  SendInv'
<1>0. /\ TypeOK' /\ TypeOK /\ IsFiniteSet(manual) /\ clock \in Nat
      /\ req \in [Resends -> Request] /\ barrier \in [owner : Resends \cup {NoResend}, until : Nat]
      /\ NoResend \notin Resends /\ Automatic \notin Resends
  BY TypeStep, Policy DEF LinkInv, TypeOK
<1>p. \A now : Pruned(now) \subseteq manual /\ (\A s \in Pruned(now) : Sent(s))
  BY PrunedSubset DEF LinkInv, TypeOK, SendInv, Counting
<1>1. ASSUME NEW r \in Resends, Resend(r) PROVE SendInv'
  <2>0. req[r] \in Request /\ req[r].now \in Nat
    BY <1>0 DEF Request
  <2>1. CASE Arrive(r)
    <3>1. /\ UNCHANGED <<clock, challenge, manual, cooldown, barrier, slipped, began>>
          /\ req[r].pc = "idle" /\ req'[r].pc = "arrived" /\ req'[r].now = clock
          /\ \A s \in Resends \ {r} : req'[s] = req[s]
      BY <1>0, <2>0, <2>1 DEF Arrive, stored, redis, history, At, Request
    <3>2. ~Sent(r)
      BY <3>1 DEF LinkInv, Progress
    <3> QED  BY <1>0, <3>1, <3>2, BarrierSteps
  <2>2. CASE BeginRefused(r)
    <3>1. /\ UNCHANGED <<clock, challenge, cooldown, barrier, slipped, began>>
          /\ manual' = Pruned(req[r].now) /\ req[r].pc = "arrived" /\ req'[r].pc = "done"
          /\ \A s \in Resends \ {r} : req'[s] = req[s]
      BY <1>0, <2>2, OwnRequest DEF BeginRefused, stored, history, At, Phases
    <3>2. req[r].now <= clock /\ ~Sent(r)
      BY <3>1 DEF SendInv, Counting, LinkInv, Progress
    <3>3. cooldown <= cooldown'
      BY <1>0, <3>1 DEF TypeOK
    <3>4. \A s \in manual' : Sent(s)
      BY <1>p, <3>1
    <3>5. Pruned(req[r].now) \subseteq manual'
      BY <3>1
    <3> QED  BY <1>0, <2>0, <3>1, <3>2, <3>3, <3>4, <3>5, CountSteps
  <2>3. CASE Begin(r)
    BY <1>0, <2>3, BeginStep
  <2>4. CASE LockUser(r)
    <3>1. /\ UNCHANGED <<clock, challenge, manual, cooldown, barrier, slipped>>
          /\ req[r].pc = "acquired" /\ \A s \in Resends \ {r} : req'[s] = req[s]
          /\ \/ req'[r].pc = "locked" /\ req'[r].now = req[r].now /\ UNCHANGED began
             \/ req'[r].pc = "aborting" /\ Forget({r})
      BY <1>0, <2>4, OwnRequest DEF LockUser, redis, At, Phases
    <3>2. ~Sent(r)
      BY <3>1 DEF LinkInv, Progress
    <3>3. \A s \in Resends : began'[s] = began[s] \/ (began'[s] = 0 /\ s = r)
      BY <3>1 DEF Forget
    <3>4. req'[r].pc \in {"acquired", "locked"} => began'[r] = began[r]
      BY <3>1
    <3> QED  BY <1>0, <3>1, <3>2, <3>3, <3>4, BarrierSteps
  <2>5. CASE Renew(r)
    <3>1. /\ UNCHANGED <<clock, challenge, manual, cooldown, slipped, began>>
          /\ req[r].pc = "locked" /\ \A s \in Resends \ {r} : req'[s] = req[s]
          /\ req'[r].pc = "locked" /\ req'[r].now = req[r].now
          /\ barrier'.owner = barrier.owner /\ barrier'.until = clock + MutationTtl
      BY <1>0, <2>0, <2>5 DEF Renew, stored, history, At, Request
    <3>2. ~Sent(r)
      BY <3>1 DEF LinkInv, Progress
    <3>3. barrier'.until > clock
      BY <1>0, <3>1, Policy
    <3> QED  BY <1>0, <3>1, <3>2, <3>3, BarrierSteps
  <2>6. CASE Rollback(r)
    <3>1. /\ UNCHANGED <<clock, challenge, manual, cooldown, barrier, slipped>>
          /\ req[r].pc = "locked" /\ req'[r].pc = "aborting" /\ Forget({r})
          /\ \A s \in Resends \ {r} : req'[s] = req[s]
      BY <1>0, <2>6, OwnRequest DEF Rollback, redis, At, Phases
    <3>2. ~Sent(r)
      BY <3>1 DEF LinkInv, Progress
    <3>3. \A s \in Resends : began'[s] = began[s] \/ (began'[s] = 0 /\ s = r)
      BY <3>1 DEF Forget
    <3> QED  BY <1>0, <3>1, <3>2, <3>3, BarrierSteps
  <2>7. CASE Commit(r)
    BY <1>0, <2>7, CommitStep
  <2>8. CASE CompleteResend(r)
    <3>1. /\ UNCHANGED <<clock, challenge, slipped, began>> /\ Complete(r) /\ r \in Challenges
          /\ req[r].pc = "committed" /\ req'[r].pc = "done"
          /\ \A s \in Resends \ {r} : req'[s] = req[s]
      BY <1>0, <2>8, OwnRequest DEF CompleteResend, stored, history, At, Phases, Challenges
    <3>2. /\ cooldown <= cooldown' \/ cooldown <= clock
          /\ \/ challenge[r].at + Backoff(r, 1) <= cooldown'
             \/ challenge[r].at + Backoff(r, 1) <= clock
      BY <1>0, <3>1, Completed
    <3>3. manual' = Pruned(clock) \cup {r}
      BY <3>1 DEF Complete
    <3>4. barrier' = barrier \/ (barrier'.owner = NoResend /\ barrier.owner = r)
      BY <3>1 DEF Complete, NoBarrier
    <3>5. Sent(r)
      BY <3>1 DEF LinkInv, Progress
    <3>6. \A s \in manual' : Sent(s)
      BY <1>p, <3>3, <3>5
    <3>7. Remembered(r)'
      BY <3>1, <3>2, <3>3 DEF Remembered, Backoff
    <3>8. Pruned(clock) \subseteq manual' /\ clock <= clock
      BY <1>0, <3>3
    <3> QED  BY <1>0, <3>1, <3>2, <3>4, <3>6, <3>7, <3>8, CountSteps
  <2>9. CASE Abort(r)
    <3>1. /\ UNCHANGED <<clock, challenge, manual, cooldown, slipped, began>>
          /\ req[r].pc = "aborting" /\ req'[r].pc = "done"
          /\ \A s \in Resends \ {r} : req'[s] = req[s]
          /\ barrier' = barrier \/ (barrier'.owner = NoResend /\ barrier.owner = r)
      BY <1>0, <2>9, OwnRequest DEF Abort, stored, history, At, Phases, NoBarrier
    <3>2. Sent(r) => r \in slipped'
      BY <3>1 DEF SendInv, Counting
    <3> QED  BY <1>0, <3>1, <3>2, BarrierSteps
  <2>10. CASE GiveUp(r)
    <3>1. /\ UNCHANGED <<clock, challenge, manual, cooldown, barrier>>
          /\ req[r].pc \notin {"idle", "done"} /\ req'[r].pc = "done" /\ Forget({r})
          /\ slipped' = (IF req[r].pc = "committed" THEN slipped \cup {r} ELSE slipped)
          /\ \A s \in Resends \ {r} : req'[s] = req[s]
      BY <1>0, <2>10, OwnRequest DEF GiveUp, redis, At, Phases
    <3>2. Sent(r) => r \in slipped'
      BY <3>1 DEF SendInv, Counting
    <3>3. \A s \in Resends : began'[s] = began[s] \/ (began'[s] = 0 /\ s = r)
      BY <3>1 DEF Forget
    <3>4. slipped \subseteq slipped' /\ \A s \in slipped' : s \in slipped \/ (s = r /\ Sent(r))
      BY <3>1 DEF LinkInv, Progress
    <3> QED  BY <1>0, <3>1, <3>2, <3>3, <3>4, BarrierSteps
  <2> QED  BY <1>1, <2>1, <2>2, <2>3, <2>4, <2>5, <2>6, <2>7, <2>8, <2>9, <2>10 DEF Resend
<1>c. ASSUME UNCHANGED <<clock, challenge, slipped, began, req, barrier, cooldown>>,
             Pruned(clock) \subseteq manual', manual' \subseteq manual
      PROVE  SendInv'
  <2>1. cooldown <= cooldown' /\ clock <= clock
    BY <1>0, <1>c DEF TypeOK
  <2>2. \A s \in manual' : Sent(s)
    BY <1>c DEF SendInv, Counting, LinkInv, TypeOK
  <2>3. \A s \in Resends \ {NoResend} : req'[s] = req[s]
    BY <1>c
  <2> QED  BY <1>0, <1>c, <2>1, <2>2, <2>3, CountSteps
<1>s. Pruned(clock) \subseteq manual
  BY <1>p
<1>2. ASSUME UNCHANGED <<clock, redis, req, history>>,
             \A s \in Resends : Sent(s)' = Sent(s) /\ challenge'[s].at = challenge[s].at
      PROVE  SendInv'
  <2>1. UNCHANGED <<clock, manual, cooldown, barrier, req, slipped, began>>
    BY <1>2 DEF redis, history
  <2>2. \A s \in Resends : Sent(s) /\ s \notin slipped' =>
          \/ req'[s].pc = "committed" /\ barrier'.owner = s
          \/ req'[s].pc = "done" /\ Remembered(s)'
    BY <1>2, <2>1, StillCounted
  <2>3. \A s \in manual' \cup slipped' : Sent(s)
    BY <2>1 DEF SendInv, Counting, LinkInv, TypeOK
  <2>4. barrier'.owner # NoResend => barrier'.until > clock'
    BY <2>1 DEF SendInv, BarrierOK
  <2>5. \A s \in Resends : Holds(s)' =>
          Holds(s) /\ req'[s].now = req[s].now /\ began'[s] = began[s]
    BY <2>1 DEF Holds
  <2>6. \A s \in Resends : req'[s].pc \in {"arrived", "acquired", "locked"} =>
          req'[s].now <= clock'
    BY <2>1 DEF SendInv, Counting
  <2>7. /\ slipped \subseteq slipped' /\ clock <= clock'
        /\ \A s \in Resends : began'[s] = began[s] \/ began'[s] = 0
        /\ \A s \in Resends : Sent(s) /\ s \notin slipped' => began'[s] = began[s]
    BY <1>0, <2>1
  <2> QED  BY <1>0, <1>2, <2>2, <2>3, <2>4, <2>5, <2>6, <2>7, Quiet
<1>3. CASE HandleUserCreated
  <2>1. \A s \in Resends : challenge'[s] = challenge[s]
    BY <1>0, <1>3 DEF HandleUserCreated, TypeOK, Challenges
  <2>2. \A s \in Resends : Sent(s)' = Sent(s) /\ challenge'[s].at = challenge[s].at
    BY <2>1 DEF Sent
  <2>3. UNCHANGED <<clock, redis, req, history>>
    BY <1>3 DEF HandleUserCreated
  <2> QED  BY <1>2, <2>2, <2>3
<1>4. CASE CompleteAutomatic
  <2>1. /\ UNCHANGED <<clock, challenge, slipped, began, req>> /\ Complete(Automatic)
        /\ Automatic \in Challenges
    BY <1>4 DEF CompleteAutomatic, stored, history, Challenges
  <2>2. cooldown <= cooldown' \/ cooldown <= clock
    BY <1>0, <2>1, Completed
  <2>3. manual' = Pruned(clock)
    BY <1>0, <2>1 DEF Complete
  <2>4. barrier' = barrier
    BY <1>0, <2>1, Policy DEF Complete
  <2>5. Pruned(clock) \subseteq manual' /\ clock <= clock /\ \A s \in manual' : Sent(s)
    BY <1>0, <1>p, <2>3
  <2>6. \A s \in Resends \ {NoResend} : req'[s] = req[s]
    BY <2>1
  <2> QED  BY <1>0, <2>1, <2>2, <2>4, <2>5, <2>6, CountSteps
<1>5. CASE CompleteAutomaticFails
  BY <1>c, <1>s, <1>5 DEF CompleteAutomaticFails, stored, redis, history
<1>6. CASE Redeliver
  BY <1>c, <1>s, <1>6 DEF Redeliver, stored, redis, history
<1>7. ASSUME NEW d \in Challenges, Confirm(d) PROVE SendInv'
  <2>1. Sent(d) /\ UNCHANGED <<clock, redis, req, history>>
    BY <1>7 DEF Confirm, LockConfirmed, CommitConfirmation, ConfirmationFails, Sent
  <2>2. \A s \in Challenges \ {d} : challenge'[s] = challenge[s]
    BY <1>0, <1>7 DEF Confirm, LockConfirmed, CommitConfirmation, ConfirmationFails, TypeOK
  <2>3. Sent(d)' /\ challenge'[d].at = challenge[d].at
    BY <1>7, <2>1, LinksStay
  <2>4. \A s \in Resends : Sent(s)' = Sent(s) /\ challenge'[s].at = challenge[s].at
    BY <2>1, <2>2, <2>3 DEF Sent, Challenges
  <2> QED  BY <1>2, <2>1, <2>4
<1>8. CASE ReadStatus
  <2>1. /\ UNCHANGED <<clock, challenge, slipped, began, req, barrier, cooldown>>
        /\ manual' = Pruned(clock)
    BY <1>8 DEF ReadStatus, stored, history
  <2> QED  BY <1>c, <1>p, <2>1
<1>9. CASE Tick
  BY <1>0, <1>9, TickStep
<1>10. CASE UNCHANGED vars
  BY <1>c, <1>s, <1>10 DEF vars, stored, redis, history
<1> QED  BY <1>1, <1>3, <1>4, <1>5, <1>6, <1>7, <1>8, <1>9, <1>10 DEF Next, Handler

LEMMA SendInit ==
  Init => SendInv
<1> SUFFICES ASSUME Init PROVE SendInv
  OBVIOUS
<1>1. /\ clock = 1 /\ manual = {} /\ slipped = {} /\ barrier.owner = NoResend
      /\ NoResend \notin Resends
      /\ \A s \in Resends : ~Sent(s) /\ req[s].pc = "idle" /\ began[s] = 0
  BY Policy DEF Init, Sent, NoBarrier, Challenges
<1>2. \A s \in Resends : ~Holds(s)
  BY <1>1 DEF Holds
<1>3. BarrierOK /\ Spaced
  BY <1>1, <1>2 DEF BarrierOK, Spaced
<1>4. \A s \in Resends : Counting(s)
  BY <1>1 DEF Counting
<1>5. ASSUME NEW t \in Nat PROVE IsFiniteSet(Weighing(t)) /\ Cardinality(Weighing(t)) <= Limit
  <2>1. Weighing(t) = {}
    BY <1>1, <1>2 DEF Weighing, Weighs
  <2> QED  BY <2>1, FS_EmptySet, Policy
<1> QED  BY <1>3, <1>4, <1>5 DEF SendInv, Limited
-----------------------------------------------------------------------------
(* The status *)

\* The daily wait is positive when the limit is reached, and ends with the
\* window of the oldest send.
LEMMA DailyWaitEnds ==
  ASSUME LinkInv, NEW now \in Nat
  PROVE  /\ DailyWait(now) \in Nat
         /\ DailyWait(now) = 0 <=> ~LimitReached(now)
         /\ LimitReached(now) =>
              \E o \in Pruned(now) : challenge[o].at + Window <= now + DailyWait(now)
<1> DEFINE P == Pruned(now)
           Oldest(m) == \A n \in P : challenge[m].at <= challenge[n].at
<1>1. CASE ~LimitReached(now)
  BY <1>1 DEF DailyWait
<1>2. CASE LimitReached(now)
  <2>1. P # {} /\ P \subseteq Resends
    <3>1. P \subseteq manual /\ manual \subseteq Resends
      BY PrunedSubset DEF LinkInv, TypeOK
    <3>2. Cardinality(P) >= Limit /\ Cardinality({}) = 0
      BY <1>2, FS_EmptySet DEF LimitReached
    <3> QED  BY <3>1, <3>2, Policy
  <2>2. \A m \in P : challenge[m].at \in Nat /\ challenge[m].at + Window > now
    BY <2>1 DEF LinkInv, TypeOK, Challenge, Challenges, Pruned
  <2>3. \E m \in P : Oldest(m)
    <3> DEFINE T == {challenge[m].at : m \in P}
    <3>1. T \subseteq Nat /\ T # {}
      BY <2>1, <2>2
    <3> HIDE DEF T
    <3>2. \E x \in T : \A y \in T : x <= y
      BY <3>1, Least
    <3> QED  BY <3>2 DEF T
  <2> DEFINE o == CHOOSE m \in P : Oldest(m)
  <2>4. o \in P /\ Oldest(o)
    BY <2>3
  <2>5. DailyWait(now) = challenge[o].at + Window - now
    BY <1>2 DEF DailyWait
  <2> HIDE DEF o, P, Oldest
  <2>6. challenge[o].at \in Nat /\ challenge[o].at + Window > now /\ Window \in Nat
    BY <2>2, <2>4, Policy
  <2>7. DailyWait(now) \in Nat /\ DailyWait(now) # 0
    BY <2>5, <2>6
  <2>8. challenge[o].at + Window <= now + DailyWait(now)
    BY <2>5, <2>6
  <2> QED  BY <1>2, <2>4, <2>7, <2>8 DEF P
<1> QED  BY <1>1, <1>2

\* Retry-After is the longest of the three waits.
LEMMA RetryAfterIsLongest ==
  ASSUME LinkInv, NEW now \in Nat
  PROVE  /\ CooldownWait \in Nat /\ BarrierWait \in Nat /\ DailyWait(now) \in Nat
         /\ RetryAfter(now) \in {CooldownWait, BarrierWait, DailyWait(now)}
         /\ CooldownWait <= RetryAfter(now) /\ BarrierWait <= RetryAfter(now)
         /\ DailyWait(now) <= RetryAfter(now)
<1> DEFINE a == CooldownWait
           b == BarrierWait
           c == DailyWait(now)
           Longest(w) == \A v \in {a, b, c} : v <= w
<1>1. a \in Nat /\ b \in Nat /\ c \in Nat
  <2>1. clock \in Nat /\ cooldown \in Nat /\ barrier.until \in Nat
    BY DEF LinkInv, TypeOK
  <2> QED  BY <2>1, DailyWaitEnds DEF CooldownWait, BarrierWait
<1>2. RetryAfter(now) = CHOOSE w \in {a, b, c} : Longest(w)
  BY DEF RetryAfter
<1> HIDE DEF a, b, c
<1>3. \E w \in {a, b, c} : Longest(w)
  BY <1>1
<1>4. RetryAfter(now) \in {a, b, c} /\ Longest(RetryAfter(now))
  BY <1>2, <1>3
<1>5. RetryAfter(now) \in {a, b, c} /\ a <= RetryAfter(now) /\ b <= RetryAfter(now)
      /\ c <= RetryAfter(now)
  BY <1>4
<1> QED  BY <1>1, <1>5 DEF a, b, c

LEMMA StatusFollows ==
  ASSUME LinkInv, SendInv
  PROVE  StatusIsAnswered
<1> DEFINE used == Cardinality(Pruned(clock))
           wait == RetryAfter(clock)
           P == Pruned(clock)
<1>1. clock \in Nat /\ used \in Nat
  BY PrunedSubset DEF LinkInv, TypeOK
<1>2. /\ CooldownWait \in Nat /\ BarrierWait \in Nat /\ DailyWait(clock) \in Nat
      /\ wait \in {CooldownWait, BarrierWait, DailyWait(clock)}
      /\ CooldownWait <= wait /\ BarrierWait <= wait /\ DailyWait(clock) <= wait
  BY <1>1, RetryAfterIsLongest
<1>3. (wait = 0) <=> Available(clock)
  <2>1. (wait = 0) <=> (CooldownWait = 0 /\ BarrierWait = 0 /\ DailyWait(clock) = 0)
    <3> HIDE DEF wait
    <3> QED  BY <1>2
  <2>2. DailyWait(clock) = 0 <=> ~LimitReached(clock)
    BY <1>1, DailyWaitEnds
  <2> QED  BY <2>1, <2>2 DEF Available
<1> DEFINE free == wait = 0
<1>4. /\ Load(clock).available = free /\ Load(clock).retryAfter = wait
      /\ Load(clock).used = used /\ Load(clock).remaining = Later(Limit - used, 0)
  <2> DEFINE rest == Later(Limit - used, 0)
  <2>1. Load(clock) = [available |-> free, retryAfter |-> wait, used |-> used, remaining |-> rest]
    BY DEF Load
  <2> HIDE DEF free, wait, used, rest
  <2>2. /\ Load(clock).available = free /\ Load(clock).retryAfter = wait
        /\ Load(clock).used = used /\ Load(clock).remaining = rest
    BY <2>1
  <2> QED  BY <2>2 DEF rest
<1>5. ASSUME P \cap slipped = {} PROVE used <= Limit
  <2>1. P \subseteq Weighing(clock)
    <3> SUFFICES ASSUME NEW m \in P PROVE m \in Weighing(clock)
      OBVIOUS
    <3>1. m \in manual /\ m \in Resends /\ challenge[m].at + Window > clock
      BY DEF Pruned, LinkInv, TypeOK
    <3>2. Sent(m) /\ m \notin slipped /\ began[m] <= clock
      BY <1>5, <3>1 DEF SendInv, Counting
    <3>3. challenge[m].at \in Nat
      BY <3>1 DEF LinkInv, TypeOK, Challenge, Challenges
    <3>4. clock < challenge[m].at + Window
      BY <1>1, <3>1, <3>3, Policy
    <3> QED  BY <3>1, <3>2, <3>4 DEF Weighing, Weighs, Stamp
  <2>2. IsFiniteSet(Weighing(clock)) /\ Cardinality(Weighing(clock)) <= Limit
    BY <1>1 DEF SendInv, Limited
  <2> HIDE DEF P, Weighing
  <2>3. Cardinality(P) <= Cardinality(Weighing(clock)) /\ IsFiniteSet(P)
    BY <2>1, <2>2, FS_Subset
  <2>4. Cardinality(P) \in Nat /\ Cardinality(Weighing(clock)) \in Nat
    BY <2>2, <2>3, FS_CardinalityType
  <2>5. Cardinality(P) <= Limit
    BY <2>2, <2>3, <2>4, Policy
  <2> QED  BY <2>5 DEF P
<1>6. used <= Limit => Later(Limit - used, 0) = Limit - used
  <2> HIDE DEF used
  <2> QED  BY <1>1, Policy DEF Later
<1>7. free \/ wait > 0
  BY <1>2
<1>8. free <=> Available(clock)
  BY <1>3
<1> HIDE DEF used, wait, free
<1>9. used <= Limit => Parsed(Load(clock))
  <2>1. ASSUME used <= Limit
        PROVE  Load(clock).used <= Limit /\ Load(clock).remaining = Limit - Load(clock).used
    BY <1>4, <1>6, <2>1
  <2>2. Load(clock).available \/ Load(clock).retryAfter > 0
    BY <1>4, <1>7
  <2> QED  BY <2>1, <2>2 DEF Parsed
<1>10. Load(clock).available <=> Available(clock)
  BY <1>4, <1>8
<1> QED  BY <1>5, <1>9, <1>10 DEF StatusIsAnswered, P

LEMMA RetryFollows ==
  ASSUME LinkInv
  PROVE  RetryAfterSuffices
<1> DEFINE then == clock + RetryAfter(clock)
           P == Pruned(clock)
           Q == Pruned(clock + RetryAfter(clock))
<1> SUFFICES ASSUME Parsed(Load(clock))
             PROVE  cooldown <= then /\ barrier.until <= then /\ Cardinality(Q) < Limit
  BY DEF RetryAfterSuffices
<1>1. /\ clock \in Nat /\ cooldown \in Nat /\ barrier.until \in Nat
      /\ IsFiniteSet(P) /\ Cardinality(P) \in Nat
  BY PrunedSubset DEF LinkInv, TypeOK
<1>2. /\ CooldownWait \in Nat /\ BarrierWait \in Nat /\ DailyWait(clock) \in Nat
      /\ CooldownWait <= RetryAfter(clock) /\ BarrierWait <= RetryAfter(clock)
      /\ DailyWait(clock) <= RetryAfter(clock) /\ RetryAfter(clock) \in Nat
  BY <1>1, RetryAfterIsLongest
<1>3. cooldown <= then
  BY <1>1, <1>2 DEF CooldownWait
<1>4. barrier.until <= then
  BY <1>1, <1>2 DEF BarrierWait
<1>5. then \in Nat /\ clock <= then
  BY <1>1, <1>2
<1> HIDE DEF then
<1>6. Q = Pruned(then)
  BY DEF then
<1>7. Q \subseteq P
  <2> SUFFICES ASSUME NEW m \in Q PROVE m \in P
    OBVIOUS
  <2>1. m \in manual /\ challenge[m].at + Window > then /\ challenge[m].at \in Nat
    BY <1>6 DEF Pruned, LinkInv, TypeOK, Challenge, Challenges
  <2>2. challenge[m].at + Window > clock
    BY <1>1, <1>5, <2>1, Policy
  <2> QED  BY <2>1, <2>2 DEF Pruned
<1>8. Cardinality(P) <= Limit
  BY DEF Parsed, Load
<1>9. CASE ~LimitReached(clock)
  <2>1. Cardinality(P) < Limit
    BY <1>1, <1>9, Policy DEF LimitReached
  <2> HIDE DEF P, Q
  <2>2. IsFiniteSet(Q) /\ Cardinality(Q) <= Cardinality(P)
    BY <1>1, <1>7, FS_Subset
  <2>3. Cardinality(Q) \in Nat
    BY <2>2, FS_CardinalityType
  <2> QED  BY <1>1, <1>3, <1>4, <2>1, <2>2, <2>3, Policy
<1>10. CASE LimitReached(clock)
  <2>1. PICK o \in P : challenge[o].at + Window <= clock + DailyWait(clock)
    BY <1>1, <1>10, DailyWaitEnds
  <2>2. challenge[o].at \in Nat
    BY DEF Pruned, LinkInv, TypeOK, Challenge, Challenges
  <2>3. challenge[o].at + Window <= then
    BY <1>1, <1>2, <2>1, <2>2, Policy DEF then
  <2>4. o \notin Q
    BY <1>5, <1>6, <2>2, <2>3, Policy DEF Pruned
  <2> HIDE DEF P, Q
  <2>5. Q \subseteq P \ {o}
    BY <1>7, <2>4
  <2>6. IsFiniteSet(P \ {o}) /\ Cardinality(P \ {o}) = Cardinality(P) - 1
    BY <1>1, FS_RemoveElement
  <2>7. IsFiniteSet(Q) /\ Cardinality(Q) <= Cardinality(P \ {o})
    BY <2>5, <2>6, FS_Subset
  <2>8. Cardinality(Q) \in Nat
    BY <2>7, FS_CardinalityType
  <2> QED  BY <1>1, <1>3, <1>4, <1>8, <2>6, <2>7, <2>8, Policy
<1> QED  BY <1>9, <1>10

LEMMA LimitFollows ==
  ASSUME LinkInv, SendInv
  PROVE  SendsAreLimited
<1> DEFINE Counted == {r \in Resends \ slipped : Sent(r)}
           InWindow(t) == {r \in Counted : began[r] <= t /\ t < challenge[r].at + Window}
<1> SUFFICES ASSUME NEW r \in Counted PROVE Cardinality(InWindow(began[r])) <= Limit
  BY DEF SendsAreLimited
<1> DEFINE t == began[r]
           I == InWindow(t)
           W == Weighing(t)
<1>1. t \in Nat
  BY DEF LinkInv, TypeOK
<1>2. I \subseteq W
  BY DEF Weighing, Weighs, Stamp
<1>3. IsFiniteSet(W) /\ Cardinality(W) <= Limit
  BY <1>1 DEF SendInv, Limited
<1>4. I = InWindow(began[r])
  OBVIOUS
<1> HIDE DEF I, W
<1>5. IsFiniteSet(I) /\ Cardinality(I) <= Cardinality(W)
  BY <1>2, <1>3, FS_Subset
<1>6. Cardinality(I) \in Nat /\ Cardinality(W) \in Nat
  BY <1>3, <1>5, FS_CardinalityType
<1>7. Cardinality(I) <= Limit
  BY <1>3, <1>5, <1>6, Policy
<1> QED  BY <1>4, <1>7

-----------------------------------------------------------------------------
\* Both invariants hold in every reachable state.
THEOREM VerificationInductive == Spec => [](LinkInv /\ SendInv)
<1>1. Init => LinkInv /\ SendInv
  BY LinkInductive, SendInit
<1>2. LinkInv /\ SendInv /\ [Next]_vars => LinkInv' /\ SendInv'
  BY LinkInductive, SendStep
<1> QED  BY <1>1, <1>2, PTL DEF Spec

\* The variables have their types, however often links are sent and confirmed.
THEOREM VerificationTypeOK == Spec => []TypeOK
<1>1. LinkInv => TypeOK
  BY DEF LinkInv
<1> QED  BY <1>1, VerificationInductive, PTL

\* Confirming several links at once verifies the user once: the row lock of the
\* user decides who sees it PENDING.
THEOREM VerificationVerifiedOnce == Spec => []VerifiedOnce
<1>1. LinkInv => VerifiedOnce
  BY DEF LinkInv
<1> QED  BY <1>1, VerificationInductive, PTL

\* While the cooldown forbids a resend some link can still be used: the backoff
\* is bounded by the maximum that config.module.ts holds against the token TTL.
THEOREM VerificationCooldownLeavesALink == Spec => []CooldownLeavesALink
<1>1. LinkInv => CooldownLeavesALink
  BY DEF LinkInv
<1> QED  BY <1>1, VerificationInductive, PTL

\* No window holds more manual sends than the limit, whatever number of
\* requests races between BEGIN, the commit and COMPLETE, except those whose
\* barrier lapsed before they were counted.
THEOREM VerificationSendsAreLimited == Spec => []SendsAreLimited
<1>1. LinkInv /\ SendInv => SendsAreLimited
  BY LimitFollows
<1> QED  BY <1>1, VerificationInductive, PTL

\* A resend that begins after another one waits for that one's cooldown, also
\* when COMPLETE runs late.
THEOREM VerificationSendsAreSpaced == Spec => []SendsAreSpaced
<1>1. LinkInv /\ SendInv => SendsAreSpaced
  BY DEF SendInv, Spaced, SendsAreSpaced, Weighs
<1> QED  BY <1>1, VerificationInductive, PTL

\* The parsers accept the reply of LOAD unless a send is counted whose barrier
\* lapsed, and the reply says available exactly when BEGIN would let a resend in.
THEOREM VerificationStatusIsAnswered == Spec => []StatusIsAnswered
<1>1. LinkInv /\ SendInv => StatusIsAnswered
  BY StatusFollows
<1> QED  BY <1>1, VerificationInductive, PTL

\* The announced wait is long enough for each of the three restrictions.
THEOREM VerificationRetryAfterSuffices == Spec => []RetryAfterSuffices
<1>1. LinkInv => RetryAfterSuffices
  BY RetryFollows
<1> QED  BY <1>1, VerificationInductive, PTL

-----------------------------------------------------------------------------
(***************************************************************************)
(* Part two: the record.                                                   *)
(***************************************************************************)

\* Nobody but the holder of the row lock is between its write and its commit.
LockHeld ==
  \A r \in Requests : saving[r].pc \in {"locked", "cleared"} => rowLock = r

\* A use case that read under the lock still has the current record.
LockedIsCurrent ==
  \A r \in Requests :
    saving[r].pc \in {"locked", "cleared"} /\ saving[r].use \in Rec!Locked
    => /\ saving[r].diff = {Rec!Own(r)}
       /\ saving[r].copy[Rec!Own(r)] = row[Rec!Own(r)] + 1

\* What a reader is about to put into the cache was committed.
FillsCommitted ==
  /\ exists => row \in versions
  /\ \A r \in Requests :
       saving[r].pc \in {"filling", "refilling"} => saving[r].copy \in versions

\* Before the user exists nothing was committed and nobody has read him.
Unborn ==
  ~exists => /\ versions = {}
             /\ \A r \in Requests :
                  saving[r].pc \in {"idle", "absent", "locked", "cleared", "done"}

\* Only a sign-up and the OAuth callback create the user.
Creators == \A r \in Requests : saving[r].pc = "absent" => saving[r].use \notin Rec!Locked

RecordInv ==
  /\ Rec!TypeOK /\ LockHeld /\ LockedIsCurrent /\ Creators /\ FillsCommitted
  /\ Unborn /\ Rec!LockedChangesSurvive /\ Rec!EntryWasCommitted

-----------------------------------------------------------------------------
(* A use case changes a column; only the two without a lock change names or *)
(* link a provider unlocked.                                                *)
LEMMA OwnColumn ==
  ASSUME Rec!TypeOK, NEW r \in Requests
  PROVE  /\ Rec!Own(r) \in Rec!Columns
         /\ Rec!Own(r) \notin {"names", "providers"} => saving[r].use \in Rec!Locked
         /\ saving[r].use = "UpdateProfile" => Rec!Own(r) = "names"
<1>1. saving[r].use \in Rec!UseCases
  BY DEF Rec!TypeOK, Rec!Request
<1> QED BY <1>1 DEF Rec!UseCases, Rec!Changes, Rec!Columns, Rec!Locked, Rec!Own

(* The copy a use case saves is a record.                                  *)
LEMMA ChangedRecord ==
  ASSUME Rec!TypeOK, NEW r \in Requests, NEW record \in Rec!Record
  PROVE  /\ Rec!Changed(r, record) \in Rec!Record
         /\ Rec!Changed(r, record)[Rec!Own(r)] = record[Rec!Own(r)] + 1
<1>1. Rec!Own(r) \in Rec!Columns
  BY OwnColumn
<1> QED BY <1>1 DEF Rec!Changed, Rec!Record

(* The record after an update is a record.                                 *)
LEMMA UpdatedRecord ==
  ASSUME Rec!TypeOK, NEW r \in Requests
  PROVE  Rec!Updated(r) \in Rec!Record
<1>1. /\ row \in [Rec!Columns -> Nat]
      /\ saving[r].copy \in [Rec!Columns -> Nat]
  BY DEF Rec!TypeOK, Rec!Record, Rec!Request
<1> QED BY <1>1 DEF Rec!Updated, Rec!Record

(* Initial states satisfy the invariant.                                   *)
LEMMA RecordInit == Rec!Init => RecordInv
<1> SUFFICES ASSUME Rec!Init PROVE RecordInv
  OBVIOUS
<1>1. Rec!First \in Rec!Record
  BY DEF Rec!First, Rec!Record
<1>2. \A r \in Requests : \E u \in Rec!UseCases : saving[r] = Rec!Idle(u)
  BY DEF Rec!Init
<1>3. \A r \in Requests : saving[r].pc = "idle" /\ saving[r] \in Rec!Request
  <2> TAKE r \in Requests
  <2>1. PICK u \in Rec!UseCases : saving[r] = Rec!Idle(u)
    BY <1>2
  <2>2. Rec!Idle(u) \in Rec!Request
    BY <1>1, Zenon DEF Rec!Idle, Rec!Request, Rec!Phases
  <2> QED BY <2>1, <2>2 DEF Rec!Idle
<1>4. saving \in [Requests -> Rec!Request]
  BY <1>3 DEF Rec!Init
<1>5. Rec!TypeOK
  BY <1>1, <1>4 DEF Rec!TypeOK, Rec!Init
<1>6. LockHeld /\ LockedIsCurrent /\ Creators
  BY <1>3 DEF LockHeld, LockedIsCurrent, Creators
<1>7. FillsCommitted /\ Unborn /\ Rec!EntryWasCommitted
  BY <1>3 DEF FillsCommitted, Unborn, Rec!EntryWasCommitted, Rec!Init
<1>8. Rec!LockedChangesSurvive
  BY DEF Rec!LockedChangesSurvive, Rec!Init
<1> QED BY <1>5, <1>6, <1>7, <1>8 DEF RecordInv

-----------------------------------------------------------------------------
(* A request that moves to a phase is a request.                           *)
LEMMA GotoType ==
  ASSUME Rec!TypeOK, NEW r \in Requests, NEW phase \in Rec!Phases, Rec!Goto(r, phase)
  PROVE  saving' \in [Requests -> Rec!Request]
  BY DEF Rec!TypeOK, Rec!Goto, Rec!Request

(* A request that takes a copy is a request.                               *)
LEMMA LoadType ==
  ASSUME Rec!TypeOK, NEW r \in Requests, NEW phase \in Rec!Phases, NEW record \in Rec!Record,
         Rec!Load(r, phase, record)
  PROVE  saving' \in [Requests -> Rec!Request]
  BY DEF Rec!TypeOK, Rec!Load, Rec!Request

(* An update keeps the types of the record and of the history.             *)
LEMMA CommitType ==
  ASSUME Rec!TypeOK, NEW r \in Requests, Rec!CommitUpdate(r)
  PROVE  /\ row' \in Rec!Record /\ committed' \in Rec!Record
         /\ versions' \in SUBSET Rec!Record /\ overwritten' \in SUBSET Rec!Columns
<1>1. Rec!Updated(r) \in Rec!Record
  BY UpdatedRecord
<1>2. saving[r].diff \in SUBSET Rec!Columns
  BY DEF Rec!TypeOK, Rec!Request
<1>3. committed' \in Rec!Record
  BY OwnColumn DEF Rec!TypeOK, Rec!CommitUpdate, Rec!Record
<1> QED BY <1>1, <1>2, <1>3 DEF Rec!TypeOK, Rec!CommitUpdate

(* Every step keeps the types.                                             *)
LEMMA RecordTypeStep == Rec!TypeOK /\ [Rec!Next]_Rec!vars => Rec!TypeOK'
<1> SUFFICES ASSUME Rec!TypeOK, [Rec!Next]_Rec!vars PROVE Rec!TypeOK'
  OBVIOUS
<1> USE DEF Rec!history
<1>1. ASSUME NEW r \in Requests, Rec!CacheHit(r) PROVE Rec!TypeOK'
  <2>1. entry \in Rec!Record /\ Rec!AfterRead(r) \in Rec!Phases
    BY <1>1 DEF Rec!CacheHit, Rec!TypeOK, Rec!AfterRead, Rec!Phases
  <2> QED BY <1>1, <2>1, LoadType DEF Rec!CacheHit, Rec!TypeOK
<1>2. ASSUME NEW r \in Requests, Rec!CacheMiss(r) PROVE Rec!TypeOK'
  BY <1>2, GotoType DEF Rec!CacheMiss, Rec!TypeOK, Rec!Phases
<1>3. ASSUME NEW r \in Requests, Rec!FillRead(r) PROVE Rec!TypeOK'
  BY <1>3, LoadType DEF Rec!FillRead, Rec!TypeOK, Rec!Phases
<1>4. ASSUME NEW r \in Requests, Rec!FillSet(r) PROVE Rec!TypeOK'
  <2>1. Rec!AfterRead(r) \in Rec!Phases /\ saving[r].copy \in Rec!Record
    BY DEF Rec!TypeOK, Rec!Request, Rec!AfterRead, Rec!Phases
  <2> QED BY <1>4, <2>1, GotoType DEF Rec!FillSet, Rec!TypeOK
<1>5. ASSUME NEW r \in Requests, Rec!PlainRead(r) PROVE Rec!TypeOK'
  BY <1>5, LoadType DEF Rec!PlainRead, Rec!TypeOK, Rec!Phases
<1>6. ASSUME NEW r \in Requests, Rec!SaveSelect(r) PROVE Rec!TypeOK'
  <2> DEFINE copy == Rec!Changed(r, saving[r].copy)
             diff == {Rec!Own(r)} \cup {c \in Rec!Columns : saving[r].copy[c] # row[c]}
  <2>1. copy \in Rec!Record
    BY ChangedRecord DEF Rec!TypeOK, Rec!Request
  <2>2. diff \in SUBSET Rec!Columns
    BY OwnColumn
  <2>3. saving' = [saving EXCEPT ![r].pc = "diffed", ![r].copy = copy, ![r].diff = diff]
    BY <1>6 DEF Rec!SaveSelect
  <2> HIDE DEF copy, diff
  <2>4. saving' \in [Requests -> Rec!Request]
    BY <2>1, <2>2, <2>3 DEF Rec!TypeOK, Rec!Request, Rec!Phases
  <2> QED BY <1>6, <2>4 DEF Rec!SaveSelect, Rec!TypeOK
<1>7. ASSUME NEW r \in Requests, Rec!SaveRefused(r) PROVE Rec!TypeOK'
  BY <1>7, GotoType DEF Rec!SaveRefused, Rec!TypeOK, Rec!Phases
<1>8. ASSUME NEW r \in Requests, Rec!SaveProfile(r) PROVE Rec!TypeOK'
  BY <1>8, GotoType, CommitType DEF Rec!SaveProfile, Rec!TypeOK, Rec!Phases
<1>9. ASSUME NEW r \in Requests, Rec!InvalidateSaved(r) PROVE Rec!TypeOK'
  BY <1>9, GotoType DEF Rec!InvalidateSaved, Rec!TypeOK, Rec!Phases
<1>10. ASSUME NEW r \in Requests, Rec!RefreshRead(r) PROVE Rec!TypeOK'
  BY <1>10, LoadType DEF Rec!RefreshRead, Rec!TypeOK, Rec!Phases
<1>11. ASSUME NEW r \in Requests, Rec!RefreshSet(r) PROVE Rec!TypeOK'
  <2>1. saving[r].copy \in Rec!Record
    BY DEF Rec!TypeOK, Rec!Request
  <2> QED BY <1>11, <2>1, GotoType DEF Rec!RefreshSet, Rec!TypeOK, Rec!Phases
<1>12. ASSUME NEW r \in Requests, Rec!WriteLock(r) PROVE Rec!TypeOK'
  BY <1>12, GotoType DEF Rec!WriteLock, Rec!TypeOK, Rec!Phases
<1>13. ASSUME NEW r \in Requests, Rec!LockRead(r) PROVE Rec!TypeOK'
  <2>1. Rec!Changed(r, row) \in Rec!Record /\ {Rec!Own(r)} \in SUBSET Rec!Columns
    BY ChangedRecord, OwnColumn DEF Rec!TypeOK
  <2>2. saving' \in [Requests -> Rec!Request]
    BY <1>13, <2>1 DEF Rec!LockRead, Rec!TypeOK, Rec!Request, Rec!Phases
  <2> QED BY <1>13, <2>2 DEF Rec!LockRead, Rec!TypeOK
<1>14. ASSUME NEW r \in Requests, Rec!ClearInTransaction(r) PROVE Rec!TypeOK'
  BY <1>14, GotoType DEF Rec!ClearInTransaction, Rec!TypeOK, Rec!Phases
<1>15. ASSUME NEW r \in Requests, Rec!Commit(r) PROVE Rec!TypeOK'
  BY <1>15, GotoType, CommitType DEF Rec!Commit, Rec!TypeOK, Rec!Phases
<1>16. ASSUME NEW r \in Requests, Rec!InvalidateAgain(r) PROVE Rec!TypeOK'
  BY <1>16, GotoType DEF Rec!InvalidateAgain, Rec!TypeOK, Rec!Phases
<1>17. ASSUME NEW r \in Requests, Rec!GiveUp(r) PROVE Rec!TypeOK'
  BY <1>17, GotoType DEF Rec!GiveUp, Rec!TypeOK, Rec!Phases
<1>18. CASE Rec!EntryExpires
  BY <1>18 DEF Rec!EntryExpires, Rec!TypeOK
<1>19. CASE UNCHANGED Rec!vars
  BY <1>19 DEF Rec!vars, Rec!TypeOK
<1>20. ASSUME NEW r \in Requests,
             Rec!IndexMiss(r) \/ Rec!FindNobody(r) \/ Rec!CreateRefused(r)
       PROVE  Rec!TypeOK'
  BY <1>20, GotoType DEF Rec!IndexMiss, Rec!FindNobody, Rec!CreateRefused, Rec!TypeOK,
      Rec!Phases
<1>21. ASSUME NEW r \in Requests, Rec!Insert(r) PROVE Rec!TypeOK'
  BY <1>21, GotoType DEF Rec!Insert, Rec!TypeOK, Rec!Phases
<1>22. ASSUME NEW r \in Requests, Rec!CommitInsert(r) PROVE Rec!TypeOK'
  BY <1>22, GotoType DEF Rec!CommitInsert, Rec!TypeOK, Rec!Phases
<1> QED
  BY <1>1, <1>2, <1>3, <1>4, <1>5, <1>6, <1>7, <1>8, <1>9, <1>10, <1>11, <1>12,
     <1>13, <1>14, <1>15, <1>16, <1>17, <1>18, <1>19, <1>20, <1>21, <1>22
  DEF Rec!Next, Rec!Step, Rec!ReadCached, Rec!Create, Rec!SaveUnlocked, Rec!SaveLocked

-----------------------------------------------------------------------------
(* A step that writes neither the row nor its lock, of a request that is not *)
(* about to commit afterwards.                                               *)
LEMMA QuietStep ==
  ASSUME LockHeld, LockedIsCurrent, NEW r \in Requests,
         row' = row, rowLock' = rowLock,
         \A q \in Requests \ {r} : saving'[q] = saving[q],
         saving'[r].pc \notin {"locked", "cleared"}
  PROVE  LockHeld' /\ LockedIsCurrent'
  BY DEF LockHeld, LockedIsCurrent, Rec!Own

(* Every step keeps the row lock exclusive and what it protects current.   *)
LEMMA LockStep ==
  NoRequest \notin Requests /\ Rec!TypeOK /\ LockHeld /\ LockedIsCurrent /\ Creators
  /\ [Rec!Next]_Rec!vars
  => LockHeld' /\ LockedIsCurrent'
<1> SUFFICES ASSUME NoRequest \notin Requests, Rec!TypeOK, LockHeld, LockedIsCurrent,
                    Creators, [Rec!Next]_Rec!vars
             PROVE  LockHeld' /\ LockedIsCurrent'
  OBVIOUS
<1>n. NoRequest \notin Requests
  OBVIOUS
<1>0. saving \in [Requests -> Rec!Request]
  BY DEF Rec!TypeOK
<1>1. ASSUME NEW r \in Requests, Rec!ReadCached(r) PROVE LockHeld' /\ LockedIsCurrent'
  <2>1. /\ row' = row /\ rowLock' = rowLock
        /\ \A q \in Requests \ {r} : saving'[q] = saving[q]
        /\ saving'[r].pc \notin {"locked", "cleared"}
    BY <1>0, <1>1 DEF Rec!ReadCached, Rec!CacheHit, Rec!CacheMiss, Rec!IndexMiss,
        Rec!FillRead, Rec!FillSet, Rec!Load, Rec!Goto, Rec!AfterRead, Rec!Request
  <2> QED BY <2>1, QuietStep
<1>2. ASSUME NEW r \in Requests,
             \/ Rec!PlainRead(r) \/ Rec!SaveSelect(r) \/ Rec!SaveRefused(r)
             \/ Rec!InvalidateSaved(r) \/ Rec!RefreshRead(r) \/ Rec!RefreshSet(r)
             \/ Rec!InvalidateAgain(r) \/ Rec!FindNobody(r) \/ Rec!CreateRefused(r)
      PROVE  LockHeld' /\ LockedIsCurrent'
  <2>1. row' = row /\ rowLock' = rowLock
    BY <1>2 DEF Rec!PlainRead, Rec!SaveSelect, Rec!SaveRefused, Rec!InvalidateSaved,
        Rec!RefreshRead, Rec!RefreshSet, Rec!InvalidateAgain, Rec!FindNobody,
        Rec!CreateRefused
  <2>2. /\ \A q \in Requests \ {r} : saving'[q] = saving[q]
        /\ saving'[r].pc \notin {"locked", "cleared"}
    BY <1>0, <1>2 DEF Rec!PlainRead, Rec!SaveSelect, Rec!SaveRefused, Rec!InvalidateSaved,
        Rec!RefreshRead, Rec!RefreshSet, Rec!InvalidateAgain, Rec!FindNobody,
        Rec!CreateRefused, Rec!Load, Rec!Goto, Rec!Request
  <2> QED BY <2>1, <2>2, QuietStep
<1>3. ASSUME NEW r \in Requests, Rec!SaveProfile(r) PROVE LockHeld' /\ LockedIsCurrent'
  <2>1. \A q \in Requests : saving[q].pc \notin {"locked", "cleared"}
    BY <1>3, <1>n DEF Rec!SaveProfile, LockHeld
  <2>2. \A q \in Requests : saving'[q].pc \notin {"locked", "cleared"}
    BY <1>0, <1>3, <2>1 DEF Rec!SaveProfile, Rec!Goto, Rec!Request
  <2> QED BY <2>2 DEF LockHeld, LockedIsCurrent
<1>4. ASSUME NEW r \in Requests, Rec!WriteLock(r) \/ Rec!Insert(r)
      PROVE  LockHeld' /\ LockedIsCurrent'
  <2>1. \A q \in Requests : saving[q].pc \notin {"locked", "cleared"}
    BY <1>4, <1>n DEF Rec!WriteLock, Rec!Insert, LockHeld
  <2>2. \A q \in Requests \ {r} : saving'[q].pc \notin {"locked", "cleared"}
    BY <1>0, <1>4, <2>1 DEF Rec!WriteLock, Rec!Insert, Rec!Goto, Rec!Request
  <2>3. saving[r].use \notin Rec!Locked
    BY <1>4 DEF Rec!WriteLock, Rec!Insert, Rec!At, Creators, Rec!Locked
  <2>4. rowLock' = r /\ saving'[r].use = saving[r].use
    BY <1>0, <1>4 DEF Rec!WriteLock, Rec!Insert, Rec!Goto, Rec!Request
  <2> QED BY <2>2, <2>3, <2>4 DEF LockHeld, LockedIsCurrent
<1>5. ASSUME NEW r \in Requests, Rec!LockRead(r) PROVE LockHeld' /\ LockedIsCurrent'
  <2>1. \A q \in Requests : saving[q].pc \notin {"locked", "cleared"}
    BY <1>5, <1>n DEF Rec!LockRead, LockHeld
  <2>2. \A q \in Requests \ {r} : saving'[q].pc \notin {"locked", "cleared"}
    BY <1>0, <1>5, <2>1 DEF Rec!LockRead, Rec!Request
  <2>3. /\ rowLock' = r /\ row' = row /\ saving'[r].use = saving[r].use
        /\ saving'[r].copy = Rec!Changed(r, row) /\ saving'[r].diff = {Rec!Own(r)}
    BY <1>0, <1>5 DEF Rec!LockRead, Rec!Request
  <2>4. Rec!Changed(r, row)[Rec!Own(r)] = row[Rec!Own(r)] + 1
    BY ChangedRecord DEF Rec!TypeOK
  <2>5. Rec!Own(r)' = Rec!Own(r)
    BY <2>3 DEF Rec!Own
  <2> QED BY <2>2, <2>3, <2>4, <2>5 DEF LockHeld, LockedIsCurrent
<1>6. ASSUME NEW r \in Requests, Rec!ClearInTransaction(r)
      PROVE  LockHeld' /\ LockedIsCurrent'
  <2>1. /\ row' = row /\ rowLock' = rowLock /\ saving[r].pc = "locked"
        /\ \A q \in Requests \ {r} : saving'[q] = saving[q]
        /\ saving'[r] = [saving[r] EXCEPT !.pc = "cleared"]
    BY <1>0, <1>6 DEF Rec!ClearInTransaction, Rec!Goto, Rec!At, Rec!Request
  <2>2. /\ saving'[r].use = saving[r].use /\ saving'[r].copy = saving[r].copy
        /\ saving'[r].diff = saving[r].diff
    BY <1>0, <2>1 DEF Rec!Request
  <2>3. LockHeld'
    BY <2>1 DEF LockHeld
  <2>4. LockedIsCurrent'
    <3>1. ASSUME NEW q \in Requests \ {r}
          PROVE  saving'[q].pc \in {"locked", "cleared"} /\ saving'[q].use \in Rec!Locked
                 => /\ saving'[q].diff = {Rec!Own(q)'}
                    /\ saving'[q].copy[Rec!Own(q)'] = row'[Rec!Own(q)'] + 1
      BY <2>1, <3>1 DEF LockedIsCurrent, Rec!Own
    <3>2. Rec!Own(r)' = Rec!Own(r)
      BY <2>2 DEF Rec!Own
    <3>3. saving'[r].use \in Rec!Locked
          => /\ saving'[r].diff = {Rec!Own(r)'}
             /\ saving'[r].copy[Rec!Own(r)'] = row'[Rec!Own(r)'] + 1
      BY <2>1, <2>2, <3>2 DEF LockedIsCurrent
    <3> QED BY <3>1, <3>3 DEF LockedIsCurrent
  <2> QED BY <2>3, <2>4
<1>7. ASSUME NEW r \in Requests, Rec!Commit(r) \/ Rec!CommitInsert(r) \/ Rec!GiveUp(r)
      PROVE  LockHeld' /\ LockedIsCurrent'
  <2>1. /\ \A q \in Requests \ {r} : saving'[q] = saving[q]
        /\ saving'[r].pc \notin {"locked", "cleared"}
    BY <1>0, <1>7 DEF Rec!Commit, Rec!CommitInsert, Rec!GiveUp, Rec!Goto, Rec!Request
  <2>2. CASE Rec!Commit(r) \/ Rec!CommitInsert(r)
    <3>1. \A q \in Requests \ {r} : saving[q].pc \notin {"locked", "cleared"}
      BY <2>2 DEF LockHeld, Rec!Commit, Rec!CommitInsert, Rec!At
    <3> QED BY <2>1, <3>1 DEF LockHeld, LockedIsCurrent
  <2>3. CASE Rec!GiveUp(r)
    BY <2>1, <2>3 DEF LockHeld, LockedIsCurrent, Rec!GiveUp, Rec!Own
  <2> QED BY <1>7, <2>2, <2>3
<1>8. CASE Rec!EntryExpires
  BY <1>8 DEF Rec!EntryExpires, LockHeld, LockedIsCurrent, Rec!Own
<1>9. CASE UNCHANGED Rec!vars
  BY <1>9 DEF Rec!vars, LockHeld, LockedIsCurrent, Rec!Own
<1> QED
  BY <1>1, <1>2, <1>3, <1>4, <1>5, <1>6, <1>7, <1>8, <1>9
  DEF Rec!Next, Rec!Step, Rec!Create, Rec!SaveUnlocked, Rec!SaveLocked

-----------------------------------------------------------------------------
(* Every step leaves creation to the two use cases.                        *)
LEMMA CreatorsStep == Rec!TypeOK /\ Creators /\ [Rec!Next]_Rec!vars => Creators'
<1> SUFFICES ASSUME Rec!TypeOK, Creators, [Rec!Next]_Rec!vars PROVE Creators'
  OBVIOUS
<1>0. saving \in [Requests -> Rec!Request]
  BY DEF Rec!TypeOK
<1>1. ASSUME NEW r \in Requests, Rec!FindNobody(r) PROVE Creators'
  BY <1>0, <1>1 DEF Rec!FindNobody, Rec!Goto, Creators, Rec!Request, Rec!Locked
<1>2. ASSUME NEW r \in Requests,
             Rec!Step(r) \/ Rec!GiveUp(r), ~Rec!FindNobody(r)
      PROVE  Creators'
  <2>1. /\ \A q \in Requests \ {r} : saving'[q] = saving[q]
        /\ saving'[r].pc # "absent"
    BY <1>0, <1>2 DEF Rec!Step, Rec!ReadCached, Rec!Create, Rec!SaveUnlocked,
        Rec!SaveLocked, Rec!CacheHit, Rec!CacheMiss, Rec!IndexMiss, Rec!FillRead,
        Rec!FillSet, Rec!Insert, Rec!CreateRefused, Rec!CommitInsert, Rec!PlainRead,
        Rec!SaveSelect, Rec!SaveRefused, Rec!SaveProfile, Rec!InvalidateSaved,
        Rec!RefreshRead, Rec!RefreshSet, Rec!WriteLock, Rec!LockRead,
        Rec!ClearInTransaction, Rec!Commit, Rec!InvalidateAgain, Rec!GiveUp, Rec!Load,
        Rec!Goto, Rec!AfterRead, Rec!Request
  <2> QED BY <2>1 DEF Creators
<1>3. Rec!EntryExpires \/ UNCHANGED Rec!vars => Creators'
  BY DEF Rec!EntryExpires, Rec!vars, Creators
<1> QED BY <1>1, <1>2, <1>3 DEF Rec!Next

-----------------------------------------------------------------------------
(* Every step puts into the cache, and into a copy bound for it, only what  *)
(* was committed.                                                           *)
LEMMA FillStep ==
  Rec!TypeOK /\ Unborn /\ FillsCommitted /\ Rec!EntryWasCommitted /\ [Rec!Next]_Rec!vars
  => FillsCommitted' /\ Rec!EntryWasCommitted' /\ Unborn'
<1> SUFFICES ASSUME Rec!TypeOK, Unborn, FillsCommitted, Rec!EntryWasCommitted, [Rec!Next]_Rec!vars
             PROVE  FillsCommitted' /\ Rec!EntryWasCommitted' /\ Unborn'
  OBVIOUS
<1> USE DEF Rec!history
<1>0. saving \in [Requests -> Rec!Request]
  BY DEF Rec!TypeOK
<1>1. ASSUME NEW r \in Requests,
             Rec!CacheHit(r) \/ Rec!CacheMiss(r) \/ Rec!IndexMiss(r) \/ Rec!FillRead(r)
      PROVE  FillsCommitted' /\ Rec!EntryWasCommitted' /\ Unborn'
  BY <1>0, <1>1 DEF Rec!CacheHit, Rec!CacheMiss, Rec!IndexMiss, Rec!FillRead,
      FillsCommitted, Rec!EntryWasCommitted, Unborn, Rec!At, Rec!Load, Rec!Goto,
      Rec!AfterRead, Rec!Request
<1>2. ASSUME NEW r \in Requests, Rec!FillSet(r) \/ Rec!RefreshSet(r)
      PROVE  FillsCommitted' /\ Rec!EntryWasCommitted' /\ Unborn'
  BY <1>0, <1>2 DEF Rec!FillSet, Rec!RefreshSet, FillsCommitted, Rec!EntryWasCommitted,
      Unborn, Rec!Goto, Rec!AfterRead, Rec!At, Rec!Request
<1>3. ASSUME NEW r \in Requests,
             Rec!PlainRead(r) \/ Rec!SaveSelect(r) \/ Rec!SaveRefused(r) \/ Rec!InvalidateSaved(r)
      PROVE  FillsCommitted' /\ Rec!EntryWasCommitted' /\ Unborn'
  BY <1>0, <1>3 DEF Rec!PlainRead, Rec!SaveSelect, Rec!SaveRefused, Rec!InvalidateSaved,
      FillsCommitted, Rec!EntryWasCommitted, Unborn, Rec!At, Rec!Load, Rec!Goto, Rec!Request
<1>4. ASSUME NEW r \in Requests, Rec!SaveProfile(r) \/ Rec!Commit(r)
      PROVE  FillsCommitted' /\ Rec!EntryWasCommitted' /\ Unborn'
  BY <1>0, <1>4 DEF Rec!SaveProfile, Rec!Commit, Rec!CommitUpdate, FillsCommitted,
      Rec!EntryWasCommitted, Unborn, Rec!At, Rec!Goto, Rec!Request
<1>5. ASSUME NEW r \in Requests, Rec!RefreshRead(r) \/ Rec!WriteLock(r) \/ Rec!LockRead(r)
      PROVE  FillsCommitted' /\ Rec!EntryWasCommitted' /\ Unborn'
  BY <1>0, <1>5 DEF Rec!RefreshRead, Rec!WriteLock, Rec!LockRead, FillsCommitted,
      Rec!EntryWasCommitted, Unborn, Rec!At, Rec!Load, Rec!Goto, Rec!Request
<1>6. ASSUME NEW r \in Requests,
             Rec!ClearInTransaction(r) \/ Rec!InvalidateAgain(r) \/ Rec!GiveUp(r)
      PROVE  FillsCommitted' /\ Rec!EntryWasCommitted' /\ Unborn'
  BY <1>0, <1>6 DEF Rec!ClearInTransaction, Rec!InvalidateAgain, Rec!GiveUp, FillsCommitted,
      Rec!EntryWasCommitted, Unborn, Rec!At, Rec!Goto, Rec!Request
<1>7. CASE Rec!EntryExpires
  BY <1>7 DEF Rec!EntryExpires, FillsCommitted, Rec!EntryWasCommitted, Unborn
<1>8. CASE UNCHANGED Rec!vars
  BY <1>8 DEF Rec!vars, FillsCommitted, Rec!EntryWasCommitted, Unborn
<1>9. ASSUME NEW r \in Requests, Rec!FindNobody(r) \/ Rec!Insert(r) \/ Rec!CreateRefused(r)
      PROVE  FillsCommitted' /\ Rec!EntryWasCommitted' /\ Unborn'
  BY <1>0, <1>9 DEF Rec!FindNobody, Rec!Insert, Rec!CreateRefused, FillsCommitted,
      Rec!EntryWasCommitted, Unborn, Rec!Goto, Rec!Request
<1>10. ASSUME NEW r \in Requests, Rec!CommitInsert(r)
       PROVE  FillsCommitted' /\ Rec!EntryWasCommitted' /\ Unborn'
  BY <1>0, <1>10 DEF Rec!CommitInsert, FillsCommitted, Rec!EntryWasCommitted, Unborn,
      Rec!Goto, Rec!Request
<1> QED
  BY <1>1, <1>2, <1>3, <1>4, <1>5, <1>6, <1>7, <1>8, <1>9, <1>10
  DEF Rec!Next, Rec!Step, Rec!ReadCached, Rec!Create, Rec!SaveUnlocked, Rec!SaveLocked

-----------------------------------------------------------------------------
(* An update loses no change but those it saves without meaning to.        *)
LEMMA CommitKeeps ==
  ASSUME Rec!TypeOK, LockedIsCurrent, Rec!LockedChangesSurvive, NEW r \in Requests,
         Rec!CommitUpdate(r),
         saving[r].use \in Rec!Locked => saving[r].pc \in {"locked", "cleared"}
  PROVE  Rec!LockedChangesSurvive'
<1> SUFFICES ASSUME NEW c \in Rec!Columns \ {"names"}
             PROVE  \/ row'[c] = committed'[c]
                    \/ c \in overwritten' \ {"providers"}
  BY DEF Rec!LockedChangesSurvive
<1>1. row[c] = committed[c] \/ c \in overwritten \ {"providers"}
  BY DEF Rec!LockedChangesSurvive
<1>2. /\ row'[c] = Rec!Updated(r)[c]
      /\ overwritten' = overwritten \cup (saving[r].diff \ {Rec!Own(r)})
      /\ committed'[c] = IF c = Rec!Own(r) THEN committed[c] + 1 ELSE committed[c]
  BY OwnColumn DEF Rec!CommitUpdate, Rec!TypeOK, Rec!Record
<1>3. CASE c = "providers"
  BY <1>1, <1>2, <1>3 DEF Rec!Updated
<1>4. CASE c # "providers" /\ c = Rec!Own(r)
  <2>1. saving[r].use \in Rec!Locked
    BY <1>4, OwnColumn
  <2>2. c \in saving[r].diff /\ saving[r].copy[c] = row[c] + 1
    BY <1>4, <2>1 DEF LockedIsCurrent
  <2>3. row'[c] = row[c] + 1
    BY <1>2, <1>4, <2>2 DEF Rec!Updated
  <2> QED BY <1>1, <1>2, <1>4, <2>3
<1>5. CASE c # "providers" /\ c # Rec!Own(r)
  <2>1. c \notin saving[r].diff => row'[c] = row[c]
    BY <1>2, <1>5 DEF Rec!Updated
  <2> QED BY <1>1, <1>2, <1>5, <2>1
<1> QED BY <1>3, <1>4, <1>5

(* Every step keeps what locked use cases committed.                       *)
LEMMA KeepStep ==
  Rec!TypeOK /\ LockedIsCurrent /\ Rec!LockedChangesSurvive /\ [Rec!Next]_Rec!vars
  => Rec!LockedChangesSurvive'
<1> SUFFICES ASSUME Rec!TypeOK, LockedIsCurrent, Rec!LockedChangesSurvive, [Rec!Next]_Rec!vars
             PROVE  Rec!LockedChangesSurvive'
  OBVIOUS
<1>1. ASSUME NEW r \in Requests, Rec!SaveProfile(r) PROVE Rec!LockedChangesSurvive'
  <2>1. Rec!CommitUpdate(r) /\ saving[r].use \notin Rec!Locked
    BY <1>1 DEF Rec!SaveProfile, Rec!Locked
  <2> QED BY <2>1, CommitKeeps
<1>2. ASSUME NEW r \in Requests, Rec!Commit(r) PROVE Rec!LockedChangesSurvive'
  <2>1. Rec!CommitUpdate(r) /\ saving[r].pc = "cleared"
    BY <1>2 DEF Rec!Commit, Rec!At
  <2> QED BY <2>1, CommitKeeps
<1>3. UNCHANGED <<row, committed, overwritten>> => Rec!LockedChangesSurvive'
  BY DEF Rec!LockedChangesSurvive
<1>4. ASSUME NEW r \in Requests,
             Rec!Step(r) \/ Rec!GiveUp(r), ~Rec!SaveProfile(r), ~Rec!Commit(r)
      PROVE  UNCHANGED <<row, committed, overwritten>>
  BY <1>4 DEF Rec!Step, Rec!ReadCached, Rec!Create, Rec!SaveUnlocked, Rec!SaveLocked,
      Rec!CacheHit, Rec!CacheMiss, Rec!IndexMiss, Rec!FillRead, Rec!FillSet, Rec!FindNobody,
      Rec!Insert, Rec!CreateRefused, Rec!PlainRead, Rec!SaveSelect, Rec!SaveRefused,
      Rec!InvalidateSaved, Rec!RefreshRead, Rec!RefreshSet, Rec!WriteLock, Rec!LockRead,
      Rec!ClearInTransaction, Rec!InvalidateAgain, Rec!CommitInsert, Rec!GiveUp, Rec!history
<1>5. Rec!EntryExpires \/ UNCHANGED Rec!vars => UNCHANGED <<row, committed, overwritten>>
  BY DEF Rec!EntryExpires, Rec!vars, Rec!history
<1> QED BY <1>1, <1>2, <1>3, <1>4, <1>5 DEF Rec!Next

-----------------------------------------------------------------------------
(* The strengthened invariant is inductive.                                *)
LEMMA UserRecordInductive ==
  ASSUME NoRequest \notin Requests
  PROVE  Rec!Spec => []RecordInv
<1>1. RecordInv /\ [Rec!Next]_Rec!vars => RecordInv'
  BY RecordTypeStep, LockStep, CreatorsStep, FillStep, KeepStep DEF RecordInv
<1> QED BY RecordInit, <1>1, PTL DEF Rec!Spec

(* The types hold in every reachable state (user record, cache entry and   *)
(* requests), for any number of requests.                                  *)
THEOREM UserRecordTypeOK ==
  ASSUME NoRequest \notin Requests
  PROVE  Rec!Spec => []Rec!TypeOK
<1>1. RecordInv => Rec!TypeOK
  BY DEF RecordInv
<1> QED BY <1>1, UserRecordInductive, PTL

(* No change committed under the row lock is lost unless a request that    *)
(* read without it wrote the column back (findByIdForUpdate, save).        *)
THEOREM UserRecordLockedChangesSurvive ==
  ASSUME NoRequest \notin Requests
  PROVE  Rec!Spec => []Rec!LockedChangesSurvive
<1>1. RecordInv => Rec!LockedChangesSurvive
  BY DEF RecordInv
<1> QED BY <1>1, UserRecordInductive, PTL

(* The cache only ever shows records that were committed                   *)
(* (CachedUserRepository.findById and save).                               *)
THEOREM UserRecordEntryWasCommitted ==
  ASSUME NoRequest \notin Requests
  PROVE  Rec!Spec => []Rec!EntryWasCommitted
<1>1. RecordInv => Rec!EntryWasCommitted
  BY DEF RecordInv
<1> QED BY <1>1, UserRecordInductive, PTL
=============================================================================
