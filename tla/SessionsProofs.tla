--------------------------- MODULE SessionsProofs ---------------------------
(***************************************************************************)
(* Whatever sign-ins, rotations, logouts, revocations, listings, password  *)
(* changes and expiries interleave, command by command: every usable       *)
(* session is within reach of a revocation, a delivered revocation leaves  *)
(* nothing of what it was to end, a session outlives a change only by a    *)
(* rotation that crossed it, a logout is final, and all of it together     *)
(* keeps the contract of the sessions.                                     *)
(***************************************************************************)
EXTENDS Sessions, TLAPS

Minted(t) == token[t].minted

\* The phases of each kind of request.
Course(kind) ==
  CASE kind = "none" -> {"idle"}
    [] kind = "signIn" -> {"user", "filling", "ready", "sadd", "expire"}
    [] kind = "refresh" -> {"user", "filling", "ready", "delKey", "srem", "mint", "sadd",
                            "expire", "smembers", "delKeys"}
    [] kind \in {"logout", "revoke"} -> {"ready", "delKey", "srem"}
    [] kind = "list" -> {"ready", "stale", "committing"}
    [] kind = "change" -> {"ready", "committing", "smembers", "delKeys"}
    [] kind = "handler" -> {"smembers", "delKeys"}

Minting == {"sadd", "expire"}
Emptying == {"smembers", "delKeys"}
Ending == {"delKey", "srem"}

\* The user a sign-in or a rotation has found is one there was.
Copied(r) ==
  req[r].kind \in {"signIn", "refresh"} /\ req[r].pc \notin {"user"} \cup Emptying =>
    req[r].copy \in 1 .. version

\* A rotation that no password change crossed presents the stored version.
Rotating(r) ==
  /\ req[r].kind = "refresh" =>
       /\ req[r].tok \in Tokens /\ Issued(req[r].tok)
       /\ ~req[r].crossed => token[req[r].tok].ver = version
  /\ req[r].kind = "signIn" => req[r].tok = NoToken

\* What is revoked was created, and once its key is deleted it is gone.
Revoking(r) ==
  req[r].pc \in Ending =>
    /\ Revoked(r) \in Tokens /\ Minted(Revoked(r))
    /\ req[r].pc = "srem" => Revoked(r) \notin session

\* A logout blacklists before it revokes.
LoggingOut(r) ==
  req[r].kind = "logout" =>
    /\ req[r].tok \in Tokens /\ Issued(req[r].tok)
    /\ req[r].pc \in Ending /\ req[r].tok \in fresh => req[r].tok \in blacklist

\* A listing removes what has no key.
Listing(r) ==
  req[r].kind = "list" =>
    /\ req[r].pc \in {"stale", "committing"} => \A t \in req[r].jtis : Minted(t)
    /\ req[r].pc = "committing" => req[r].jtis \cap session = {}

\* Only what was committed is delivered.
Delivering(r) == req[r].kind = "handler" => req[r].copy \in 2 .. version

Sane(r) ==
  /\ req[r].pc \in Course(req[r].kind)
  /\ req[r].pc = "idle" => req[r] = Idle
  /\ Copied(r) /\ Rotating(r) /\ Revoking(r) /\ LoggingOut(r) /\ Listing(r) /\ Delivering(r)

\* Only what was created is stored, only what was handed out is used.
Stored ==
  /\ \A t \in session \cup index : Minted(t)
  /\ \A t \in Tokens : Issued(t) => Minted(t)
  /\ \A t \in fresh \cup ended : Issued(t)
  /\ entry \in Versions => entry <= version
  /\ pending \subseteq 2 .. version

\* Every session being created has a jti of its own that nobody has yet.
Creating ==
  /\ \A r \in Requests : req[r].pc \in Minting =>
       req[r].new \in Tokens /\ Minted(req[r].new) /\ ~Issued(req[r].new)
  /\ \A r, s \in Requests :
       req[r].pc \in Minting /\ req[s].pc \in Minting /\ req[r].new = req[s].new => r = s

\* The row lock lets one change commit at a time.
Committing ==
  /\ \A r \in Requests : At(r, "change", "committing") => version < LastVersion
  /\ \A r, s \in Requests :
       At(r, "change", "committing") /\ At(s, "change", "committing") => r = s

Base == TypeOK /\ (\A r \in Requests : Sane(r)) /\ Stored /\ Creating /\ Committing

-----------------------------------------------------------------------------
(* The inductive invariant *)

\* A session whose entry has been written, though its tokens are not handed out.
Answering(t) == \E r \in Requests : req[r].pc = "expire" /\ req[r].new = t

\* UsableIsListed of every version, and already between EXPIRE and the answer.
Listed ==
  \A t \in session : Issued(t) \/ Answering(t) => t \in index \cup swept

\* What a commit condemned is listed as long as its key is there, and a delivery
\* that deletes keys still has before it those that are left.
Condemning ==
  /\ \A v \in Versions : \A t \in condemned[v] : Minted(t)
  /\ \A v \in Versions : condemned[v] \cap session \subseteq index \cup swept
  /\ \A r \in Requests : At(r, "handler", "delKeys") =>
       condemned[req[r].copy] \cap session \subseteq req[r].jtis \cup swept

\* SurvivorsCrossed of every token, whatever the stored version is.
Descended ==
  \A t \in Tokens : Issued(t) /\ token[t].root < token[t].ver => token[t].crossed

IInv ==
  Base /\ Listed /\ Condemning /\ CondemnedAreRevoked /\ Descended /\ LogoutIsFinal

-----------------------------------------------------------------------------
(* What no step undoes *)

\* Jtis do not come back, tokens do not change hands, the version stands still.
Onward ==
  /\ version' = version
  /\ \A t \in Tokens : Minted(t) => Minted(t)'
  /\ \A t \in Tokens : Issued(t) => token'[t] = token[t]
  /\ \A t \in Tokens : Minted(t) /\ t \in session' => t \in session
  /\ \A t \in Tokens : Issued(t) /\ t \in fresh' => t \in fresh
  /\ blacklist \cap fresh' \subseteq blacklist'

\* The requests other than r stay as they are.
Others(r) ==
  req' \in [Requests -> Request] /\ \A s \in Requests \ {r} : req'[s] = req[s]

\* Nothing but the request r moves.
Alone(r) ==
  /\ Others(r) /\ Sane(r)'
  /\ UNCHANGED <<version, redis, fresh, token, history>>
  /\ entry' \in Versions \cup {NoEntry} /\ (entry' \in Versions => entry' <= version)

LEMMA ConstantTypes ==
  /\ Idle \in Request /\ Idle.kind = "none" /\ Idle.pc = "idle"
  /\ Versions \subseteq Nat /\ 1 \in Versions /\ NoEntry \notin Versions
  /\ \A v \in Versions : v # 0
BY VersionAssumption DEF Idle, Request, Kinds, Phases, Versions

\* The fields of a request.
LEMMA Fields ==
  ASSUME TypeOK, NEW r \in Requests
  PROVE /\ req[r] \in Request /\ req[r].kind \in Kinds /\ req[r].pc \in Phases
        /\ req[r].tok \in Tokens \cup {NoToken} /\ req[r].new \in Tokens \cup {NoToken}
        /\ req[r].jtis \subseteq Tokens /\ req[r].copy \in {0} \cup Versions
        /\ req[r].crossed \in BOOLEAN
<1>1. req[r] \in Request
  BY DEF TypeOK
<1> QED  BY <1>1 DEF Request

LEMMA Replaced ==
  ASSUME TypeOK, NEW r \in Requests, NEW q \in Request, req' = [req EXCEPT ![r] = q]
  PROVE  Others(r) /\ req'[r] = q
BY DEF Others, TypeOK

LEMMA SaneOnward ==
  ASSUME TypeOK, Onward, NEW s \in Requests, req'[s] = req[s], Sane(s)
  PROVE  Sane(s)'
<1>1. /\ req[s].jtis \subseteq Tokens
      /\ req'[s].pc \in Course(req'[s].kind) /\ (req'[s].pc = "idle" => req'[s] = Idle)
  BY Fields DEF Sane
<1>2. Copied(s)' /\ Delivering(s)'
  BY DEF Sane, Copied, Delivering, Onward
<1>3. Rotating(s)'
  BY DEF Sane, Rotating, Onward, Issued
<1>4. Revoking(s)'
  BY DEF Sane, Revoking, Revoked, Onward
<1>5. LoggingOut(s)'
  BY DEF Sane, LoggingOut, Onward, Issued
<1>6. Listing(s)'
  BY <1>1 DEF Sane, Listing, Onward
<1> QED  BY <1>1, <1>2, <1>3, <1>4, <1>5, <1>6 DEF Sane

\* Nothing is asked of a request that rests.
LEMMA IdleSane == ASSUME NEW r, req[r] = Idle PROVE Sane(r)
BY DEF Sane, Idle, Course, Copied, Rotating, Revoking, LoggingOut, Listing, Delivering,
       Emptying, Ending

LEMMA IdleSaneNext == ASSUME NEW r, req'[r] = Idle PROVE Sane(r)'
BY DEF Sane, Idle, Course, Copied, Rotating, Revoking, LoggingOut, Listing, Delivering,
       Emptying, Ending

\* A finished request is out of every later condition.
LEMMA Finished ==
  ASSUME TypeOK, NEW r \in Requests, Finish(r)
  PROVE  /\ Others(r) /\ Sane(r)' /\ req'[r] = Idle
         /\ req'[r].pc \notin Minting
         /\ ~At(r, "change", "committing")' /\ ~At(r, "handler", "delKeys")'
<1>1. Others(r) /\ req'[r] = Idle
  BY Replaced, ConstantTypes DEF Finish
<1> QED  BY <1>1, IdleSaneNext, ConstantTypes DEF At, Minting

LEMMA InitIInv == Init => IInv
<1> SUFFICES ASSUME Init PROVE IInv
  OBVIOUS
<1>1. \A r \in Requests : req[r] = Idle
  BY DEF Init
<1>2. \A t \in Tokens : token[t] = [minted |-> FALSE, ver |-> 0, root |-> 0, crossed |-> FALSE]
  BY DEF Init
<1>3. [minted |-> FALSE, ver |-> 0, root |-> 0, crossed |-> FALSE] \in Token
  BY DEF Token
<1>4. TypeOK
  BY <1>3, ConstantTypes DEF Init, TypeOK
<1>5. \A r \in Requests : Sane(r)
  BY <1>1, IdleSane
<1>6. Stored
  BY <1>2, ConstantTypes DEF Init, Stored, Issued
<1>7. Creating /\ Committing
  BY <1>1 DEF Creating, Committing, At, Idle, Minting
<1>8. Listed /\ LogoutIsFinal
  BY DEF Init, Listed, LogoutIsFinal
<1>9. Condemning /\ CondemnedAreRevoked
  <2>1. \A v \in 2 .. version : FALSE
    BY DEF Init
  <2> QED  BY <1>1, <2>1 DEF Init, Condemning, CondemnedAreRevoked, At, Idle
<1>10. Descended
  BY <1>2 DEF Descended, Issued
<1> QED  BY <1>4, <1>5, <1>6, <1>7, <1>8, <1>9, <1>10 DEF Base, IInv

-----------------------------------------------------------------------------
(* Steps that move one request and nothing of the sessions *)

\* What is asked of the phase such a step leads to.
Admissible(r) ==
  /\ req'[r].pc \notin Minting
  /\ At(r, "change", "committing")' => version < LastVersion /\ ~Changing
  /\ At(r, "handler", "delKeys")' =>
       condemned'[req'[r].copy] \cap session' \subseteq req'[r].jtis \cup swept'

LEMMA SaneOthers ==
  ASSUME Base, Onward, NEW r \in Requests, Others(r), Sane(r)'
  PROVE  \A s \in Requests : Sane(s)'
<1> SUFFICES ASSUME NEW s \in Requests, s # r PROVE Sane(s)'
  OBVIOUS
<1> QED  BY SaneOnward DEF Base, Others

LEMMA CreatingOthers ==
  ASSUME Creating, UNCHANGED token, NEW r \in Requests, Others(r), req'[r].pc \notin Minting
  PROVE  Creating'
<1>1. ASSUME NEW s \in Requests, req'[s].pc \in Minting
      PROVE  s # r /\ req'[s] = req[s]
  BY <1>1 DEF Others
<1>2. \A s \in Requests : req'[s].pc \in Minting =>
        req'[s].new \in Tokens /\ Minted(req[s].new)' /\ ~Issued(req[s].new)'
  BY <1>1 DEF Creating, Issued, Minted
<1>3. \A s, t \in Requests :
        req'[s].pc \in Minting /\ req'[t].pc \in Minting /\ req'[s].new = req'[t].new => s = t
  BY <1>1 DEF Creating
<1> QED  BY <1>1, <1>2, <1>3 DEF Creating, Issued

LEMMA CommittingOthers ==
  ASSUME Committing, UNCHANGED version, NEW r \in Requests, Others(r),
         At(r, "change", "committing")' => version < LastVersion /\ ~Changing
  PROVE  Committing'
<1>1. ASSUME NEW s \in Requests, s # r
      PROVE  At(s, "change", "committing")' <=> At(s, "change", "committing")
  BY <1>1 DEF Others, At
<1> QED  BY <1>1 DEF Committing, Changing

LEMMA AloneIInv ==
  ASSUME IInv, NEW r \in Requests, Alone(r), Admissible(r), pending' \subseteq pending,
         CondemnedAreRevoked'
  PROVE  IInv'
<1> USE DEF redis, history
<1>1. Onward
  BY DEF Alone, Onward, Issued, Minted
<1>2. TypeOK'
  BY DEF IInv, Base, TypeOK, Alone, Others
<1>3. \A s \in Requests : Sane(s)'
  BY <1>1, SaneOthers DEF IInv, Alone
<1>4. Stored'
  BY DEF IInv, Base, Stored, Alone, Issued, Minted
<1>5. Creating'
  BY CreatingOthers DEF IInv, Base, Alone, Admissible
<1>6. Committing'
  BY CommittingOthers DEF IInv, Base, Alone, Admissible
<1>7. Listed'
  <2>1. \A t : Answering(t)' => Answering(t)
    BY DEF Answering, Alone, Others, Admissible, Minting
  <2> QED  BY <2>1 DEF IInv, Listed, Alone, Issued
<1>8. Condemning'
  <2>1. \A s \in Requests : At(s, "handler", "delKeys")' =>
          condemned[req'[s].copy] \cap session \subseteq req'[s].jtis \cup swept
    <3> SUFFICES ASSUME NEW s \in Requests, At(s, "handler", "delKeys")', s # r
                 PROVE  condemned[req'[s].copy] \cap session \subseteq req'[s].jtis \cup swept
      BY DEF Admissible, Alone
    <3>1. req'[s] = req[s]
      BY DEF Alone, Others
    <3> QED  BY <3>1 DEF IInv, Condemning, At
  <2> QED  BY <2>1 DEF IInv, Condemning, Alone, Minted
<1>9. Descended' /\ LogoutIsFinal'
  BY DEF IInv, Descended, LogoutIsFinal, Alone, Issued
<1> QED  BY <1>2, <1>3, <1>4, <1>5, <1>6, <1>7, <1>8, <1>9 DEF IInv, Base

LEMMA Quiet ==
  ASSUME IInv, NEW r \in Requests, Alone(r), Admissible(r), UNCHANGED pending
  PROVE  IInv'
BY AloneIInv DEF IInv, CondemnedAreRevoked, Alone, redis, history

-----------------------------------------------------------------------------
(* Authentication *)

LEMMA Resting == ASSUME IInv, NEW r \in Requests, req[r].pc = "idle" PROVE req[r] = Idle
BY DEF IInv, Base, Sane

LEMMA SignInStep == ASSUME IInv, NEW r \in Requests, SignIn(r) PROVE IInv'
<1> DEFINE q == [req[r] EXCEPT !.kind = "signIn", !.pc = "user", !.tok = NoToken]
<1>1. TypeOK /\ req[r] = Idle
  BY Resting DEF IInv, Base, SignIn
<1>2. Others(r) /\ req'[r].kind = "signIn" /\ req'[r].pc = "user" /\ req'[r].tok = NoToken
  <2>1. q \in Request /\ q.kind = "signIn" /\ q.pc = "user" /\ q.tok = NoToken
    BY <1>1, Fields DEF Request, Kinds, Phases
  <2>2. req' = [req EXCEPT ![r] = q]
    BY DEF SignIn, Begin
  <2> HIDE DEF q
  <2> QED  BY <1>1, <2>1, <2>2, Replaced
<1>3. Sane(r)'
  BY <1>2 DEF Sane, Course, Copied, Rotating, Revoking, LoggingOut, Listing, Delivering,
              Emptying, Ending
<1>4. Alone(r) /\ Admissible(r)
  BY <1>1, <1>2, <1>3 DEF Alone, Admissible, SignIn, IInv, Base, Stored, At, Minting, TypeOK
<1> QED  BY <1>4, Quiet DEF SignIn

LEMMA GoogleSignInStep == ASSUME IInv, NEW r \in Requests, GoogleSignIn(r) PROVE IInv'
<1> DEFINE q == [req[r] EXCEPT !.kind = "signIn", !.pc = "filling", !.copy = version]
<1>1. TypeOK /\ req[r] = Idle
  BY Resting DEF IInv, Base, GoogleSignIn
<1>2. /\ q \in Request /\ q.kind = "signIn" /\ q.pc = "filling" /\ q.tok = NoToken
      /\ q.copy = version
  <2>1. version \in {0} \cup Versions /\ "signIn" \in Kinds /\ "filling" \in Phases
    BY <1>1 DEF TypeOK, Kinds, Phases
  <2>2. req[r] \in Request /\ req[r].tok = NoToken
    BY <1>1, Fields DEF Idle
  <2> QED  BY <2>1, <2>2 DEF Request
<1>3. req' = [req EXCEPT ![r] = q]
  BY DEF GoogleSignIn
<1> HIDE DEF q
<1>4. Others(r) /\ req'[r] = q
  BY <1>1, <1>2, <1>3, Replaced
<1>5. version' = version /\ version \in 1 .. version
  BY <1>1, VersionAssumption DEF GoogleSignIn, TypeOK, Versions
<1>6. Sane(r)'
  BY <1>2, <1>4, <1>5 DEF Sane, Course, Copied, Rotating, Revoking, LoggingOut, Listing,
                          Delivering, Emptying, Ending
<1>7. Alone(r) /\ Admissible(r)
  BY <1>1, <1>2, <1>4, <1>6
     DEF Alone, Admissible, GoogleSignIn, IInv, Base, Stored, At, Minting, TypeOK
<1> QED  BY <1>7, Quiet DEF GoogleSignIn

LEMMA AuthenticateStep == ASSUME IInv, NEW r \in Requests, Authenticate(r) PROVE IInv'
<1>1. TypeOK /\ req[r] = Idle
  BY Resting DEF IInv, Base, Authenticate
<1>2. PICK kind \in {"logout", "revoke", "list", "change"}, t \in fresh \ blacklist :
        Begin(r, kind, "ready", IF kind = "logout" THEN t ELSE NoToken)
  BY DEF Authenticate
<1>3. t \in Tokens /\ Issued(t)
  BY <1>1 DEF IInv, Base, Stored, TypeOK
<1>4. /\ Others(r) /\ req'[r].kind = kind /\ req'[r].pc = "ready"
      /\ kind = "logout" => req'[r].tok = t
  <2> DEFINE presented == IF kind = "logout" THEN t ELSE NoToken
             q == [req[r] EXCEPT !.kind = kind, !.pc = "ready", !.tok = presented]
  <2>1. presented \in Tokens \cup {NoToken} /\ kind \in Kinds /\ "ready" \in Phases
    BY <1>3 DEF Kinds, Phases
  <2>2. req' = [req EXCEPT ![r] = q]
    BY <1>2 DEF Begin
  <2>3. kind = "logout" => presented = t
    OBVIOUS
  <2> HIDE DEF presented
  <2>4. q \in Request /\ q.kind = kind /\ q.pc = "ready" /\ q.tok = presented
    BY <1>1, <2>1, Fields DEF Request
  <2> HIDE DEF q
  <2> QED  BY <1>1, <2>2, <2>3, <2>4, Replaced
<1>5. Sane(r)'
  <2>1. kind = "logout" => req'[r].tok \in Tokens /\ Issued(req[r].tok)'
    BY <1>3, <1>4 DEF Authenticate, Issued
  <2> QED  BY <1>4, <2>1 DEF Sane, Course, Copied, Rotating, Revoking, LoggingOut, Listing,
                             Delivering, Emptying, Ending
<1>6. Alone(r) /\ Admissible(r)
  BY <1>1, <1>4, <1>5
     DEF Alone, Admissible, Authenticate, IInv, Base, Stored, At, Minting, TypeOK
<1> QED  BY <1>6, Quiet DEF Authenticate

LEMMA PresentStep == ASSUME IInv, NEW r \in Requests, Present(r) PROVE IInv'
<1>1. TypeOK /\ req[r] = Idle
  BY Resting DEF IInv, Base, Present
<1>2. PICK t \in session : VersionMatches(t) /\ Begin(r, "refresh", "user", t)
  BY DEF Present
<1>3. t \in Tokens /\ Issued(t) /\ token[t].ver = version
  BY <1>1, <1>2, ConstantTypes DEF TypeOK, VersionMatches, Issued
<1>4. Others(r) /\ req'[r].kind = "refresh" /\ req'[r].pc = "user" /\ req'[r].tok = t
  <2> DEFINE q == [req[r] EXCEPT !.kind = "refresh", !.pc = "user", !.tok = t]
  <2>1. q \in Request /\ q.kind = "refresh" /\ q.pc = "user" /\ q.tok = t
    BY <1>1, <1>3, Fields DEF Request, Kinds, Phases
  <2>2. req' = [req EXCEPT ![r] = q]
    BY <1>2 DEF Begin
  <2> HIDE DEF q
  <2> QED  BY <1>1, <2>1, <2>2, Replaced
<1>5. Sane(r)'
  <2>1. req'[r].tok \in Tokens /\ Issued(req[r].tok)' /\ token'[req'[r].tok].ver = version'
    BY <1>3, <1>4 DEF Present, Issued
  <2> QED  BY <1>4, <2>1 DEF Sane, Course, Copied, Rotating, Revoking, LoggingOut, Listing,
                             Delivering, Emptying, Ending
<1>6. Alone(r) /\ Admissible(r)
  BY <1>1, <1>4, <1>5 DEF Alone, Admissible, Present, IInv, Base, Stored, At, Minting, TypeOK
<1> QED  BY <1>6, Quiet DEF Present

\* The request goes on to another phase and keeps the rest.
LEMMA Gone ==
  ASSUME TypeOK, NEW r \in Requests, NEW phase \in Phases, Goto(r, phase)
  PROVE  /\ Others(r) /\ req'[r].pc = phase
         /\ req'[r].kind = req[r].kind /\ req'[r].tok = req[r].tok /\ req'[r].new = req[r].new
         /\ req'[r].copy = req[r].copy /\ req'[r].jtis = req[r].jtis
         /\ req'[r].crossed = req[r].crossed
<1> DEFINE q == [req[r] EXCEPT !.pc = phase]
<1>1. /\ q \in Request /\ q.pc = phase
      /\ q.kind = req[r].kind /\ q.tok = req[r].tok /\ q.new = req[r].new
      /\ q.copy = req[r].copy /\ q.jtis = req[r].jtis /\ q.crossed = req[r].crossed
  BY Fields DEF Request
<1>2. req' = [req EXCEPT ![r] = q]
  BY DEF Goto
<1> HIDE DEF q
<1> QED  BY <1>1, <1>2, Replaced

LEMMA FindUserStep == ASSUME IInv, NEW r \in Requests, FindUser(r) PROVE IInv'
<1> DEFINE found == IF entry = NoEntry THEN version ELSE entry
           phase == IF entry = NoEntry THEN "filling" ELSE "ready"
           q == [req[r] EXCEPT !.pc = phase, !.copy = found]
<1>1. TypeOK /\ Sane(r) /\ req[r].pc = "user"
  BY DEF IInv, Base, FindUser
<1>2. req[r].kind \in {"signIn", "refresh"}
  BY <1>1, Fields DEF Sane, Course, Kinds
<1>3. found \in 1 .. version /\ found \in {0} \cup Versions
  BY <1>1, VersionAssumption DEF IInv, Base, Stored, TypeOK, Versions
<1>4. phase \in {"filling", "ready"} /\ phase \in Phases
  BY DEF Phases
<1>5. req' = [req EXCEPT ![r] = q]
  BY DEF FindUser
<1> HIDE DEF found, phase
<1>6. /\ q \in Request /\ q.pc = phase /\ q.copy = found
      /\ q.kind = req[r].kind /\ q.tok = req[r].tok /\ q.crossed = req[r].crossed
  BY <1>1, <1>3, <1>4, Fields DEF Request
<1> HIDE DEF q
<1>7. Others(r) /\ req'[r] = q
  BY <1>1, <1>5, <1>6, Replaced
<1>8. Sane(r)'
  <2>1. Rotating(r)'
    BY <1>1, <1>6, <1>7 DEF Sane, Rotating, FindUser, Issued
  <2>2. Copied(r)'
    BY <1>3, <1>6, <1>7 DEF Copied, FindUser
  <2> QED  BY <1>2, <1>4, <1>6, <1>7, <2>1, <2>2
              DEF Sane, Course, Revoking, LoggingOut, Listing, Delivering, Ending
<1>9. Alone(r) /\ Admissible(r)
  BY <1>1, <1>2, <1>4, <1>6, <1>7, <1>8
     DEF Alone, Admissible, FindUser, IInv, Base, Stored, At, Minting, TypeOK
<1> QED  BY <1>9, Quiet DEF FindUser

LEMMA FillEntryStep == ASSUME IInv, NEW r \in Requests, FillEntry(r) PROVE IInv'
<1>1. TypeOK /\ Sane(r) /\ req[r].pc = "filling"
  BY DEF IInv, Base, FillEntry
<1>2. req[r].kind \in {"signIn", "refresh"}
  BY <1>1, Fields DEF Sane, Course, Kinds
<1>3. /\ Others(r) /\ req'[r].pc = "ready" /\ req'[r].kind = req[r].kind
      /\ req'[r].tok = req[r].tok /\ req'[r].copy = req[r].copy /\ req'[r].crossed = req[r].crossed
  BY <1>1, Gone DEF FillEntry, Phases
<1>4. Sane(r)'
  <2>1. Rotating(r)' /\ Copied(r)'
    BY <1>1, <1>3 DEF Sane, Rotating, Copied, FillEntry, Issued, Emptying
  <2> QED  BY <1>2, <1>3, <2>1
              DEF Sane, Course, Revoking, LoggingOut, Listing, Delivering, Ending
<1>5. entry' \in Versions /\ entry' <= version
  BY <1>1, <1>2, VersionAssumption DEF Sane, Copied, FillEntry, TypeOK, Versions, Emptying
<1>6. Alone(r) /\ Admissible(r)
  BY <1>2, <1>3, <1>4, <1>5 DEF Alone, Admissible, FillEntry, At, Minting
<1> QED  BY <1>6, Quiet DEF FillEntry

LEMMA EntryExpiresStep == ASSUME IInv, EntryExpires PROVE IInv'
<1> USE DEF redis, history, EntryExpires
<1>1. Onward
  BY DEF Onward, Issued, Minted
<1>2. TypeOK'
  BY DEF IInv, Base, TypeOK
<1>3. \A s \in Requests : Sane(s)'
  BY <1>1, SaneOnward DEF IInv, Base
<1>4. Stored'
  BY ConstantTypes DEF IInv, Base, Stored, Issued, Minted
<1>5. Creating' /\ Committing'
  BY DEF IInv, Base, Creating, Committing, At, Issued, Minted
<1>6. Listed' /\ Condemning' /\ CondemnedAreRevoked'
  BY DEF IInv, Listed, Condemning, CondemnedAreRevoked, Answering, At, Issued, Minted
<1>7. Descended' /\ LogoutIsFinal'
  BY DEF IInv, Descended, LogoutIsFinal, Issued
<1> QED  BY <1>2, <1>3, <1>4, <1>5, <1>6, <1>7 DEF IInv, Base

-----------------------------------------------------------------------------
(* Steps that write or delete keys and entries *)

\* No entry is dropped while its key is there, unless the sweep is remembered.
Kept ==
  /\ condemned' = condemned /\ swept \subseteq swept'
  /\ \A t \in session \cap index : t \in session' => t \in index' \cup swept'

LEMMA CondemnedStay ==
  ASSUME IInv, Onward, Kept
  PROVE  /\ \A v \in Versions : \A t \in condemned'[v] : Minted(t)'
         /\ \A v \in Versions : condemned'[v] \cap session' \subseteq condemned[v] \cap session
         /\ \A v \in Versions : condemned'[v] \cap session' \subseteq index' \cup swept'
<1>1. \A v \in Versions : condemned[v] \subseteq Tokens
  BY DEF IInv, Base, TypeOK
<1>2. \A v \in Versions : \A t \in condemned'[v] : Minted(t)'
  BY <1>1 DEF IInv, Condemning, Kept, Onward
<1>3. \A v \in Versions : condemned'[v] \cap session' \subseteq condemned[v] \cap session
  BY <1>1 DEF IInv, Condemning, Kept, Onward
<1>4. \A v \in Versions : condemned'[v] \cap session' \subseteq index' \cup swept'
  BY <1>3 DEF IInv, Condemning, Kept
<1> QED  BY <1>2, <1>3, <1>4

LEMMA Delivered ==
  ASSUME IInv, NEW r \in Requests, req[r].kind = "handler"
  PROVE  req[r].copy \in 2 .. version /\ req[r].copy \in Versions
BY VersionAssumption DEF IInv, Base, Sane, Delivering, Versions, TypeOK

LEMMA CondemningOthers ==
  ASSUME IInv, Onward, Kept, NEW r \in Requests, Others(r),
         At(r, "handler", "delKeys")' =>
           condemned'[req'[r].copy] \cap session' \subseteq req'[r].jtis \cup swept'
  PROVE  Condemning'
<1>1. ASSUME NEW s \in Requests, At(s, "handler", "delKeys")', s # r
      PROVE  condemned'[req'[s].copy] \cap session' \subseteq req'[s].jtis \cup swept'
  <2>1. req'[s] = req[s] /\ At(s, "handler", "delKeys")
    BY <1>1 DEF At, Others
  <2>2. req[s].copy \in Versions
    BY <2>1, Delivered DEF At
  <2>3. condemned[req[s].copy] \cap session \subseteq req[s].jtis \cup swept
    BY <2>1 DEF IInv, Condemning
  <2> QED  BY <2>1, <2>2, <2>3, CondemnedStay DEF Kept
<1> QED  BY <1>1, CondemnedStay DEF Condemning

LEMMA RevokedStay ==
  ASSUME IInv, Onward, Kept, UNCHANGED pending
  PROVE  CondemnedAreRevoked'
<1>1. \A v \in 2 .. version : v \in Versions
  BY VersionAssumption DEF IInv, Base, TypeOK, Versions
<1> QED  BY <1>1, CondemnedStay DEF IInv, CondemnedAreRevoked, Onward, Kept

-----------------------------------------------------------------------------
(* Minting *)

LEMMA MintStep == ASSUME IInv, NEW r \in Requests, Mint(r) PROVE IInv'
<1> USE DEF redis, history
<1>1. TypeOK /\ Sane(r) /\ Stored /\ Creating
  BY DEF IInv, Base
<1>2. PICK t \in Tokens :
        /\ ~token[t].minted
        /\ token' = [token EXCEPT ![t].minted = TRUE]
        /\ req' = [req EXCEPT ![r].new = t, ![r].pc = "sadd"]
  BY DEF Mint
<1>3. /\ \/ req[r].kind = "signIn" /\ req[r].pc = "ready"
         \/ req[r].kind = "refresh" /\ req[r].pc = "mint"
      /\ UNCHANGED <<version, entry, fresh, pending, condemned, swept, ended>>
  <2>1. At(r, "signIn", "ready") \/ At(r, "refresh", "mint")
    BY DEF Mint
  <2>2. UNCHANGED <<version, entry, fresh, pending, history>>
    BY DEF Mint
  <2> QED  BY <2>1, <2>2 DEF At
<1>4. /\ Others(r) /\ req'[r].pc = "sadd" /\ req'[r].new = t
      /\ req'[r].kind = req[r].kind /\ req'[r].tok = req[r].tok
      /\ req'[r].copy = req[r].copy /\ req'[r].crossed = req[r].crossed
  <2> DEFINE q == [req[r] EXCEPT !.new = t, !.pc = "sadd"]
  <2>1. /\ q \in Request /\ q.pc = "sadd" /\ q.new = t
        /\ q.kind = req[r].kind /\ q.tok = req[r].tok
        /\ q.copy = req[r].copy /\ q.crossed = req[r].crossed
    BY <1>1, Fields DEF Request, Phases
  <2>2. req' = [req EXCEPT ![r] = q]
    BY <1>2
  <2> HIDE DEF q
  <2> QED  BY <1>1, <2>1, <2>2, Replaced
<1>5. session' = session \cup {t} /\ UNCHANGED <<index, blacklist>>
  BY <1>4 DEF Mint, Write, FirstWrite
<1>6. /\ token' \in [Tokens -> Token] /\ \A u \in Tokens \ {t} : token'[u] = token[u]
      /\ token'[t].minted /\ token'[t].ver = token[t].ver /\ token'[t].root = token[t].root
      /\ token'[t].crossed = token[t].crossed
  <2> DEFINE m == [token[t] EXCEPT !.minted = TRUE]
  <2>1. /\ m \in Token /\ m.minted /\ m.ver = token[t].ver /\ m.root = token[t].root
        /\ m.crossed = token[t].crossed
    BY <1>1 DEF TypeOK, Token
  <2>2. token' = [token EXCEPT ![t] = m]
    BY <1>2
  <2> HIDE DEF m
  <2> QED  BY <1>1, <2>1, <2>2 DEF TypeOK
<1>7. ~Minted(t) /\ ~Issued(t) /\ Minted(t)' /\ ~Issued(t)'
  BY <1>1, <1>2, <1>6 DEF Minted, Stored, Issued
<1>8. /\ \A u \in Tokens : Minted(u) => Minted(u)' /\ u # t
      /\ \A u \in Tokens : Issued(u)' <=> Issued(u)
      /\ \A u \in Tokens : Issued(u) => token'[u] = token[u]
  BY <1>6, <1>7 DEF Minted, Issued
<1>9. Onward
  BY <1>3, <1>5, <1>8 DEF Onward
<1>10. TypeOK'
  BY <1>1, <1>3, <1>4, <1>5, <1>6 DEF TypeOK, Others
<1>11. \A s \in Requests : Sane(s)'
  <2>1. Rotating(r)' /\ Copied(r)'
    BY <1>1, <1>3, <1>4, <1>8 DEF Sane, Rotating, Copied, Issued, Emptying
  <2>2. Sane(r)'
    BY <1>3, <1>4, <2>1 DEF Sane, Course, Revoking, LoggingOut, Listing, Delivering, Ending
  <2> QED  BY <1>4, <1>9, <2>2, SaneOthers DEF IInv
<1>12. Stored'
  BY <1>1, <1>3, <1>5, <1>7, <1>8 DEF Stored, TypeOK
<1>13. ASSUME NEW s \in Requests, s # r, req'[s].pc \in Minting
       PROVE  req'[s] = req[s] /\ req[s].new \in Tokens /\ Minted(req[s].new) /\ ~Issued(req[s].new)
  BY <1>1, <1>4, <1>13 DEF Others, Creating
<1>14. Creating'
  <2>1. \A s \in Requests : req'[s].pc \in Minting =>
          req'[s].new \in Tokens /\ Minted(req[s].new)' /\ ~Issued(req[s].new)'
    <3> SUFFICES ASSUME NEW s \in Requests, req'[s].pc \in Minting
                 PROVE  req'[s].new \in Tokens /\ token'[req'[s].new].minted
                        /\ token'[req'[s].new].ver = 0
      BY DEF Minted, Issued
    <3>1. CASE s = r
      BY <1>4, <1>7, <3>1 DEF Minted, Issued
    <3>2. CASE s # r
      BY <1>8, <1>13, <3>2 DEF Minted, Issued
    <3> QED  BY <3>1, <3>2
  <2>2. \A s, u \in Requests :
          req'[s].pc \in Minting /\ req'[u].pc \in Minting /\ req'[s].new = req'[u].new => s = u
    BY <1>1, <1>4, <1>7, <1>13 DEF Creating
  <2> QED  BY <2>1, <2>2 DEF Creating, Issued
<1>15. Committing'
  BY <1>3, <1>4, CommittingOthers DEF IInv, Base, At
<1>16. Listed'
  <2>1. \A u : Answering(u)' => Answering(u) /\ u # t
    BY <1>4, <1>7, <1>13 DEF Answering, Minting
  <2> QED  BY <1>1, <1>3, <1>5, <1>7, <1>8, <2>1 DEF IInv, Listed, TypeOK
<1>17. Condemning' /\ CondemnedAreRevoked'
  <2>1. Kept
    BY <1>3, <1>5 DEF Kept
  <2> QED  BY <1>3, <1>4, <1>9, <2>1, CondemningOthers, RevokedStay DEF At
<1>18. Descended' /\ LogoutIsFinal'
  BY <1>3, <1>5, <1>6, <1>8 DEF IInv, Descended, LogoutIsFinal
<1> QED  BY <1>10, <1>11, <1>12, <1>14, <1>15, <1>16, <1>17, <1>18 DEF IInv, Base

LEMMA MintIndexStep == ASSUME IInv, NEW r \in Requests, MintIndex(r) PROVE IInv'
<1> USE DEF redis, history
<1>1. TypeOK /\ Sane(r) /\ Stored /\ Creating /\ req[r].pc = "sadd"
  BY DEF IInv, Base, MintIndex
<1>2. UNCHANGED <<version, entry, fresh, token, pending, condemned, swept, ended>>
  BY DEF MintIndex
<1>3. /\ Others(r) /\ req'[r].pc = "expire" /\ req'[r].new = req[r].new
      /\ req'[r].kind = req[r].kind /\ req'[r].tok = req[r].tok
      /\ req'[r].copy = req[r].copy /\ req'[r].crossed = req[r].crossed
  BY <1>1, Gone DEF MintIndex, Phases
<1>4. index' = index \cup {req[r].new} /\ UNCHANGED <<session, blacklist>>
  BY <1>3 DEF MintIndex, Write, FirstWrite
<1>5. req[r].new \in Tokens /\ Minted(req[r].new) /\ req[r].kind \in {"signIn", "refresh"}
  BY <1>1, Fields DEF Creating, Minting, Sane, Course, Kinds
<1>6. Onward
  BY <1>2, <1>4 DEF Onward, Minted
<1>7. TypeOK'
  BY <1>1, <1>2, <1>3, <1>4, <1>5 DEF TypeOK, Others
<1>8. \A s \in Requests : Sane(s)'
  <2>1. Rotating(r)' /\ Copied(r)'
    BY <1>1, <1>2, <1>3 DEF Sane, Rotating, Copied, Issued, Emptying
  <2>2. Sane(r)'
    BY <1>3, <1>5, <2>1 DEF Sane, Course, Revoking, LoggingOut, Listing, Delivering, Ending
  <2> QED  BY <1>3, <1>6, <2>2, SaneOthers DEF IInv
<1>9. Stored'
  BY <1>1, <1>2, <1>4, <1>5 DEF Stored, Minted, Issued
<1>10. Creating'
  <2>1. \A s \in Requests : req'[s].pc \in Minting <=> req[s].pc \in Minting
    BY <1>1, <1>3 DEF Others, Minting
  <2>2. \A s \in Requests : req'[s].new = req[s].new
    BY <1>3 DEF Others
  <2> QED  BY <1>1, <1>2, <2>1, <2>2 DEF Creating, Minted, Issued
<1>11. Committing'
  BY <1>2, <1>3, CommittingOthers DEF IInv, Base, At
<1>12. Listed'
  <2>1. \A u : Answering(u)' => Answering(u) \/ u = req[r].new
    BY <1>3 DEF Answering, Others
  <2> QED  BY <1>2, <1>4, <2>1 DEF IInv, Listed, Issued
<1>13. Condemning' /\ CondemnedAreRevoked'
  <2>1. Kept
    BY <1>2, <1>4 DEF Kept
  <2> QED  BY <1>2, <1>3, <1>6, <2>1, CondemningOthers, RevokedStay DEF At
<1>14. Descended' /\ LogoutIsFinal'
  BY <1>2, <1>4 DEF IInv, Descended, LogoutIsFinal, Issued
<1> QED  BY <1>7, <1>8, <1>9, <1>10, <1>11, <1>12, <1>13, <1>14 DEF IInv, Base

\* The token handed out descends from the one presented, if any.
LEMMA AnswerStep == ASSUME IInv, NEW r \in Requests, Answer(r) PROVE IInv'
<1> DEFINE old == req[r].tok
           t == req[r].new
           m == [minted |-> TRUE, ver |-> req[r].copy,
                 root |-> IF old = NoToken THEN req[r].copy ELSE token[old].root,
                 crossed |-> old # NoToken /\ (token[old].crossed \/ req[r].crossed)]
<1> USE DEF redis, history
<1>1. TypeOK /\ Sane(r) /\ Stored /\ Creating /\ req[r].pc = "expire"
  BY DEF IInv, Base, Answer
<1>2. UNCHANGED <<version, entry, session, index, blacklist, pending, condemned, swept, ended>>
  BY DEF Answer
<1>3. /\ Others(r) /\ Sane(r)' /\ req'[r].pc \notin Minting
      /\ ~At(r, "change", "committing")' /\ ~At(r, "handler", "delKeys")'
  BY <1>1, Finished DEF Answer
<1>4. t \in Tokens /\ Minted(t) /\ ~Issued(t) /\ req[r].kind \in {"signIn", "refresh"}
  BY <1>1, Fields DEF Creating, Minting, Sane, Course, Kinds
<1>5. req[r].copy \in 1 .. version /\ req[r].copy \in Versions
  BY <1>1, <1>4, VersionAssumption DEF Sane, Copied, Emptying, TypeOK, Versions
<1>6. old \in Tokens \cup {NoToken} /\ (old # NoToken => req[r].kind = "refresh")
  BY <1>1, <1>4, Fields DEF Sane, Rotating
<1>7. m \in Token /\ m.minted /\ m.ver = req[r].copy
  <2>1. (IF old = NoToken THEN req[r].copy ELSE token[old].root) \in {0} \cup Versions
    BY <1>1, <1>5, <1>6 DEF TypeOK, Token
  <2>2. (old # NoToken /\ (token[old].crossed \/ req[r].crossed)) \in BOOLEAN
    OBVIOUS
  <2> QED  BY <1>5, <2>1, <2>2 DEF Token
<1>8. m.root < m.ver => m.crossed
  <2>1. CASE old = NoToken
    BY <1>1, <1>5, <2>1 DEF TypeOK, Versions
  <2>2. CASE old # NoToken
    <3>1. old \in Tokens /\ Issued(old) /\ (~req[r].crossed => token[old].ver = version)
      BY <1>1, <1>6, <2>2 DEF Sane, Rotating
    <3>2. m.root = token[old].root /\ (m.crossed <=> token[old].crossed \/ req[r].crossed)
      BY <2>2
    <3>3. token[old].root < token[old].ver => token[old].crossed
      BY <3>1 DEF IInv, Descended
    <3>4. token[old].root \in Nat /\ token[old].ver \in Nat /\ version \in Nat
      BY <1>1, <3>1, VersionAssumption DEF TypeOK, Token, Versions
    <3> HIDE DEF m
    <3> QED  BY <1>5, <1>7, <3>1, <3>2, <3>3, <3>4
  <2> QED  BY <2>1, <2>2
<1>9. token' = [token EXCEPT ![t] = m] /\ fresh' = fresh \cup {t}
  BY DEF Answer
<1> HIDE DEF m, old, t
<1>10. /\ token' \in [Tokens -> Token] /\ token'[t] = m
       /\ \A u \in Tokens \ {t} : token'[u] = token[u]
  BY <1>1, <1>4, <1>7, <1>9 DEF TypeOK
<1>11. /\ \A u \in Tokens : Minted(u) => Minted(u)'
       /\ \A u \in Tokens : Issued(u)' <=> Issued(u) \/ u = t
       /\ \A u \in Tokens : Issued(u) => u # t
  BY <1>4, <1>5, <1>7, <1>10, ConstantTypes DEF Minted, Issued
<1>12. Onward
  BY <1>2, <1>9, <1>10, <1>11 DEF Onward
<1>13. TypeOK'
  BY <1>1, <1>2, <1>3, <1>4, <1>9, <1>10 DEF TypeOK, Others
<1>14. \A s \in Requests : Sane(s)'
  BY <1>3, <1>12, SaneOthers DEF IInv
<1>15. Stored'
  BY <1>1, <1>2, <1>4, <1>9, <1>11 DEF Stored, TypeOK
<1>16. ASSUME NEW s \in Requests, req'[s].pc \in Minting
       PROVE  /\ s # r /\ req'[s] = req[s] /\ req[s].new \in Tokens \ {t}
              /\ Minted(req[s].new) /\ ~Issued(req[s].new)
  BY <1>1, <1>3, <1>16 DEF Others, Creating, Minting, t
<1>17. Creating'
  <2>1. \A s \in Requests : req'[s].pc \in Minting =>
          req'[s].new \in Tokens /\ Minted(req[s].new)' /\ ~Issued(req[s].new)'
    <3> SUFFICES ASSUME NEW s \in Requests, req'[s].pc \in Minting
                 PROVE  req'[s].new \in Tokens /\ token'[req'[s].new].minted
                        /\ token'[req'[s].new].ver = 0
      BY DEF Minted, Issued
    <3> QED  BY <1>10, <1>16 DEF Minted, Issued
  <2>2. \A s, u \in Requests :
          req'[s].pc \in Minting /\ req'[u].pc \in Minting /\ req'[s].new = req'[u].new => s = u
    BY <1>1, <1>16 DEF Creating
  <2> QED  BY <2>1, <2>2 DEF Creating, Issued
<1>18. Committing'
  BY <1>2, <1>3, CommittingOthers DEF IInv, Base
<1>19. Listed'
  <2>1. \A u : Answering(u)' => Answering(u)
    BY <1>3 DEF Answering, Others, Minting
  <2>2. Answering(t)
    BY <1>1 DEF Answering, t
  <2> QED  BY <1>1, <1>2, <1>11, <2>1, <2>2 DEF IInv, Listed, TypeOK
<1>20. Condemning' /\ CondemnedAreRevoked'
  <2>1. Kept
    BY <1>2 DEF Kept
  <2> QED  BY <1>2, <1>3, <1>12, <2>1, CondemningOthers, RevokedStay
<1>21. Descended'
  BY <1>8, <1>10, <1>11 DEF IInv, Descended
<1>22. LogoutIsFinal'
  BY <1>1, <1>2, <1>4, <1>9 DEF IInv, LogoutIsFinal, Stored
<1> QED  BY <1>13, <1>14, <1>15, <1>17, <1>18, <1>19, <1>20, <1>21, <1>22 DEF IInv, Base

\* A step of r that only deletes keys and entries.
Deletes(r) ==
  /\ Others(r) /\ Sane(r)' /\ Admissible(r)
  /\ UNCHANGED <<version, entry, blacklist, fresh, token>>
  /\ session' \subseteq session /\ index' \subseteq index
  /\ swept' \in SUBSET Tokens /\ pending' \subseteq pending

LEMMA DeletesIInv ==
  ASSUME IInv, NEW r \in Requests, Deletes(r), Kept, CondemnedAreRevoked',
         ended' \subseteq Tokens, \A t \in ended' : Issued(t), LogoutIsFinal'
  PROVE  IInv'
<1>1. Onward
  BY DEF Deletes, Onward, Minted
<1>2. TypeOK'
  BY DEF IInv, Base, TypeOK, Deletes, Others, Kept
<1>3. \A s \in Requests : Sane(s)'
  BY <1>1, SaneOthers DEF IInv, Deletes
<1>4. Stored'
  BY DEF IInv, Base, Stored, Deletes, Issued, Minted
<1>5. Creating'
  BY CreatingOthers DEF IInv, Base, Deletes, Admissible
<1>6. Committing'
  BY CommittingOthers DEF IInv, Base, Deletes, Admissible
<1>7. Listed'
  <2>1. \A t : Answering(t)' => Answering(t)
    BY DEF Answering, Deletes, Others, Admissible, Minting
  <2> QED  BY <2>1 DEF IInv, Listed, Deletes, Kept, Issued
<1>8. Condemning'
  BY <1>1, CondemningOthers DEF Deletes, Admissible
<1>9. Descended'
  BY DEF IInv, Descended, Deletes, Issued
<1> QED  BY <1>2, <1>3, <1>4, <1>5, <1>6, <1>7, <1>8, <1>9 DEF IInv, Base

-----------------------------------------------------------------------------
(* Revoking one session *)

LEMMA LookupSessionStep == ASSUME IInv, NEW r \in Requests, LookupSession(r) PROVE IInv'
<1> DEFINE phase == IF req[r].tok \in session THEN "delKey" ELSE "smembers"
<1>1. TypeOK /\ Sane(r) /\ Stored /\ req[r].kind = "refresh" /\ req[r].pc = "ready"
  BY DEF IInv, Base, LookupSession, At
<1>2. phase \in {"delKey", "smembers"} /\ (phase = "delKey" => req[r].tok \in session)
  OBVIOUS
<1>3. Goto(r, phase)
  BY DEF LookupSession
<1> HIDE DEF phase
<1>4. /\ Others(r) /\ req'[r].pc = phase /\ req'[r].kind = "refresh"
      /\ req'[r].tok = req[r].tok /\ req'[r].copy = req[r].copy /\ req'[r].crossed = req[r].crossed
  <2>1. phase \in Phases
    BY <1>2 DEF Phases
  <2> QED  BY <1>1, <1>3, <2>1, Gone
<1>5. Sane(r)'
  <2>1. Rotating(r)' /\ Copied(r)'
    BY <1>1, <1>4 DEF Sane, Rotating, Copied, LookupSession, Issued, Emptying
  <2>2. Revoking(r)'
    BY <1>1, <1>2, <1>4 DEF Sane, Rotating, Revoking, Revoked, Stored, Ending, LookupSession, Minted
  <2> QED  BY <1>2, <1>4, <2>1, <2>2 DEF Sane, Course, LoggingOut, Listing, Delivering
<1>6. Alone(r) /\ Admissible(r)
  BY <1>1, <1>2, <1>4, <1>5 DEF Alone, Admissible, LookupSession, Stored, At, Minting, TypeOK
<1> QED  BY <1>6, Quiet DEF LookupSession

LEMMA SelectSessionStep == ASSUME IInv, NEW r \in Requests, SelectSession(r) PROVE IInv'
<1>1. TypeOK /\ Sane(r) /\ Stored /\ req[r].kind = "revoke" /\ req[r].pc = "ready"
  BY DEF IInv, Base, SelectSession, At
<1>2. PICK t \in session : req' = [req EXCEPT ![r].pc = "delKey", ![r].tok = t]
  BY DEF SelectSession
<1>3. t \in Tokens /\ Minted(t)
  BY <1>1 DEF TypeOK, Stored
<1>4. Others(r) /\ req'[r].pc = "delKey" /\ req'[r].kind = "revoke" /\ req'[r].tok = t
  <2> DEFINE q == [req[r] EXCEPT !.pc = "delKey", !.tok = t]
  <2>1. q \in Request /\ q.pc = "delKey" /\ q.kind = "revoke" /\ q.tok = t
    BY <1>1, <1>3, Fields DEF Request, Phases
  <2>2. req' = [req EXCEPT ![r] = q]
    BY <1>2
  <2> HIDE DEF q
  <2> QED  BY <1>1, <2>1, <2>2, Replaced
<1>5. Sane(r)'
  <2>1. Revoking(r)'
    BY <1>3, <1>4 DEF Revoking, Revoked, SelectSession, Minted
  <2> QED  BY <1>4, <2>1 DEF Sane, Course, Copied, Rotating, LoggingOut, Listing, Delivering
<1>6. Alone(r) /\ Admissible(r)
  BY <1>1, <1>4, <1>5 DEF Alone, Admissible, SelectSession, Stored, At, Minting, TypeOK
<1> QED  BY <1>6, Quiet DEF SelectSession

LEMMA LogoutStep == ASSUME IInv, NEW r \in Requests, Logout(r) PROVE IInv'
<1> USE DEF redis, history
<1>1. TypeOK /\ Sane(r) /\ Stored /\ req[r].kind = "logout" /\ req[r].pc = "ready"
  BY DEF IInv, Base, Logout, At
<1>2. PICK t \in Tokens : Issued(t) /\ req' = [req EXCEPT ![r].pc = "delKey", ![r].new = t]
  BY DEF Logout
<1>3. blacklist' = blacklist \cup ({req[r].tok} \cap fresh)
  BY DEF Logout
<1>4. UNCHANGED <<version, entry, session, index, fresh, token, pending, condemned, swept, ended>>
  BY DEF Logout
<1>5. /\ Others(r) /\ req'[r].pc = "delKey" /\ req'[r].kind = "logout" /\ req'[r].new = t
      /\ req'[r].tok = req[r].tok
  <2> DEFINE q == [req[r] EXCEPT !.pc = "delKey", !.new = t]
  <2>1. q \in Request /\ q.pc = "delKey" /\ q.kind = "logout" /\ q.new = t /\ q.tok = req[r].tok
    BY <1>1, Fields DEF Request, Phases
  <2>2. req' = [req EXCEPT ![r] = q]
    BY <1>2
  <2> HIDE DEF q
  <2> QED  BY <1>1, <2>1, <2>2, Replaced
<1>6. Sane(r)'
  <2>1. Revoking(r)'
    BY <1>1, <1>2, <1>4, <1>5 DEF Revoking, Revoked, Stored, Minted
  <2>2. LoggingOut(r)'
    BY <1>1, <1>3, <1>4, <1>5 DEF Sane, LoggingOut, Issued
  <2> QED  BY <1>5, <2>1, <2>2 DEF Sane, Course, Copied, Rotating, Listing, Delivering
<1>7. Onward
  BY <1>3, <1>4 DEF Onward, Minted
<1>8. TypeOK'
  BY <1>1, <1>3, <1>4, <1>5 DEF TypeOK, Others
<1>9. \A s \in Requests : Sane(s)'
  BY <1>5, <1>6, <1>7, SaneOthers DEF IInv
<1>10. Stored'
  BY <1>1, <1>4 DEF Stored, Issued, Minted
<1>11. Creating' /\ Committing'
  BY <1>4, <1>5, CreatingOthers, CommittingOthers DEF IInv, Base, At, Minting
<1>12. Listed'
  <2>1. \A u : Answering(u)' => Answering(u)
    BY <1>5 DEF Answering, Others
  <2> QED  BY <1>4, <2>1 DEF IInv, Listed, Issued
<1>13. Condemning' /\ CondemnedAreRevoked'
  <2>1. Kept
    BY <1>4 DEF Kept
  <2> QED  BY <1>4, <1>5, <1>7, <2>1, CondemningOthers, RevokedStay DEF At
<1>14. Descended' /\ LogoutIsFinal'
  BY <1>3, <1>4 DEF IInv, Descended, LogoutIsFinal, Issued
<1> QED  BY <1>8, <1>9, <1>10, <1>11, <1>12, <1>13, <1>14 DEF IInv, Base

LEMMA DeleteKeyStep == ASSUME IInv, NEW r \in Requests, DeleteKey(r) PROVE IInv'
<1> USE DEF history
<1>1. TypeOK /\ Sane(r) /\ Stored /\ req[r].pc = "delKey"
  BY DEF IInv, Base, DeleteKey
<1>2. /\ session' = session \ {Revoked(r)}
      /\ UNCHANGED <<version, entry, index, blacklist, fresh, token, pending,
                     condemned, swept, ended>>
  BY DEF DeleteKey
<1>3. /\ Others(r) /\ req'[r].pc = "srem"
      /\ req'[r].kind = req[r].kind /\ req'[r].tok = req[r].tok /\ req'[r].new = req[r].new
      /\ req'[r].copy = req[r].copy /\ req'[r].crossed = req[r].crossed
  BY <1>1, Gone DEF DeleteKey, Phases
<1>4. req[r].kind \in {"refresh", "logout", "revoke"}
  BY <1>1, Fields DEF Sane, Course, Kinds
<1>5. Revoked(r)' = Revoked(r)
  BY <1>3 DEF Revoked
<1>6. Sane(r)'
  <2>1. Revoking(r)'
    BY <1>1, <1>2, <1>3, <1>5 DEF Sane, Revoking, Ending, Minted
  <2>2. LoggingOut(r)'
    BY <1>1, <1>2, <1>3 DEF Sane, LoggingOut, Issued, Ending
  <2>3. Rotating(r)' /\ Copied(r)'
    BY <1>1, <1>2, <1>3 DEF Sane, Rotating, Copied, Issued, Emptying
  <2> QED  BY <1>3, <1>4, <2>1, <2>2, <2>3 DEF Sane, Course, Listing, Delivering
<1>7. Onward /\ Kept
  BY <1>2 DEF Onward, Minted, Kept
<1>8. Deletes(r)
  BY <1>1, <1>2, <1>3, <1>6 DEF Deletes, Admissible, At, Minting, TypeOK
<1>9. CondemnedAreRevoked' /\ LogoutIsFinal'
  BY <1>2, <1>7, RevokedStay DEF IInv, LogoutIsFinal
<1> QED  BY <1>1, <1>2, <1>3, <1>7, <1>8, <1>9, DeletesIInv DEF At, TypeOK, Stored

LEMMA RemoveEntryStep == ASSUME IInv, NEW r \in Requests, RemoveEntry(r) PROVE IInv'
<1>1. TypeOK /\ Sane(r) /\ Stored /\ req[r].pc = "srem"
  BY DEF IInv, Base, RemoveEntry
<1>2. /\ index' = index \ {Revoked(r)}
      /\ UNCHANGED <<version, entry, session, blacklist, fresh, token, pending,
                     condemned, swept>>
  BY DEF RemoveEntry
<1>3. ended' = IF req[r].kind = "logout" THEN ended \cup ({req[r].tok} \cap fresh) ELSE ended
  BY DEF RemoveEntry
<1>4. Others(r) /\ Sane(r)' /\ Admissible(r) /\ ~At(r, "handler", "delKeys")'
  <2>1. CASE req[r].kind = "refresh"
    <3>1. Goto(r, "mint")
      BY <2>1 DEF RemoveEntry
    <3>2. /\ Others(r) /\ req'[r].pc = "mint" /\ req'[r].kind = req[r].kind
          /\ req'[r].tok = req[r].tok /\ req'[r].copy = req[r].copy
          /\ req'[r].crossed = req[r].crossed
      BY <1>1, <3>1, Gone DEF Phases
    <3>3. Rotating(r)' /\ Copied(r)'
      BY <1>1, <1>2, <3>2 DEF Sane, Rotating, Copied, Issued, Emptying
    <3>4. Sane(r)'
      BY <2>1, <3>2, <3>3 DEF Sane, Course, Revoking, LoggingOut, Listing, Delivering, Ending
    <3> QED  BY <3>2, <3>4 DEF Admissible, At, Minting
  <2>2. CASE req[r].kind # "refresh"
    <3>1. Finish(r)
      BY <2>2 DEF RemoveEntry
    <3> QED  BY <1>1, <3>1, Finished DEF Admissible
  <2> QED  BY <2>1, <2>2
<1>5. Revoked(r) \notin session
  BY <1>1 DEF Sane, Revoking, Ending
<1>6. Onward /\ Kept
  BY <1>2, <1>5 DEF Onward, Minted, Kept
<1>7. Deletes(r)
  BY <1>1, <1>2, <1>4 DEF Deletes, TypeOK
<1>8. CondemnedAreRevoked'
  BY <1>2, <1>6, RevokedStay
<1>9. LogoutIsFinal'
  BY <1>1, <1>2, <1>3 DEF IInv, LogoutIsFinal, Sane, LoggingOut, Ending
<1>10. ended' \subseteq Tokens /\ \A t \in ended' : Issued(t)
  BY <1>1, <1>3 DEF TypeOK, Stored
<1> QED  BY <1>4, <1>6, <1>7, <1>8, <1>9, <1>10, DeletesIInv

-----------------------------------------------------------------------------
(* Revoking every session *)

\* A delivery completes when nothing of what it was to end is left.
LEMMA Settles ==
  ASSUME IInv, NEW r \in Requests, Onward, Kept, pending' = Settled(r),
         req[r].kind = "handler" => condemned[req[r].copy] \cap session' \subseteq swept'
  PROVE  CondemnedAreRevoked' /\ pending' \subseteq pending
<1>1. \A v \in 2 .. version : v \in Versions
  BY VersionAssumption DEF IInv, Base, TypeOK, Versions
<1>2. ASSUME NEW v \in 2 .. version, v \notin pending'
      PROVE  condemned'[v] \cap session' \subseteq swept'
  <2>1. CASE v \in pending
    BY <1>2, <2>1 DEF Settled, Kept
  <2>2. CASE v \notin pending
    BY <1>1, <2>2, CondemnedStay DEF IInv, CondemnedAreRevoked, Kept
  <2> QED  BY <2>1, <2>2
<1> QED  BY <1>2 DEF CondemnedAreRevoked, Settled, Onward

LEMMA DeliverStep == ASSUME IInv, NEW r \in Requests, Deliver(r) PROVE IInv'
<1>1. TypeOK /\ Stored /\ req[r] = Idle
  BY Resting DEF IInv, Base, Deliver
<1>2. PICK v \in pending :
        req' = [req EXCEPT ![r].kind = "handler", ![r].pc = "smembers", ![r].copy = v]
  BY DEF Deliver
<1>3. v \in 2 .. version /\ v \in Versions
  BY <1>1 DEF TypeOK, Stored
<1>4. Others(r) /\ req'[r].kind = "handler" /\ req'[r].pc = "smembers" /\ req'[r].copy = v
  <2> DEFINE q == [req[r] EXCEPT !.kind = "handler", !.pc = "smembers", !.copy = v]
  <2>1. q \in Request /\ q.kind = "handler" /\ q.pc = "smembers" /\ q.copy = v
    BY <1>1, <1>3, Fields DEF Request, Kinds, Phases
  <2>2. req' = [req EXCEPT ![r] = q]
    BY <1>2
  <2> HIDE DEF q
  <2> QED  BY <1>1, <2>1, <2>2, Replaced
<1>5. Sane(r)'
  BY <1>3, <1>4 DEF Sane, Course, Copied, Rotating, Revoking, LoggingOut, Listing, Delivering,
                    Emptying, Ending, Deliver
<1>6. Alone(r) /\ Admissible(r)
  BY <1>1, <1>4, <1>5 DEF Alone, Admissible, Deliver, Stored, At, Minting, TypeOK
<1> QED  BY <1>6, Quiet DEF Deliver

LEMMA ReadIndexStep == ASSUME IInv, NEW r \in Requests, ReadIndex(r) PROVE IInv'
<1> USE DEF redis, history
<1>1. TypeOK /\ Sane(r) /\ Stored /\ req[r].pc = "smembers"
  BY DEF IInv, Base, ReadIndex
<1>2. UNCHANGED <<version, entry, session, index, blacklist, fresh, token, condemned, swept, ended>>
  BY DEF ReadIndex
<1>3. Onward /\ Kept
  BY <1>2 DEF Onward, Minted, Kept
<1>4. req[r].kind = "handler" => condemned[req[r].copy] \cap session \subseteq index \cup swept
  BY Delivered DEF IInv, Condemning
<1>5. CASE index = {}
  <2>1. Finish(r) /\ pending' = Settled(r)
    BY <1>5 DEF ReadIndex
  <2>2. Alone(r) /\ Admissible(r)
    BY <1>1, <1>2, <2>1, Finished DEF Alone, Admissible, Stored, TypeOK
  <2>3. CondemnedAreRevoked' /\ pending' \subseteq pending
    BY <1>2, <1>3, <1>4, <1>5, <2>1, Settles
  <2> QED  BY <2>2, <2>3, AloneIInv
<1>6. CASE index # {}
  <2>1. req' = [req EXCEPT ![r].pc = "delKeys", ![r].jtis = index] /\ UNCHANGED pending
    BY <1>6 DEF ReadIndex
  <2>2. /\ Others(r) /\ req'[r].pc = "delKeys" /\ req'[r].jtis = index
        /\ req'[r].kind = req[r].kind /\ req'[r].copy = req[r].copy
        /\ req'[r].tok = req[r].tok /\ req'[r].crossed = req[r].crossed
    <3> DEFINE q == [req[r] EXCEPT !.pc = "delKeys", !.jtis = index]
    <3>1. /\ q \in Request /\ q.pc = "delKeys" /\ q.jtis = index
          /\ q.kind = req[r].kind /\ q.copy = req[r].copy
          /\ q.tok = req[r].tok /\ q.crossed = req[r].crossed
      BY <1>1, Fields DEF Request, Phases, TypeOK
    <3>2. req' = [req EXCEPT ![r] = q]
      BY <2>1
    <3> HIDE DEF q
    <3> QED  BY <1>1, <3>1, <3>2, Replaced
  <2>3. req[r].kind \in {"refresh", "change", "handler"}
    BY <1>1, Fields DEF Sane, Course, Kinds
  <2>4. Sane(r)'
    <3>1. Rotating(r)' /\ Delivering(r)'
      BY <1>1, <1>2, <2>2 DEF Sane, Rotating, Delivering, Issued
    <3> QED  BY <2>2, <2>3, <3>1
                DEF Sane, Course, Copied, Revoking, LoggingOut, Listing, Emptying, Ending
  <2>5. Alone(r)
    BY <1>1, <1>2, <2>2, <2>4 DEF Alone, Stored, TypeOK
  <2>6. Admissible(r)
    BY <1>2, <1>4, <2>2 DEF Admissible, At, Minting
  <2> QED  BY <2>1, <2>5, <2>6, Quiet
<1> QED  BY <1>5, <1>6

LEMMA DeleteSomeKeyStep == ASSUME IInv, NEW r \in Requests, DeleteSomeKey(r) PROVE IInv'
<1> USE DEF history
<1>1. TypeOK /\ Sane(r) /\ Stored /\ req[r].pc = "delKeys"
  BY DEF IInv, Base, DeleteSomeKey
<1>2. PICK t \in req[r].jtis :
        /\ session' = session \ {t}
        /\ req' = [req EXCEPT ![r].jtis = @ \ {t}]
  BY DEF DeleteSomeKey
<1>3. UNCHANGED <<version, entry, index, blacklist, fresh, token, pending, condemned, swept, ended>>
  BY DEF DeleteSomeKey
<1>4. /\ Others(r) /\ req'[r].pc = "delKeys" /\ req'[r].jtis = req[r].jtis \ {t}
      /\ req'[r].kind = req[r].kind /\ req'[r].copy = req[r].copy
      /\ req'[r].tok = req[r].tok /\ req'[r].crossed = req[r].crossed
  <2> DEFINE q == [req[r] EXCEPT !.jtis = req[r].jtis \ {t}]
  <2>1. /\ q \in Request /\ q.pc = "delKeys" /\ q.jtis = req[r].jtis \ {t}
        /\ q.kind = req[r].kind /\ q.copy = req[r].copy
        /\ q.tok = req[r].tok /\ q.crossed = req[r].crossed
    BY <1>1, Fields DEF Request
  <2>2. req' = [req EXCEPT ![r] = q]
    BY <1>2
  <2> HIDE DEF q
  <2> QED  BY <1>1, <2>1, <2>2, Replaced
<1>5. req[r].kind \in {"refresh", "change", "handler"}
  BY <1>1, Fields DEF Sane, Course, Kinds
<1>6. Sane(r)'
  <2>1. Rotating(r)' /\ Delivering(r)'
    BY <1>1, <1>3, <1>4 DEF Sane, Rotating, Delivering, Issued
  <2> QED  BY <1>4, <1>5, <2>1
              DEF Sane, Course, Copied, Revoking, LoggingOut, Listing, Emptying, Ending
<1>7. Onward /\ Kept
  BY <1>2, <1>3 DEF Onward, Minted, Kept
<1>8. Admissible(r)
  <2>1. At(r, "handler", "delKeys")' =>
          condemned[req[r].copy] \cap session \subseteq req[r].jtis \cup swept
    BY <1>1, <1>4 DEF IInv, Condemning, At
  <2> QED  BY <1>2, <1>3, <1>4, <2>1 DEF Admissible, At, Minting
<1>9. Deletes(r)
  BY <1>1, <1>2, <1>3, <1>4, <1>6, <1>8 DEF Deletes, TypeOK
<1>10. CondemnedAreRevoked' /\ LogoutIsFinal'
  BY <1>3, <1>7, RevokedStay DEF IInv, LogoutIsFinal
<1> QED  BY <1>1, <1>3, <1>7, <1>9, <1>10, DeletesIInv DEF TypeOK, Stored

LEMMA DeleteIndexStep == ASSUME IInv, NEW r \in Requests, DeleteIndex(r) PROVE IInv'
<1>1. TypeOK /\ Sane(r) /\ Stored /\ req[r].pc = "delKeys" /\ req[r].jtis = {}
  BY DEF IInv, Base, DeleteIndex, KeysDeleted
<1>2. /\ index' = {} /\ swept' = swept \cup ((index \ req[r].jtis) \cap session)
      /\ Finish(r) /\ pending' = Settled(r)
      /\ UNCHANGED <<version, entry, session, blacklist, fresh, token, condemned, ended>>
  BY <1>1 DEF DeleteIndex
<1>3. Onward /\ Kept
  BY <1>1, <1>2 DEF Onward, Minted, Kept
<1>4. req[r].kind = "handler" => condemned[req[r].copy] \cap session' \subseteq swept'
  BY <1>1, <1>2 DEF IInv, Condemning, At
<1>5. CondemnedAreRevoked' /\ pending' \subseteq pending
  BY <1>2, <1>3, <1>4, Settles
<1>6. Deletes(r)
  BY <1>1, <1>2, <1>5, Finished DEF Deletes, Admissible, TypeOK
<1>7. LogoutIsFinal'
  BY <1>2 DEF IInv, LogoutIsFinal
<1> QED  BY <1>1, <1>2, <1>3, <1>5, <1>6, <1>7, DeletesIInv DEF TypeOK, Stored

LEMMA IndexGoneStep == ASSUME IInv, NEW r \in Requests, IndexGone(r) PROVE IInv'
<1> USE DEF redis, history
<1>1. TypeOK /\ Stored /\ req[r].pc = "delKeys" /\ req[r].jtis = {}
  BY DEF IInv, Base, IndexGone
<1>2. /\ Finish(r) /\ pending' = Settled(r)
      /\ UNCHANGED <<version, entry, session, index, blacklist, fresh,
                    token, condemned, swept, ended>>
  BY DEF IndexGone
<1>3. Onward /\ Kept
  BY <1>2 DEF Onward, Minted, Kept
<1>4. req[r].kind = "handler" => condemned[req[r].copy] \cap session' \subseteq swept'
  BY <1>1, <1>2 DEF IInv, Condemning, At
<1>5. CondemnedAreRevoked' /\ pending' \subseteq pending
  BY <1>2, <1>3, <1>4, Settles
<1>6. Alone(r) /\ Admissible(r)
  BY <1>1, <1>2, Finished DEF Alone, Admissible, Stored, TypeOK
<1> QED  BY <1>5, <1>6, AloneIInv

-----------------------------------------------------------------------------
(* Listing *)

LEMMA ListStep == ASSUME IInv, NEW r \in Requests, List(r) PROVE IInv'
<1>1. TypeOK /\ Stored /\ req[r].kind = "list"
  BY DEF IInv, Base, List, At
<1>2. Alone(r) /\ Admissible(r)
  <2>1. CASE index = {}
    <3>1. Finish(r)
      BY <2>1 DEF List
    <3> QED  BY <1>1, <3>1, Finished DEF Alone, Admissible, List, Stored, TypeOK
  <2>2. CASE index # {}
    <3>1. req' = [req EXCEPT ![r].pc = "stale", ![r].jtis = index]
      BY <2>2 DEF List
    <3>2. Others(r) /\ req'[r].pc = "stale" /\ req'[r].jtis = index /\ req'[r].kind = "list"
      <4> DEFINE q == [req[r] EXCEPT !.pc = "stale", !.jtis = index]
      <4>1. q \in Request /\ q.pc = "stale" /\ q.jtis = index /\ q.kind = "list"
        BY <1>1, Fields DEF Request, Phases, TypeOK
      <4>2. req' = [req EXCEPT ![r] = q]
        BY <3>1
      <4> HIDE DEF q
      <4> QED  BY <1>1, <4>1, <4>2, Replaced
    <3>3. Listing(r)'
      BY <1>1, <3>2 DEF Listing, List, Stored, Minted
    <3>4. Sane(r)'
      BY <3>2, <3>3 DEF Sane, Course, Copied, Rotating, Revoking, LoggingOut, Delivering, Ending
    <3> QED  BY <1>1, <3>2, <3>4 DEF Alone, Admissible, List, Stored, TypeOK, At, Minting
  <2> QED  BY <2>1, <2>2
<1> QED  BY <1>2, Quiet DEF List

LEMMA ReadSessionsStep == ASSUME IInv, NEW r \in Requests, ReadSessions(r) PROVE IInv'
<1>1. TypeOK /\ Sane(r) /\ Stored /\ req[r].pc = "stale"
  BY DEF IInv, Base, ReadSessions
<1>2. req[r].kind = "list"
  BY <1>1, Fields DEF Sane, Course, Kinds
<1>3. Alone(r) /\ Admissible(r)
  <2>1. CASE req[r].jtis \subseteq session
    <3>1. Finish(r)
      BY <2>1 DEF ReadSessions
    <3> QED  BY <1>1, <3>1, Finished DEF Alone, Admissible, ReadSessions, Stored, TypeOK
  <2>2. CASE ~(req[r].jtis \subseteq session)
    <3>1. req' = [req EXCEPT ![r].pc = "committing", ![r].jtis = @ \ session]
      BY <2>2 DEF ReadSessions
    <3>2. /\ Others(r) /\ req'[r].pc = "committing" /\ req'[r].jtis = req[r].jtis \ session
          /\ req'[r].kind = "list"
      <4> DEFINE q == [req[r] EXCEPT !.pc = "committing", !.jtis = req[r].jtis \ session]
      <4>1. /\ q \in Request /\ q.pc = "committing" /\ q.jtis = req[r].jtis \ session
            /\ q.kind = "list"
        BY <1>1, <1>2, Fields DEF Request, Phases
      <4>2. req' = [req EXCEPT ![r] = q]
        BY <3>1
      <4> HIDE DEF q
      <4> QED  BY <1>1, <4>1, <4>2, Replaced
    <3>3. Listing(r)'
      BY <1>1, <1>2, <3>2 DEF Sane, Listing, ReadSessions, Minted, redis
    <3>4. Sane(r)'
      BY <3>2, <3>3 DEF Sane, Course, Copied, Rotating, Revoking, LoggingOut, Delivering, Ending
    <3> QED  BY <1>1, <3>2, <3>4 DEF Alone, Admissible, ReadSessions, Stored, TypeOK, At, Minting
  <2> QED  BY <2>1, <2>2
<1> QED  BY <1>3, Quiet DEF ReadSessions

LEMMA RemoveStaleStep == ASSUME IInv, NEW r \in Requests, RemoveStale(r) PROVE IInv'
<1> USE DEF history
<1>1. TypeOK /\ Stored /\ req[r].jtis \cap session = {}
  BY DEF IInv, Base, RemoveStale, At, Sane, Listing
<1>2. /\ index' = index \ req[r].jtis /\ Finish(r)
      /\ UNCHANGED <<version, entry, session, blacklist, fresh, token, pending,
                     condemned, swept, ended>>
  BY DEF RemoveStale
<1>3. Onward /\ Kept
  BY <1>1, <1>2 DEF Onward, Minted, Kept
<1>4. Deletes(r)
  BY <1>1, <1>2, Finished DEF Deletes, Admissible, TypeOK
<1>5. CondemnedAreRevoked' /\ LogoutIsFinal'
  BY <1>2, <1>3, RevokedStay DEF IInv, LogoutIsFinal
<1> QED  BY <1>1, <1>2, <1>3, <1>4, <1>5, DeletesIInv DEF TypeOK, Stored

-----------------------------------------------------------------------------
(* Changing the password *)

LEMMA SaveChangeStep == ASSUME IInv, NEW r \in Requests, SaveChange(r) PROVE IInv'
<1>1. TypeOK /\ req[r].kind = "change" /\ ~Changing /\ version < LastVersion
  BY DEF IInv, Base, SaveChange, At
<1>2. Others(r) /\ req'[r].pc = "committing" /\ req'[r].kind = "change"
  BY <1>1, Gone DEF SaveChange, Phases
<1>3. Sane(r)'
  BY <1>2 DEF Sane, Course, Copied, Rotating, Revoking, LoggingOut, Listing, Delivering, Ending
<1>4. entry' \in Versions \cup {NoEntry} /\ entry' \notin Versions
  BY ConstantTypes DEF SaveChange
<1>5. Alone(r) /\ Admissible(r)
  BY <1>1, <1>2, <1>3, <1>4 DEF Alone, Admissible, SaveChange, At, Minting
<1> QED  BY <1>5, Quiet DEF SaveChange

\* The version moves on: rotations under way are crossed, the event is stored
\* with the sessions it condemns, and no other change is committing.
LEMMA CommitChangeStep == ASSUME IInv, NEW r \in Requests, CommitChange(r) PROVE IInv'
<1> USE DEF redis
<1>1. TypeOK /\ Stored /\ Creating /\ Committing
      /\ req[r].kind = "change" /\ req[r].pc = "committing"
  BY DEF IInv, Base, CommitChange, At
<1>2. /\ version' = version + 1 /\ pending' = pending \cup {version + 1}
      /\ condemned' = [condemned EXCEPT ![version + 1] = session \cap index]
      /\ UNCHANGED <<entry, session, index, blacklist, fresh, token, swept, ended>>
  BY DEF CommitChange
<1>3. version \in Nat /\ version >= 1 /\ version + 1 \in Versions /\ LastVersion \in Nat
  BY <1>1, VersionAssumption DEF Committing, At, TypeOK, Versions
<1>4. req' \in [Requests -> Request] /\ req'[r].kind = "change" /\ req'[r].pc = "smembers"
  <2> DEFINE gone == [req[r] EXCEPT !.pc = "smembers"]
             seen(s) == [req[s] EXCEPT !.crossed = (req[s].kind = "refresh")]
  <2>1. req' = [s \in Requests |-> IF s = r THEN gone ELSE seen(s)]
    BY DEF CommitChange
  <2>2. gone \in Request /\ gone.kind = "change" /\ gone.pc = "smembers"
    BY <1>1, Fields DEF Request, Phases
  <2>3. \A s \in Requests : seen(s) \in Request
    BY <1>1, Fields DEF Request
  <2> HIDE DEF gone, seen
  <2> QED  BY <2>1, <2>2, <2>3
<1>5. ASSUME NEW s \in Requests, s # r
      PROVE  /\ req'[s].kind = req[s].kind /\ req'[s].pc = req[s].pc
             /\ req'[s].tok = req[s].tok /\ req'[s].new = req[s].new
             /\ req'[s].copy = req[s].copy /\ req'[s].jtis = req[s].jtis
             /\ req'[s].crossed = (req[s].kind = "refresh")
             /\ req[s] = Idle => req'[s] = Idle
  <2>1. req'[s] = [req[s] EXCEPT !.crossed = (req[s].kind = "refresh")]
    BY <1>5 DEF CommitChange
  <2>2. req[s] \in Request
    BY <1>1, Fields
  <2> QED  BY <2>1, <2>2 DEF Request, Idle
<1>6. \A s \in Requests : Sane(s)'
  <2>1. Sane(r)'
    BY <1>4 DEF Sane, Course, Copied, Rotating, Revoking, LoggingOut, Listing, Delivering, Ending
  <2>2. ASSUME NEW s \in Requests, s # r PROVE Sane(s)'
    <3>1. Sane(s)
      BY DEF IInv, Base
    <3>2. req'[s].pc \in Course(req'[s].kind) /\ (req'[s].pc = "idle" => req'[s] = Idle)
      BY <1>5, <2>2, <3>1 DEF Sane
    <3>3. Copied(s)' /\ Delivering(s)'
      BY <1>2, <1>3, <1>5, <2>2, <3>1 DEF Sane, Copied, Delivering
    <3>4. Rotating(s)'
      BY <1>2, <1>5, <2>2, <3>1 DEF Sane, Rotating, Issued
    <3>5. Revoking(s)'
      BY <1>2, <1>5, <2>2, <3>1 DEF Sane, Revoking, Revoked, Minted
    <3>6. LoggingOut(s)' /\ Listing(s)'
      BY <1>2, <1>5, <2>2, <3>1 DEF Sane, LoggingOut, Listing, Issued, Minted
    <3> QED  BY <3>2, <3>3, <3>4, <3>5, <3>6 DEF Sane
  <2> QED  BY <2>1, <2>2
<1>7. TypeOK'
  BY <1>1, <1>2, <1>3, <1>4 DEF TypeOK
<1>8. Stored'
  BY <1>1, <1>2, <1>3, VersionAssumption DEF Stored, Issued, Minted, TypeOK, Versions
<1>9. Creating'
  <2>1. \A s \in Requests : req'[s].pc \in Minting => s # r
    BY <1>4 DEF Minting
  <2> QED  BY <1>1, <1>2, <1>5, <2>1 DEF Creating, Issued, Minted
<1>10. Committing'
  <2>1. \A s \in Requests : ~At(s, "change", "committing")'
    BY <1>1, <1>4, <1>5 DEF Committing, At
  <2> QED  BY <2>1 DEF Committing
<1>11. Listed'
  <2>1. \A u : Answering(u)' => Answering(u)
    BY <1>4, <1>5 DEF Answering
  <2> QED  BY <1>2, <2>1 DEF IInv, Listed, Issued
<1>12. /\ condemned'[version + 1] = session \cap index
       /\ \A v \in Versions \ {version + 1} : condemned'[v] = condemned[v]
  BY <1>1, <1>2, <1>3 DEF TypeOK
<1>13. Condemning'
  <2>1. \A v \in Versions : \A t \in condemned'[v] : Minted(t)'
    BY <1>1, <1>2, <1>12 DEF IInv, Condemning, Stored, Minted
  <2>2. \A v \in Versions : condemned'[v] \cap session' \subseteq index' \cup swept'
    BY <1>2, <1>12 DEF IInv, Condemning
  <2>3. ASSUME NEW s \in Requests, At(s, "handler", "delKeys")'
        PROVE  condemned'[req'[s].copy] \cap session' \subseteq req'[s].jtis \cup swept'
    <3>1. s # r /\ At(s, "handler", "delKeys") /\ req'[s].copy = req[s].copy
          /\ req'[s].jtis = req[s].jtis
      BY <1>4, <1>5, <2>3 DEF At
    <3>2. req[s].copy \in Versions /\ req[s].copy # version + 1
      BY <1>3, <3>1, Delivered DEF At
    <3> QED  BY <1>2, <1>12, <3>1, <3>2 DEF IInv, Condemning
  <2> QED  BY <2>1, <2>2, <2>3 DEF Condemning
<1>14. CondemnedAreRevoked'
  <2> SUFFICES ASSUME NEW v \in 2 .. version + 1, v # version + 1
               PROVE  v \in pending \/ condemned'[v] \cap session \subseteq swept
    BY <1>2 DEF CondemnedAreRevoked
  <2>1. v \in 2 .. version /\ v \in Versions
    BY <1>3, VersionAssumption DEF Versions
  <2> QED  BY <1>12, <2>1 DEF IInv, CondemnedAreRevoked
<1>15. Descended' /\ LogoutIsFinal'
  BY <1>2 DEF IInv, Descended, LogoutIsFinal, Issued
<1> QED  BY <1>6, <1>7, <1>8, <1>9, <1>10, <1>11, <1>13, <1>14, <1>15 DEF IInv, Base

-----------------------------------------------------------------------------
(* Time and failures *)

\* The requests and what they rely on stand still.
LEMMA Elapsed ==
  ASSUME IInv, Onward, Kept, UNCHANGED <<req, token, pending>>
  PROVE  /\ \A s \in Requests : Sane(s)'
         /\ Creating' /\ Committing' /\ CondemnedAreRevoked' /\ Condemning' /\ Descended'
         /\ \A t : Answering(t)' <=> Answering(t)
<1>1. \A s \in Requests : Sane(s)'
  BY SaneOnward DEF IInv, Base
<1>2. Creating' /\ Committing'
  BY DEF IInv, Base, Creating, Committing, At, Issued, Minted, Onward
<1>3. CondemnedAreRevoked'
  BY RevokedStay
<1>4. Condemning'
  <2>1. ASSUME NEW s \in Requests, At(s, "handler", "delKeys")'
        PROVE  condemned'[req'[s].copy] \cap session' \subseteq req'[s].jtis \cup swept'
    <3>1. At(s, "handler", "delKeys") /\ req[s].copy \in Versions
      BY <2>1, Delivered DEF At
    <3>2. condemned[req[s].copy] \cap session \subseteq req[s].jtis \cup swept
      BY <3>1 DEF IInv, Condemning
    <3> QED  BY <3>1, <3>2, CondemnedStay DEF Kept
  <2> QED  BY <2>1, CondemnedStay DEF Condemning
<1>5. Descended'
  BY DEF IInv, Descended, Issued
<1>6. \A t : Answering(t)' <=> Answering(t)
  BY DEF Answering
<1> QED  BY <1>1, <1>2, <1>3, <1>4, <1>5, <1>6

LEMMA IndexExpiresStep == ASSUME IInv, IndexExpires PROVE IInv'
<1>1. TypeOK /\ Stored
  BY DEF IInv, Base
<1>2. /\ index' = {} /\ swept' = swept \cup (session \cap index)
      /\ UNCHANGED <<version, entry, session, blacklist, fresh, token, pending, req,
                     condemned, ended>>
  BY DEF IndexExpires
<1>3. Onward /\ Kept
  BY <1>2 DEF Onward, Minted, Kept
<1>4. TypeOK' /\ Stored'
  BY <1>1, <1>2 DEF TypeOK, Stored, Minted, Issued
<1>5. Listed' /\ LogoutIsFinal'
  BY <1>2 DEF IInv, Listed, LogoutIsFinal, Issued, Answering
<1> QED  BY <1>2, <1>3, <1>4, <1>5, Elapsed DEF IInv, Base

LEMMA AccessExpiresStep == ASSUME IInv, NEW t \in Tokens, AccessExpires(t) PROVE IInv'
<1>1. TypeOK /\ Stored
  BY DEF IInv, Base
<1>2. /\ fresh' = fresh \ {t} /\ blacklist' = blacklist \ {t} /\ ended' = ended \ {t}
      /\ UNCHANGED <<version, entry, session, index, token, pending, req, condemned, swept>>
  BY DEF AccessExpires
<1>3. Onward /\ Kept
  BY <1>2 DEF Onward, Minted, Kept
<1>4. TypeOK' /\ Stored'
  BY <1>1, <1>2 DEF TypeOK, Stored, Minted, Issued
<1>5. Listed' /\ LogoutIsFinal'
  BY <1>2 DEF IInv, Listed, LogoutIsFinal, Issued, Answering
<1> QED  BY <1>2, <1>3, <1>4, <1>5, Elapsed DEF IInv, Base

LEMMA SessionExpiresStep == ASSUME IInv, NEW t \in Tokens, SessionExpires(t) PROVE IInv'
<1> USE DEF history
<1>1. TypeOK /\ Stored
  BY DEF IInv, Base
<1>2. /\ session' = session \ {t}
      /\ UNCHANGED <<version, entry, index, blacklist, fresh, token, pending, req,
                     condemned, swept, ended>>
  BY DEF SessionExpires
<1>3. Onward /\ Kept
  BY <1>2 DEF Onward, Minted, Kept
<1>4. TypeOK' /\ Stored'
  BY <1>1, <1>2 DEF TypeOK, Stored, Minted, Issued
<1>5. Listed' /\ LogoutIsFinal'
  BY <1>2 DEF IInv, Listed, LogoutIsFinal, Issued, Answering
<1> QED  BY <1>2, <1>3, <1>4, <1>5, Elapsed DEF IInv, Base

LEMMA GiveUpStep == ASSUME IInv, NEW r \in Requests, GiveUp(r) PROVE IInv'
<1>1. Alone(r) /\ Admissible(r)
  BY Finished DEF IInv, Base, TypeOK, Stored, GiveUp, Alone, Admissible
<1> QED  BY <1>1, Quiet DEF GiveUp

-----------------------------------------------------------------------------
(* The theorems *)

LEMMA NextIInv == IInv /\ [Next]_vars => IInv'
<1> SUFFICES ASSUME IInv, [Next]_vars PROVE IInv'
  OBVIOUS
<1>1. ASSUME NEW r \in Requests, Admit(r) PROVE IInv'
  BY <1>1, SignInStep, GoogleSignInStep, AuthenticateStep, PresentStep, FindUserStep,
     FillEntryStep DEF Admit
<1>2. ASSUME NEW r \in Requests, CreateSession(r) PROVE IInv'
  BY <1>2, MintStep, MintIndexStep, AnswerStep DEF CreateSession
<1>3. ASSUME NEW r \in Requests, RevokeSession(r) PROVE IInv'
  BY <1>3, LookupSessionStep, SelectSessionStep, LogoutStep, DeleteKeyStep, RemoveEntryStep
     DEF RevokeSession
<1>4. ASSUME NEW r \in Requests, RevokeAllSessions(r) PROVE IInv'
  BY <1>4, DeliverStep, ReadIndexStep, DeleteSomeKeyStep, DeleteIndexStep, IndexGoneStep
     DEF RevokeAllSessions
<1>5. ASSUME NEW r \in Requests, GetActiveSessions(r) PROVE IInv'
  BY <1>5, ListStep, ReadSessionsStep, RemoveStaleStep DEF GetActiveSessions
<1>6. ASSUME NEW r \in Requests, ChangePassword(r) PROVE IInv'
  BY <1>6, SaveChangeStep, CommitChangeStep DEF ChangePassword
<1>7. CASE Expiry
  BY <1>7, EntryExpiresStep, IndexExpiresStep, AccessExpiresStep, SessionExpiresStep DEF Expiry
<1>8. CASE UNCHANGED vars
  <2>1. Onward /\ Kept
    BY <1>8 DEF Onward, Minted, Kept, vars, redis, history
  <2>2. TypeOK' /\ Stored' /\ Listed' /\ LogoutIsFinal'
    BY <1>8 DEF IInv, Base, TypeOK, Stored, Listed, LogoutIsFinal, Issued, Minted, Answering,
                vars, redis, history
  <2> QED  BY <1>8, <2>1, <2>2, Elapsed DEF IInv, Base, vars
<1> QED  BY <1>1, <1>2, <1>3, <1>4, <1>5, <1>6, <1>7, <1>8, GiveUpStep DEF Next

LEMMA SpecIInv == Spec => []IInv
BY InitIInv, NextIInv, PTL DEF Spec

\* Every variable keeps its type, whatever the requests, the worker and time do.
THEOREM SessionsTypeOK == Spec => []TypeOK
<1>1. IInv => TypeOK
  BY DEF IInv, Base
<1> QED  BY <1>1, SpecIInv, PTL

\* Every session that refreshes is in the user's set, and so within the reach of
\* revokeAllSessions, unless a concurrent revocation or the TTL of the set
\* dropped its entry while createSession was under way.
THEOREM SessionsUsableIsListed == Spec => []UsableIsListed
<1>1. IInv => UsableIsListed
  BY DEF IInv, Listed, UsableIsListed, Usable
<1> QED  BY <1>1, SpecIInv, PTL

\* Once UserSessionsRevokeAllRequested of a password change was delivered, no
\* session that was listed at its commit has a key, however often deliveries of
\* it died half way.
THEOREM SessionsCondemnedAreRevoked == Spec => []CondemnedAreRevoked
<1>1. IInv => CondemnedAreRevoked
  BY DEF IInv
<1> QED  BY <1>1, SpecIInv, PTL

\* A session that outlives a password change comes from a rotation that was
\* under way when the change was committed.
THEOREM SessionsSurvivorsCrossed == Spec => []SurvivorsCrossed
<1>1. IInv => SurvivorsCrossed
  BY DEF IInv, Descended, SurvivorsCrossed, Usable
<1> QED  BY <1>1, SpecIInv, PTL

\* An access token is blacklisted from the answer of its logout until it expires.
THEOREM SessionsLogoutIsFinal == Spec => []LogoutIsFinal
<1>1. IInv => LogoutIsFinal
  BY DEF IInv
<1> QED  BY <1>1, SpecIInv, PTL

-----------------------------------------------------------------------------
(* The contract.  A rotation that has got past the DEL of its old session   *)
(* finds it gone for good, a crossed one presented an older version, and    *)
(* only access tokens in use are on the blacklist.                          *)

Past == {"srem", "mint", "sadd", "expire"}

Replacing(r) == req[r].kind = "refresh" /\ req[r].pc \in Past => req[r].tok \notin session
Crossing(r) == req[r].kind = "refresh" /\ req[r].crossed => token[req[r].tok].ver < version

Rotations == \A r \in Requests : Replacing(r) /\ Crossing(r)

RInv == IInv /\ Rotations /\ blacklist \subseteq fresh

\* A step that keeps the rotations and the contract.
Faithful == Rotations' /\ blacklist' \subseteq fresh' /\ [Contract!Next]_(Contract!vars)

\* The requests other than r keep theirs.
LEMMA RotationsOthers ==
  ASSUME RInv, Onward, NEW r \in Requests, Others(r), Replacing(r)', Crossing(r)'
  PROVE  Rotations'
<1> SUFFICES ASSUME NEW s \in Requests, s # r PROVE Replacing(s)' /\ Crossing(s)'
  BY DEF Rotations
<1>1. req'[s] = req[s]
  BY DEF Others
<1>2. Replacing(s) /\ Crossing(s) /\ Sane(s)
  BY DEF RInv, IInv, Base, Rotations
<1>3. req[s].kind = "refresh" =>
        /\ req[s].tok \in Tokens /\ Issued(req[s].tok) /\ Minted(req[s].tok)
        /\ token'[req[s].tok] = token[req[s].tok]
  BY <1>2 DEF RInv, IInv, Base, Stored, Sane, Rotating, Onward
<1>4. Replacing(s)'
  BY <1>1, <1>2, <1>3 DEF Replacing, Onward
<1>5. Crossing(s)'
  BY <1>1, <1>2, <1>3 DEF Crossing, Onward
<1> QED  BY <1>4, <1>5

\* A step that moves r alone: the rest of the contract stands still.
Still == UNCHANGED <<version, session, blacklist, fresh, token, pending, condemned, swept, ended>>

\* r rests, is no rotation, or is still the same one and not yet past the DEL.
Going(r) ==
  req'[r].kind = "refresh" =>
    \/ /\ req[r].kind = "refresh"
       /\ req'[r].tok = req[r].tok /\ req'[r].crossed = req[r].crossed
       /\ req'[r].pc \in Past => req[r].pc \in Past \/ req[r].tok \notin session'
    \/ ~req'[r].crossed /\ req'[r].pc \notin Past

LEMMA GoingOn ==
  ASSUME RInv, Onward, NEW r \in Requests, Others(r), Going(r)
  PROVE  Rotations'
<1>1. Replacing(r) /\ Crossing(r) /\ Sane(r)
  BY DEF RInv, IInv, Base, Rotations
<1>2. req[r].kind = "refresh" =>
        /\ req[r].tok \in Tokens /\ Issued(req[r].tok) /\ Minted(req[r].tok)
        /\ token'[req[r].tok] = token[req[r].tok]
  BY <1>1 DEF RInv, IInv, Base, Stored, Sane, Rotating, Onward
<1>3. Replacing(r)'
  BY <1>1, <1>2 DEF Replacing, Going, Onward
<1>4. Crossing(r)'
  BY <1>1, <1>2 DEF Crossing, Going, Onward
<1> QED  BY <1>3, <1>4, RotationsOthers

LEMMA StillStep ==
  ASSUME RInv, NEW r \in Requests, Others(r), Going(r), Still
  PROVE  Faithful
<1>1. Onward
  BY DEF Still, Onward, Minted
<1>2. UNCHANGED Contract!vars
  BY DEF Still, Contract!vars, Accepted
<1>3. blacklist' \subseteq fresh'
  BY DEF RInv, Still
<1> QED  BY <1>1, <1>2, <1>3, GoingOn DEF Faithful

\* What Begin, Goto and Finish do to r.
LEMMA Begun ==
  ASSUME TypeOK, NEW r \in Requests, NEW kind \in Kinds, NEW phase \in Phases \ Past,
         NEW t \in Tokens \cup {NoToken}, req[r] = Idle, Begin(r, kind, phase, t)
  PROVE  Others(r) /\ Going(r)
<1> DEFINE q == [req[r] EXCEPT !.kind = kind, !.pc = phase, !.tok = t]
<1>1. q \in Request /\ ~q.crossed /\ q.pc = phase
  <2>1. q \in Request /\ q.pc = phase /\ q.crossed = req[r].crossed
    BY Fields DEF Request
  <2>2. ~req[r].crossed
    BY DEF Idle
  <2> QED  BY <2>1, <2>2
<1>2. req' = [req EXCEPT ![r] = q]
  BY DEF Begin
<1> HIDE DEF q
<1>3. Others(r) /\ req'[r] = q
  BY <1>1, <1>2, Replaced
<1> QED  BY <1>1, <1>3 DEF Going

LEMMA Left ==
  ASSUME TypeOK, NEW r \in Requests, NEW phase \in Phases, Goto(r, phase),
         phase \in Past => req[r].pc \in Past \/ req[r].kind # "refresh"
                            \/ req[r].tok \notin session'
  PROVE  Others(r) /\ Going(r)
BY Gone DEF Going

LEMMA Done ==
  ASSUME TypeOK, NEW r \in Requests, Finish(r)
  PROVE  Others(r) /\ Going(r)
BY Finished, ConstantTypes DEF Going

-----------------------------------------------------------------------------
(* Requests that find their user, look, list or wait *)

LEMMA AdmitContract == ASSUME RInv, NEW r \in Requests, Admit(r) PROVE Faithful
<1> USE DEF redis, history
<1>1. TypeOK /\ Sane(r)
  BY DEF RInv, IInv, Base
<1>2. Still
  BY DEF Admit, SignIn, GoogleSignIn, Authenticate, Present, FindUser, FillEntry, Still
<1>3. ASSUME req[r].pc = "idle" PROVE req[r] = Idle
  BY <1>3, Resting DEF RInv
<1>4. CASE SignIn(r)
  BY <1>1, <1>2, <1>3, <1>4, Begun, StillStep DEF SignIn, Kinds, Phases, Past
<1>5. CASE GoogleSignIn(r)
  <2> DEFINE q == [req[r] EXCEPT !.kind = "signIn", !.pc = "filling", !.copy = version]
  <2>1. q \in Request /\ q.kind = "signIn"
    BY <1>1, Fields DEF Request, Kinds, Phases, TypeOK
  <2>2. req' = [req EXCEPT ![r] = q]
    BY <1>5 DEF GoogleSignIn
  <2> HIDE DEF q
  <2>3. Others(r) /\ Going(r)
    BY <1>1, <2>1, <2>2, Replaced DEF Going
  <2> QED  BY <1>2, <2>3, StillStep
<1>6. CASE Authenticate(r)
  <2>1. PICK kind \in {"logout", "revoke", "list", "change"}, t \in fresh \ blacklist :
          Begin(r, kind, "ready", IF kind = "logout" THEN t ELSE NoToken)
    BY <1>6 DEF Authenticate
  <2>2. (IF kind = "logout" THEN t ELSE NoToken) \in Tokens \cup {NoToken}
    BY <1>1 DEF TypeOK
  <2>3. kind \in Kinds /\ "ready" \in Phases \ Past /\ req[r] = Idle
    BY <1>3, <1>6 DEF Kinds, Phases, Past, Authenticate
  <2>4. Others(r) /\ Going(r)
    BY <1>1, <2>1, <2>2, <2>3, Begun
  <2> QED  BY <1>2, <2>4, StillStep
<1>7. CASE Present(r)
  <2>1. PICK t \in session : Begin(r, "refresh", "user", t)
    BY <1>7 DEF Present
  <2>2. t \in Tokens \cup {NoToken} /\ "refresh" \in Kinds /\ "user" \in Phases \ Past
    BY <1>1 DEF TypeOK, Kinds, Phases, Past
  <2>3. Others(r) /\ Going(r)
    BY <1>1, <1>3, <1>7, <2>1, <2>2, Begun DEF Present
  <2> QED  BY <1>2, <2>3, StillStep
<1>8. CASE FindUser(r)
  <2> DEFINE phase == IF entry = NoEntry THEN "filling" ELSE "ready"
             found == IF entry = NoEntry THEN version ELSE entry
             q == [req[r] EXCEPT !.pc = phase, !.copy = found]
  <2>1. phase \in Phases /\ phase \notin Past /\ found \in {0} \cup Versions
    BY <1>1 DEF Phases, Past, TypeOK
  <2>2. req' = [req EXCEPT ![r] = q]
    BY <1>8 DEF FindUser
  <2> HIDE DEF phase, found
  <2>3. /\ q \in Request /\ q.kind = req[r].kind /\ q.tok = req[r].tok
        /\ q.crossed = req[r].crossed /\ q.pc = phase
    BY <1>1, <2>1, Fields DEF Request
  <2> HIDE DEF q
  <2>4. Others(r) /\ Going(r)
    BY <1>1, <2>1, <2>2, <2>3, Replaced DEF Going
  <2> QED  BY <1>2, <2>4, StillStep
<1>9. CASE FillEntry(r)
  <2>1. "ready" \in Phases /\ "ready" \notin Past
    BY DEF Phases, Past
  <2>2. Others(r) /\ Going(r)
    BY <1>1, <1>9, <2>1, Left DEF FillEntry
  <2> QED  BY <1>2, <2>2, StillStep
<1> QED  BY <1>4, <1>5, <1>6, <1>7, <1>8, <1>9 DEF Admit

LEMMA ListContract == ASSUME RInv, NEW r \in Requests, GetActiveSessions(r) PROVE Faithful
<1> USE DEF redis, history
<1>1. TypeOK /\ Sane(r)
  BY DEF RInv, IInv, Base
<1>2. Still
  BY DEF GetActiveSessions, List, ReadSessions, RemoveStale, Still
<1>3. req[r].kind = "list"
  <2>1. req[r].pc \in {"ready", "stale", "committing"}
    BY DEF GetActiveSessions, List, ReadSessions, RemoveStale, At
  <2> QED  BY <1>1, <2>1, Fields DEF Sane, Course, Kinds, GetActiveSessions,
                   List, ReadSessions, RemoveStale, At
<1>4. CASE Finish(r)
  BY <1>1, <1>2, <1>4, Done, StillStep
<1>5. CASE ~Finish(r)
  <2>1. PICK phase \in {"stale", "committing"}, jtis \in SUBSET Tokens :
          req' = [req EXCEPT ![r].pc = phase, ![r].jtis = jtis]
    <3>1. index \in SUBSET Tokens /\ (req[r].jtis \ session) \in SUBSET Tokens
      BY <1>1, Fields DEF TypeOK
    <3> QED  BY <1>5, <3>1 DEF GetActiveSessions, List, ReadSessions, RemoveStale
  <2> DEFINE q == [req[r] EXCEPT !.pc = phase, !.jtis = jtis]
  <2>2. q \in Request /\ q.kind = "list"
    BY <1>1, <1>3, Fields DEF Request, Phases
  <2>3. req' = [req EXCEPT ![r] = q]
    BY <2>1
  <2> HIDE DEF q
  <2>4. Others(r) /\ Going(r)
    BY <1>1, <2>2, <2>3, Replaced DEF Going
  <2> QED  BY <1>2, <2>4, StillStep
<1> QED  BY <1>4, <1>5

\* A request that gives up, waits for its commit, or has chosen what to revoke.
LEMMA QuietContract ==
  ASSUME RInv, NEW r \in Requests,
         GiveUp(r) \/ SaveChange(r) \/ Deliver(r) \/ LookupSession(r) \/ SelectSession(r)
          \/ MintIndex(r)
  PROVE  Faithful
<1> USE DEF redis, history
<1>1. TypeOK /\ Sane(r)
  BY DEF RInv, IInv, Base
<1>2. CASE GiveUp(r)
  BY <1>1, <1>2, Done, StillStep DEF GiveUp, Still
<1>3. CASE SaveChange(r)
  <2>1. "committing" \in Phases /\ "committing" \notin Past
    BY DEF Phases, Past
  <2> QED  BY <1>1, <1>3, <2>1, Left, StillStep DEF SaveChange, Still
<1>4. CASE Deliver(r)
  <2>1. PICK v \in pending :
          req' = [req EXCEPT ![r].kind = "handler", ![r].pc = "smembers", ![r].copy = v]
    BY <1>4 DEF Deliver
  <2> DEFINE q == [req[r] EXCEPT !.kind = "handler", !.pc = "smembers", !.copy = v]
  <2>2. q \in Request /\ q.kind = "handler"
    BY <1>1, Fields DEF Request, Kinds, Phases, TypeOK
  <2>3. req' = [req EXCEPT ![r] = q]
    BY <2>1
  <2> HIDE DEF q
  <2>4. Others(r) /\ Going(r)
    BY <1>1, <2>2, <2>3, Replaced DEF Going
  <2> QED  BY <1>4, <2>4, StillStep DEF Deliver, Still
<1>5. CASE LookupSession(r)
  <2> DEFINE phase == IF req[r].tok \in session THEN "delKey" ELSE "smembers"
  <2>1. phase \in Phases /\ phase \notin Past
    BY DEF Phases, Past
  <2>2. Goto(r, phase)
    BY <1>5 DEF LookupSession
  <2> HIDE DEF phase
  <2> QED  BY <1>1, <1>5, <2>1, <2>2, Left, StillStep DEF LookupSession, Still
<1>6. CASE SelectSession(r)
  <2>1. PICK t \in session : req' = [req EXCEPT ![r].pc = "delKey", ![r].tok = t]
    BY <1>6 DEF SelectSession
  <2> DEFINE q == [req[r] EXCEPT !.pc = "delKey", !.tok = t]
  <2>2. q \in Request /\ q.kind = "revoke"
    BY <1>1, <1>6, Fields DEF Request, Phases, TypeOK, SelectSession, At
  <2>3. req' = [req EXCEPT ![r] = q]
    BY <2>1
  <2> HIDE DEF q
  <2>4. Others(r) /\ Going(r)
    BY <1>1, <2>2, <2>3, Replaced DEF Going
  <2> QED  BY <1>6, <2>4, StillStep DEF SelectSession, Still
<1>7. CASE MintIndex(r)
  <2>1. "expire" \in Phases /\ req[r].pc \in Past
    BY <1>7 DEF Phases, Past, MintIndex
  <2>2. Others(r) /\ Going(r) /\ req'[r].new = req[r].new
    BY <1>1, <1>7, <2>1, Left, Gone DEF MintIndex
  <2> QED  BY <1>7, <2>2, StillStep DEF MintIndex, Still, Write, FirstWrite
<1> QED  BY <1>2, <1>3, <1>4, <1>5, <1>6, <1>7

-----------------------------------------------------------------------------
(* Sessions close *)

\* Everything but the keys stands still.
LEMMA CloseStep ==
  ASSUME RInv, Rotations', NEW t, session' = session \ {t},
         UNCHANGED <<version, blacklist, fresh, token, pending, condemned, swept, ended>>
  PROVE  Faithful
<1>1. blacklist' \subseteq fresh' /\ Accepted' = Accepted
  BY DEF RInv, Accepted
<1>2. CASE t \in session
  <2>1. t \in Tokens
    BY <1>2 DEF RInv, IInv, Base, TypeOK
  <2>2. Contract!Close(t)
    BY <1>1, <1>2 DEF Contract!Close
  <2> QED  BY <1>1, <2>1, <2>2 DEF Faithful, Contract!Next
<1>3. CASE t \notin session
  <2>1. session' = session
    BY <1>3
  <2> QED  BY <1>1, <2>1 DEF Faithful, Contract!vars
<1> QED  BY <1>2, <1>3

LEMMA DeleteKeyContract == ASSUME RInv, NEW r \in Requests, DeleteKey(r) PROVE Faithful
<1>1. TypeOK /\ "srem" \in Phases
  BY DEF RInv, IInv, Base, Phases
<1>2. /\ session' = session \ {Revoked(r)} /\ Goto(r, "srem")
      /\ UNCHANGED <<version, blacklist, fresh, token, pending, condemned, swept, ended>>
  BY DEF DeleteKey, history
<1>3. Onward
  BY <1>2 DEF Onward, Minted
<1>4. req[r].kind = "refresh" => req[r].tok \notin session'
  BY <1>2 DEF Revoked
<1>5. Rotations'
  BY <1>1, <1>2, <1>3, <1>4, Left, GoingOn
<1> QED  BY <1>2, <1>5, CloseStep

LEMMA DeleteSomeKeyContract == ASSUME RInv, NEW r \in Requests, DeleteSomeKey(r) PROVE Faithful
<1>1. TypeOK /\ req[r].pc = "delKeys"
  BY DEF RInv, IInv, Base, DeleteSomeKey
<1>2. PICK t \in req[r].jtis :
        /\ session' = session \ {t}
        /\ req' = [req EXCEPT ![r].jtis = @ \ {t}]
  BY DEF DeleteSomeKey
<1>3. UNCHANGED <<version, blacklist, fresh, token, pending, condemned, swept, ended>>
  BY DEF DeleteSomeKey, history
<1>4. Others(r) /\ Going(r)
  <2> DEFINE q == [req[r] EXCEPT !.jtis = req[r].jtis \ {t}]
  <2>1. /\ q \in Request /\ q.pc = req[r].pc /\ q.kind = req[r].kind
        /\ q.tok = req[r].tok /\ q.crossed = req[r].crossed
    BY <1>1, Fields DEF Request
  <2>2. req' = [req EXCEPT ![r] = q]
    BY <1>2
  <2> HIDE DEF q
  <2> QED  BY <1>1, <2>1, <2>2, Replaced DEF Going
<1>5. Onward
  BY <1>2, <1>3 DEF Onward, Minted
<1> QED  BY <1>2, <1>3, <1>4, <1>5, GoingOn, CloseStep

-----------------------------------------------------------------------------
(* Revocations end *)

\* Keys, tokens and versions stand still; what is settled has nothing left.
LEMMA RevokeStep ==
  ASSUME RInv, Rotations', pending' \subseteq pending, NEW T \in SUBSET session,
          swept' = swept \cup T,
         \A v \in pending \ pending' : condemned[v] \cap session \subseteq swept,
         UNCHANGED <<version, session, blacklist, fresh, token, condemned, ended>>
  PROVE  Faithful
<1>1. blacklist' \subseteq fresh' /\ Accepted' = Accepted
  BY DEF RInv, Accepted
<1>2. Contract!Revoke
  BY <1>1 DEF Contract!Revoke
<1> QED  BY <1>1, <1>2 DEF Faithful, Contract!Next

LEMMA SettledContract ==
  ASSUME RInv, NEW r \in Requests, Finish(r), pending' = Settled(r),
         req[r].kind = "handler" => condemned[req[r].copy] \cap session \subseteq swept,
         NEW T \in SUBSET session, swept' = swept \cup T,
         UNCHANGED <<version, session, blacklist, fresh, token, condemned, ended>>
  PROVE  Faithful
<1>1. TypeOK
  BY DEF RInv, IInv, Base
<1>2. Onward
  BY DEF Onward, Minted
<1>3. Rotations'
  BY <1>1, <1>2, Done, GoingOn
<1>4. /\ pending' \subseteq pending
      /\ \A v \in pending \ pending' : condemned[v] \cap session \subseteq swept
  BY DEF Settled
<1> QED  BY <1>3, <1>4, RevokeStep

LEMMA RevokeAllContract == ASSUME RInv, NEW r \in Requests, RevokeAllSessions(r) PROVE Faithful
<1> USE DEF redis, history
<1>1. TypeOK /\ Sane(r) /\ IInv
  BY DEF RInv, IInv, Base
<1>2. CASE ReadIndex(r)
  <2>1. UNCHANGED <<version, session, blacklist, fresh, token, condemned, swept, ended>>
    BY <1>2 DEF ReadIndex
  <2>2. CASE index = {}
    <3>1. Finish(r) /\ pending' = Settled(r)
      BY <1>2, <2>2 DEF ReadIndex
    <3>2. req[r].kind = "handler" => condemned[req[r].copy] \cap session \subseteq swept
      BY <1>1, <2>2, Delivered DEF IInv, Condemning
    <3>3. {} \in SUBSET session /\ swept' = swept \cup {}
      BY <2>1
    <3> QED  BY <2>1, <3>1, <3>2, <3>3, SettledContract
  <2>3. CASE index # {}
    <3>1. req' = [req EXCEPT ![r].pc = "delKeys", ![r].jtis = index] /\ UNCHANGED pending
      BY <1>2, <2>3 DEF ReadIndex
    <3> DEFINE q == [req[r] EXCEPT !.pc = "delKeys", !.jtis = index]
    <3>2. /\ q \in Request /\ q.pc = "delKeys" /\ q.kind = req[r].kind
          /\ q.tok = req[r].tok /\ q.crossed = req[r].crossed
      BY <1>1, Fields DEF Request, Phases, TypeOK
    <3>3. req' = [req EXCEPT ![r] = q]
      BY <3>1
    <3> HIDE DEF q
    <3>4. Others(r) /\ Going(r)
      BY <1>1, <3>2, <3>3, Replaced DEF Going, Past
    <3> QED  BY <2>1, <3>1, <3>4, StillStep DEF Still
  <2> QED  BY <2>2, <2>3
<1>3. CASE DeleteIndex(r)
  <2>1. req[r].pc = "delKeys" /\ req[r].jtis = {}
    BY <1>3 DEF DeleteIndex, KeysDeleted
  <2>2. /\ swept' = swept \cup (index \cap session) /\ Finish(r) /\ pending' = Settled(r)
        /\ UNCHANGED <<version, session, blacklist, fresh, token, condemned, ended>>
    BY <1>3, <2>1 DEF DeleteIndex
  <2>3. req[r].kind = "handler" => condemned[req[r].copy] \cap session \subseteq swept
    BY <1>1, <2>1 DEF IInv, Condemning, At
  <2>4. (index \cap session) \in SUBSET session
    OBVIOUS
  <2> QED  BY <2>2, <2>3, <2>4, SettledContract
<1>4. CASE IndexGone(r)
  <2>1. req[r].pc = "delKeys" /\ req[r].jtis = {} /\ Finish(r) /\ pending' = Settled(r)
    BY <1>4 DEF IndexGone
  <2>2. UNCHANGED <<version, session, blacklist, fresh, token, condemned, swept, ended>>
    BY <1>4 DEF IndexGone
  <2>3. req[r].kind = "handler" => condemned[req[r].copy] \cap session \subseteq swept
    BY <1>1, <2>1 DEF IInv, Condemning, At
  <2>4. {} \in SUBSET session /\ swept' = swept \cup {}
    BY <2>2
  <2> QED  BY <2>1, <2>2, <2>3, <2>4, SettledContract
<1> QED  BY <1>2, <1>3, <1>4, DeleteSomeKeyContract, QuietContract DEF RevokeAllSessions

-----------------------------------------------------------------------------
(* Sessions open *)

LEMMA MintContract == ASSUME RInv, NEW r \in Requests, Mint(r) PROVE Faithful
<1> USE DEF history
<1>1. TypeOK /\ Sane(r) /\ Stored
  BY DEF RInv, IInv, Base
<1>2. PICK t \in Tokens :
        /\ ~token[t].minted
        /\ token' = [token EXCEPT ![t].minted = TRUE]
        /\ req' = [req EXCEPT ![r].new = t, ![r].pc = "sadd"]
  BY DEF Mint
<1>3. /\ At(r, "signIn", "ready") \/ At(r, "refresh", "mint")
      /\ UNCHANGED <<version, fresh, pending, condemned, swept, ended>>
  BY DEF Mint
<1>4. /\ Others(r) /\ req'[r].new = t /\ req'[r].kind = req[r].kind
      /\ req'[r].tok = req[r].tok /\ req'[r].crossed = req[r].crossed
  <2> DEFINE q == [req[r] EXCEPT !.new = t, !.pc = "sadd"]
  <2>1. /\ q \in Request /\ q.new = t /\ q.kind = req[r].kind
        /\ q.tok = req[r].tok /\ q.crossed = req[r].crossed
    BY <1>1, Fields DEF Request, Phases
  <2>2. req' = [req EXCEPT ![r] = q]
    BY <1>2
  <2> HIDE DEF q
  <2> QED  BY <1>1, <2>1, <2>2, Replaced
<1>5. session' = session \cup {t} /\ UNCHANGED blacklist
  BY <1>4 DEF Mint, Write, FirstWrite
<1>6. /\ \A u \in Tokens \ {t} : token'[u] = token[u]
      /\ ~Minted(t) /\ ~Issued(t) /\ Minted(t)'
  <2>1. \A u \in Tokens \ {t} : token'[u] = token[u]
    BY <1>1, <1>2 DEF TypeOK
  <2>2. token[t] \in Token
    BY <1>1 DEF TypeOK
  <2>3. token'[t].minted
    BY <1>1, <1>2, <2>2 DEF TypeOK, Token
  <2> QED  BY <1>1, <1>2, <2>1, <2>3 DEF Minted, Stored
<1>7. Onward
  BY <1>3, <1>5, <1>6 DEF Onward, Minted, Issued
<1>8. Going(r)
  BY <1>3, <1>4 DEF Going, At, Past
<1>9. Contract!Open(t)
  BY <1>2, <1>3, <1>5 DEF Contract!Open, Accepted
<1> QED  BY <1>3, <1>4, <1>5, <1>7, <1>8, <1>9, GoingOn DEF Faithful, RInv, Contract!Next

\* The pair that is handed out, and what the version of its session says of it.
LEMMA AnswerContract == ASSUME RInv, NEW r \in Requests, Answer(r) PROVE Faithful
<1> DEFINE old == req[r].tok
           t == req[r].new
           m == [minted |-> TRUE, ver |-> req[r].copy,
                 root |-> IF old = NoToken THEN req[r].copy ELSE token[old].root,
                 crossed |-> old # NoToken /\ (token[old].crossed \/ req[r].crossed)]
<1> USE DEF redis, history
<1>1. TypeOK /\ Sane(r) /\ Stored /\ Creating /\ req[r].pc = "expire"
  BY DEF RInv, IInv, Base, Answer
<1>2. /\ token' = [token EXCEPT ![t] = m] /\ fresh' = fresh \cup {t} /\ Finish(r)
      /\ UNCHANGED <<version, session, blacklist, pending, condemned, swept, ended>>
  BY DEF Answer
<1>3. t \in Tokens /\ Minted(t) /\ ~Issued(t) /\ req[r].kind \in {"signIn", "refresh"}
  BY <1>1, Fields DEF Creating, Minting, Sane, Course, Kinds
<1>4. req[r].copy \in 1 .. version
  BY <1>1, <1>3 DEF Sane, Copied, Emptying
<1>5. t \notin fresh /\ t \notin blacklist
  BY <1>1, <1>3 DEF RInv, Stored
<1>6. /\ token[t].minted /\ token[t].ver = 0
      /\ Accepted' = Accepted \cup {t} /\ blacklist' \subseteq fresh'
  BY <1>2, <1>3, <1>5 DEF Accepted, Minted, Issued, RInv
<1>7. Rotations'
  <2>1. \A u \in Tokens \ {t} : token'[u] = token[u]
    BY <1>1, <1>2 DEF TypeOK
  <2>2. token'[t].minted
    BY <1>1, <1>2, <1>3 DEF TypeOK
  <2>3. Onward
    BY <1>2, <1>3, <2>1, <2>2 DEF Onward, Minted, Issued
  <2> QED  BY <1>1, <1>2, <2>3, Done, GoingOn
<1>8. CASE old = NoToken
  <2>1. m = [minted |-> TRUE, ver |-> req[r].copy, root |-> req[r].copy, crossed |-> FALSE]
    BY <1>8
  <2> HIDE DEF m, old, t
  <2>2. Contract!Issue(t, m)
    BY <1>2, <1>6 DEF Contract!Issue, Contract!Issued
  <2>3. Contract!SignIn(t)
    BY <1>4, <2>1, <2>2 DEF Contract!SignIn
  <2> QED  BY <1>3, <1>6, <1>7, <2>3 DEF Faithful, Contract!Next
<1>9. CASE old # NoToken
  <2>1. /\ req[r].kind = "refresh" /\ old \in Tokens /\ Issued(old)
        /\ ~req[r].crossed => token[old].ver = version
    BY <1>1, <1>3, <1>9 DEF Sane, Rotating
  <2>2. old \notin session
    BY <1>1, <2>1 DEF RInv, Rotations, Replacing, Past
  <2>3. req[r].crossed => token[old].ver < version
    BY <2>1 DEF RInv, Rotations, Crossing
  <2>4. version \in Nat /\ req[r].crossed \in BOOLEAN
    BY <1>1, Fields, VersionAssumption DEF TypeOK, Versions
  <2>5. req[r].crossed = (token[old].ver < version)
    BY <2>1, <2>3, <2>4
  <2>6. m = [minted |-> TRUE, ver |-> req[r].copy, root |-> token[old].root,
             crossed |-> token[old].crossed \/ token[old].ver < version]
    BY <1>9, <2>5
  <2> HIDE DEF m, old, t
  <2>7. Contract!Issue(t, m)
    BY <1>2, <1>6 DEF Contract!Issue, Contract!Issued
  <2>8. Contract!Rotate(t, old)
    BY <1>4, <2>1, <2>2, <2>6, <2>7 DEF Contract!Rotate, Contract!Issued, Issued
  <2> QED  BY <1>3, <1>6, <1>7, <2>1, <2>8 DEF Faithful, Contract!Next
<1> QED  BY <1>8, <1>9

-----------------------------------------------------------------------------
(* Logouts, changes and time *)

LEMMA LogoutContract == ASSUME RInv, NEW r \in Requests, Logout(r) PROVE Faithful
<1> USE DEF history
<1>1. TypeOK /\ Sane(r) /\ Stored /\ req[r].kind = "logout"
  BY DEF RInv, IInv, Base, Logout, At
<1>2. PICK t \in Tokens : req' = [req EXCEPT ![r].pc = "delKey", ![r].new = t]
  BY DEF Logout
<1>3. /\ blacklist' = blacklist \cup ({req[r].tok} \cap fresh)
      /\ UNCHANGED <<version, session, fresh, token, pending, condemned, swept, ended>>
  BY DEF Logout
<1>4. Others(r) /\ Going(r)
  <2> DEFINE q == [req[r] EXCEPT !.pc = "delKey", !.new = t]
  <2>1. q \in Request /\ q.kind = "logout"
    BY <1>1, Fields DEF Request, Phases
  <2>2. req' = [req EXCEPT ![r] = q]
    BY <1>2
  <2> HIDE DEF q
  <2> QED  BY <1>1, <2>1, <2>2, Replaced DEF Going
<1>5. Onward
  BY <1>3 DEF Onward, Minted
<1>6. Rotations' /\ blacklist' \subseteq fresh'
  BY <1>3, <1>4, <1>5, GoingOn DEF RInv
<1>7. CASE req[r].tok \in Accepted
  <2>1. Accepted' = Accepted \ {req[r].tok} /\ req[r].tok \in Tokens
    BY <1>1, <1>3, <1>7 DEF Accepted, TypeOK
  <2>2. Contract!Refuse(req[r].tok)
    BY <1>3, <1>7, <2>1 DEF Contract!Refuse
  <2> QED  BY <1>6, <2>1, <2>2 DEF Faithful, Contract!Next
<1>8. CASE req[r].tok \notin Accepted
  <2>1. Accepted' = Accepted
    BY <1>3, <1>8 DEF Accepted
  <2> QED  BY <1>3, <1>6, <2>1 DEF Faithful, Contract!vars
<1> QED  BY <1>7, <1>8

LEMMA RemoveEntryContract == ASSUME RInv, NEW r \in Requests, RemoveEntry(r) PROVE Faithful
<1>1. TypeOK /\ Sane(r) /\ Stored /\ req[r].pc = "srem"
  BY DEF RInv, IInv, Base, RemoveEntry
<1>2. UNCHANGED <<version, session, blacklist, fresh, token, pending, condemned, swept>>
  BY DEF RemoveEntry
<1>3. Others(r) /\ Going(r)
  <2>1. CASE req[r].kind = "refresh"
    BY <1>1, <2>1, Left DEF RemoveEntry, Phases, Past
  <2>2. CASE req[r].kind # "refresh"
    BY <1>1, <2>2, Done DEF RemoveEntry
  <2> QED  BY <2>1, <2>2
<1>4. CASE req[r].kind = "logout" /\ req[r].tok \in fresh
  <2>1. req[r].tok \in Tokens /\ Issued(req[r].tok) /\ req[r].tok \in blacklist
    BY <1>1, <1>4 DEF Sane, LoggingOut, Ending
  <2>2. ended' = ended \cup {req[r].tok} /\ Accepted' = Accepted /\ req[r].tok \notin Accepted
    BY <1>2, <1>4, <2>1 DEF RemoveEntry, Accepted
  <2>3. Contract!EndLogout(req[r].tok)
    BY <1>2, <2>1, <2>2 DEF Contract!EndLogout, Contract!Issued, Issued
  <2>4. Onward
    BY <1>2 DEF Onward, Minted
  <2> QED  BY <1>2, <1>3, <2>1, <2>3, <2>4, GoingOn DEF Faithful, Contract!Next, RInv
<1>5. CASE ~(req[r].kind = "logout" /\ req[r].tok \in fresh)
  <2>1. ended' = ended
    BY <1>5 DEF RemoveEntry
  <2> QED  BY <1>2, <1>3, <2>1, StillStep DEF Still
<1> QED  BY <1>4, <1>5

\* Every rotation is crossed, every session that was handed out is condemned.
LEMMA CommitContract == ASSUME RInv, NEW r \in Requests, CommitChange(r) PROVE Faithful
<1> USE DEF redis
<1>1. TypeOK /\ Committing /\ IInv /\ req[r].kind = "change" /\ req[r].pc = "committing"
  BY DEF RInv, IInv, Base, CommitChange, At
<1>2. /\ version' = version + 1 /\ pending' = pending \cup {version + 1}
      /\ condemned' = [condemned EXCEPT ![version + 1] = session \cap index]
      /\ UNCHANGED <<session, blacklist, fresh, token, swept, ended>>
  BY DEF CommitChange
<1>3. version \in Nat /\ version < LastVersion
  BY <1>1, VersionAssumption DEF Committing, At, TypeOK, Versions
<1>4. ASSUME NEW s \in Requests PROVE Replacing(s)' /\ Crossing(s)'
  <2>1. CASE s = r
    <3>1. req'[r] = [req[r] EXCEPT !.pc = "smembers"]
      BY DEF CommitChange
    <3>2. req'[r].kind = "change"
      BY <1>1, <3>1, Fields DEF Request
    <3> QED  BY <2>1, <3>2 DEF Replacing, Crossing
  <2>2. CASE s # r
    <3>1. req'[s] = [req[s] EXCEPT !.crossed = (req[s].kind = "refresh")]
      BY <2>2 DEF CommitChange
    <3>2. req'[s].kind = req[s].kind /\ req'[s].pc = req[s].pc /\ req'[s].tok = req[s].tok
      BY <1>1, <3>1, Fields DEF Request
    <3>3. Replacing(s)'
      BY <1>2, <3>2 DEF RInv, Rotations, Replacing
    <3>4. Crossing(s)'
      <4>1. SUFFICES ASSUME req[s].kind = "refresh" PROVE token[req[s].tok].ver < version + 1
        BY <1>2, <3>2 DEF Crossing
      <4>2. Sane(s) /\ Crossing(s)
        BY DEF RInv, IInv, Base, Rotations
      <4>3. req[s].tok \in Tokens /\ (~req[s].crossed => token[req[s].tok].ver = version)
        BY <4>1, <4>2 DEF Sane, Rotating
      <4>4. req[s].crossed => token[req[s].tok].ver < version
        BY <4>1, <4>2 DEF Crossing
      <4>5. token[req[s].tok].ver \in Nat
        BY <1>1, <4>3, VersionAssumption DEF TypeOK, Token, Versions
      <4> QED  BY <1>3, <4>3, <4>4, <4>5
    <3> QED  BY <3>3, <3>4
  <2> QED  BY <2>1, <2>2
<1>5. {t \in session : Issued(t)} \subseteq (session \cap index) \cup swept
  BY <1>1 DEF IInv, Listed
<1>6. (session \cap index) \in SUBSET session
  OBVIOUS
<1>7. Accepted' = Accepted
  BY <1>2 DEF Accepted
<1>8. Contract!ChangePassword
  BY <1>2, <1>3, <1>5, <1>6, <1>7 DEF Contract!ChangePassword, Contract!Issued, Issued
<1> QED  BY <1>2, <1>4, <1>8 DEF Faithful, Rotations, RInv, Contract!Next

\* No request moves.
LEMMA Waiting == ASSUME RInv, UNCHANGED req, Onward PROVE Rotations'
<1> SUFFICES ASSUME NEW s \in Requests PROVE Replacing(s)' /\ Crossing(s)'
  BY DEF Rotations
<1>1. Replacing(s) /\ Crossing(s) /\ Sane(s)
  BY DEF RInv, IInv, Base, Rotations
<1>2. req[s].kind = "refresh" =>
        /\ req[s].tok \in Tokens /\ Minted(req[s].tok)
        /\ token'[req[s].tok] = token[req[s].tok]
  BY <1>1 DEF RInv, IInv, Base, Stored, Sane, Rotating, Onward
<1> QED  BY <1>1, <1>2 DEF Replacing, Crossing, Onward

LEMMA ExpiryContract == ASSUME RInv, Expiry PROVE Faithful
<1> USE DEF redis, history
<1>1. TypeOK
  BY DEF RInv, IInv, Base
<1>2. CASE EntryExpires
  <2>1. Still /\ UNCHANGED req
    BY <1>2 DEF EntryExpires, Still
  <2>2. Onward
    BY <2>1 DEF Still, Onward, Minted
  <2> QED  BY <2>1, <2>2, Waiting DEF Faithful, Still, Contract!vars, Accepted, RInv
<1>3. CASE IndexExpires
  <2>1. /\ swept' = swept \cup (session \cap index)
        /\ UNCHANGED <<version, session, blacklist, fresh, token, pending, req, condemned, ended>>
    BY <1>3 DEF IndexExpires
  <2>2. Onward
    BY <2>1 DEF Onward, Minted
  <2>3. (session \cap index) \in SUBSET session /\ pending \ pending' = {}
        /\ pending' \subseteq pending
    BY <2>1
  <2>4. Rotations'
    BY <2>1, <2>2, Waiting
  <2> QED  BY <2>1, <2>3, <2>4, RevokeStep
<1>4. ASSUME NEW t \in Tokens, AccessExpires(t) PROVE Faithful
  <2>1. /\ fresh' = fresh \ {t} /\ blacklist' = blacklist \ {t} /\ ended' = ended \ {t}
        /\ UNCHANGED <<version, session, token, pending, req, condemned, swept>>
    BY <1>4 DEF AccessExpires
  <2>2. Onward
    BY <2>1 DEF Onward, Minted
  <2>3. Accepted' = Accepted \ {t} /\ blacklist' \subseteq fresh'
    BY <2>1 DEF Accepted, RInv
  <2>4. Contract!Expire(t)
    BY <2>1, <2>3 DEF Contract!Expire
  <2> QED  BY <2>1, <2>2, <2>3, <2>4, Waiting DEF Faithful, Contract!Next
<1>5. ASSUME NEW t \in Tokens, SessionExpires(t) PROVE Faithful
  <2>1. /\ session' = session \ {t}
        /\ UNCHANGED <<version, blacklist, fresh, token, pending, req, condemned, swept, ended>>
    BY <1>5 DEF SessionExpires
  <2>2. Onward
    BY <2>1 DEF Onward, Minted
  <2> QED  BY <2>1, <2>2, Waiting, CloseStep
<1> QED  BY <1>2, <1>3, <1>4, <1>5 DEF Expiry

-----------------------------------------------------------------------------

LEMMA InitRInv == Init => RInv
<1> SUFFICES ASSUME Init PROVE RInv
  OBVIOUS
<1>1. \A r \in Requests : req[r].kind = "none"
  BY DEF Init, Idle
<1> QED  BY <1>1, InitIInv DEF RInv, Rotations, Replacing, Crossing, Init

LEMMA NextContract == ASSUME RInv, [Next]_vars PROVE Faithful
<1>1. ASSUME NEW r \in Requests, CreateSession(r) PROVE Faithful
  BY <1>1, MintContract, AnswerContract, QuietContract DEF CreateSession
<1>2. ASSUME NEW r \in Requests, RevokeSession(r) PROVE Faithful
  BY <1>2, LogoutContract, DeleteKeyContract, RemoveEntryContract, QuietContract DEF RevokeSession
<1>3. ASSUME NEW r \in Requests, ChangePassword(r) PROVE Faithful
  BY <1>3, CommitContract, QuietContract DEF ChangePassword
<1>4. CASE UNCHANGED vars
  <2>1. Still /\ UNCHANGED req
    BY <1>4 DEF vars, redis, history, Still
  <2>2. Onward
    BY <2>1 DEF Still, Onward, Minted
  <2> QED  BY <2>1, <2>2, Waiting DEF Faithful, Still, Contract!vars, Accepted, RInv
<1>5. ASSUME NEW r \in Requests,
             Admit(r) \/ RevokeAllSessions(r) \/ GetActiveSessions(r) \/ GiveUp(r)
      PROVE  Faithful
  BY <1>5, AdmitContract, RevokeAllContract, ListContract, QuietContract
<1> QED  BY <1>1, <1>2, <1>3, <1>4, <1>5, ExpiryContract DEF Next

LEMMA NextRInv == RInv /\ [Next]_vars => RInv'
BY NextIInv, NextContract DEF RInv, Faithful

\* Requests, worker and time, command by command, implement the contract of the
\* sessions, for any number of tokens, requests and password changes.
THEOREM SessionsImplementContract == Spec => ImplementsContract
<1>1. Init => Contract!Init
  BY DEF Init, Contract!Init, Accepted, Versions
<1>2. RInv /\ [Next]_vars => [Contract!Next]_(Contract!vars)
  BY NextContract DEF Faithful
<1> QED  BY <1>1, <1>2, InitRInv, NextRInv, PTL DEF Spec, ImplementsContract, Contract!Spec
=============================================================================
