------------------------------ MODULE Sessions ------------------------------
(***************************************************************************)
(* The sessions of one user.  A session is a Redis key named after the jti *)
(* of a refresh token, and an entry in the user's set of sessions; tokens  *)
(* carry the credential version, which changing the password increments.   *)
(* Sign-in, rotation, logout, revocation, listing and password change are  *)
(* sequences of single Redis commands and database reads that interleave.  *)
(*                                                                         *)
(* A token stands for the pair of access and refresh token minted together.*)
(***************************************************************************)
EXTENDS Naturals

CONSTANTS
  Tokens,       \* token pairs, each minted at most once (randomUUID)
  Requests,     \* concurrent requests and deliveries of the worker
  NoToken,
  NoEntry,      \* no cached user
  LastVersion   \* bound of the credential version

ASSUME NoTokenAssumption == NoToken \notin Tokens
ASSUME VersionAssumption == LastVersion \in Nat \ {0} /\ NoEntry \notin Nat

VARIABLES
  version,    \* users.credential_version
  entry,      \* the credential version of the cached user
  session,    \* jtis with a refresh token key
  index,      \* the user's set of sessions
  blacklist,  \* access tokens that were logged out
  fresh,      \* access tokens that have not expired
  token,      \* what was minted
  pending,    \* versions whose UserSessionsRevokeAllRequested is in the outbox
  req,        \* the requests
  condemned,  \* history: sessions that existed when a version was committed
  swept,      \* history: sessions dropped from the index with their key alive
  ended       \* history: access tokens whose logout has answered

redis == <<session, index, blacklist>>
history == <<condemned, swept, ended>>
vars == <<version, entry, redis, fresh, token, pending, req, history>>

Versions == 1 .. LastVersion

Kinds == {"none", "signIn", "refresh", "logout", "revoke", "list", "change", "handler"}

Phases == {"idle", "user", "filling", "ready", "delKey",
           "srem", "mint", "sadd", "expire", "stale", "committing", "smembers",
           "delKeys"}

\* ver is the version the tokens carry (0 until they are handed out), root the
\* version under which the user last signed in, crossed whether a password
\* change was committed during one of the rotations since.
Token == [minted : BOOLEAN, ver : {0} \cup Versions, root : {0} \cup Versions,
          crossed : BOOLEAN]

\* tok is the token presented, new the one being minted, copy the version of
\* the user found, jtis what SMEMBERS returned.
Request == [kind : Kinds, pc : Phases, tok : Tokens \cup {NoToken},
            new : Tokens \cup {NoToken}, copy : {0} \cup Versions,
            jtis : SUBSET Tokens, crossed : BOOLEAN]

TypeOK ==
  /\ version \in Versions /\ entry \in Versions \cup {NoEntry}
  /\ session \subseteq Tokens /\ index \subseteq Tokens
  /\ blacklist \subseteq Tokens /\ fresh \subseteq Tokens
  /\ token \in [Tokens -> Token]
  /\ pending \subseteq Versions
  /\ req \in [Requests -> Request]
  /\ condemned \in [Versions -> SUBSET Tokens]
  /\ swept \subseteq Tokens
  /\ ended \subseteq Tokens

Idle == [kind |-> "none", pc |-> "idle", tok |-> NoToken, new |-> NoToken,
         copy |-> 0, jtis |-> {}, crossed |-> FALSE]

Init ==
  /\ version = 1 /\ entry = NoEntry
  /\ session = {} /\ index = {} /\ blacklist = {} /\ fresh = {}
  /\ token = [t \in Tokens |->
                [minted |-> FALSE, ver |-> 0, root |-> 0, crossed |-> FALSE]]
  /\ pending = {}
  /\ req = [r \in Requests |-> Idle]
  /\ condemned = [v \in Versions |-> {}]
  /\ swept = {}
  /\ ended = {}

-----------------------------------------------------------------------------
At(r, kind, phase) == req[r].kind = kind /\ req[r].pc = phase
Goto(r, phase) == req' = [req EXCEPT ![r].pc = phase]
Finish(r) == req' = [req EXCEPT ![r] = Idle]
Begin(r, kind, phase, t) ==
  req' = [req EXCEPT ![r].kind = kind, ![r].pc = phase, ![r].tok = t]

Issued(t) == token[t].ver # 0

(* Authentication *)

\* LocalStrategy: findByEmail comes through the cache.
SignIn(r) ==
  /\ req[r].pc = "idle"
  /\ Begin(r, "signIn", "user", NoToken)
  /\ UNCHANGED <<version, entry, redis, fresh, token, pending, history>>

\* GoogleStrategy: an existing user is read by provider, past the cache.
GoogleSignIn(r) ==
  /\ req[r].pc = "idle"
  /\ req' = [req EXCEPT ![r].kind = "signIn", ![r].pc = "filling", ![r].copy = version]
  /\ UNCHANGED <<version, entry, redis, fresh, token, pending, history>>

\* Mutant: any version up to the stored one is accepted.
VersionMatches_Mutant(t) == token[t].ver \in 1 .. version

\* findCredentialVersionById reads the row, never the cache.
VersionMatches(t) == token[t].ver = version

\* JwtStrategy: an access token that is not blacklisted and of the stored
\* version.  The version only grows: what the second read lets through held at
\* the first one too.  (The cached user it then loads is left to SignIn.)
Authenticate(r) ==
  /\ req[r].pc = "idle"
  /\ \E kind \in {"logout", "revoke", "list", "change"}, t \in fresh \ blacklist :
       /\ VersionMatches(t)
       /\ Begin(r, kind, "ready", IF kind = "logout" THEN t ELSE NoToken)
  /\ UNCHANGED <<version, entry, redis, fresh, token, pending, history>>

\* JwtRefreshStrategy: the version, then the session, which never comes back
\* once it is gone; 401 otherwise.
Present(r) ==
  /\ req[r].pc = "idle"
  /\ \E t \in session : VersionMatches(t) /\ Begin(r, "refresh", "user", t)
  /\ UNCHANGED <<version, entry, redis, fresh, token, pending, history>>

\* CachedUserRepository.findById: the entry, or the row.
FindUser(r) ==
  /\ req[r].pc = "user"
  /\ req' = [req EXCEPT ![r].pc = IF entry = NoEntry THEN "filling" ELSE "ready",
                        ![r].copy = IF entry = NoEntry THEN version ELSE entry]
  /\ UNCHANGED <<version, entry, redis, fresh, token, pending, history>>

FillEntry(r) ==
  /\ req[r].pc = "filling"
  /\ entry' = req[r].copy
  /\ Goto(r, "ready")
  /\ UNCHANGED <<version, redis, fresh, token, pending, history>>

EntryExpires ==
  /\ entry # NoEntry /\ entry' = NoEntry
  /\ UNCHANGED <<version, redis, fresh, token, pending, req, history>>

-----------------------------------------------------------------------------
(* Minting: GenerateTokenUseCase and createSession, three commands *)

\* Mutant: the set first, the key afterwards.
FirstWrite_Mutant == "index"

\* The first key createSession writes.
FirstWrite == "session"

\* The key and the entry written by the first and the second command.
Write(r, first) ==
  IF (FirstWrite = "session") = first
  THEN session' = session \cup {req'[r].new} /\ UNCHANGED <<index, blacklist>>
  ELSE index' = index \cup {req'[r].new} /\ UNCHANGED <<session, blacklist>>

\* A sign-in mints once the credentials proved right, a rotation once the old
\* session is revoked.
Mint(r) ==
  /\ At(r, "signIn", "ready") \/ At(r, "refresh", "mint")
  /\ \E t \in Tokens :
       /\ ~token[t].minted
       /\ token' = [token EXCEPT ![t].minted = TRUE]
       /\ req' = [req EXCEPT ![r].new = t, ![r].pc = "sadd"]
  /\ Write(r, TRUE)
  /\ UNCHANGED <<version, entry, fresh, pending, history>>

MintIndex(r) ==
  /\ req[r].pc = "sadd"
  /\ Goto(r, "expire")
  /\ Write(r, FALSE)
  /\ UNCHANGED <<version, entry, fresh, token, pending, history>>

\* EXPIRE on the set, then the answer sets both cookies.
Answer(r) ==
  /\ req[r].pc = "expire"
  /\ LET old == req[r].tok
     IN token' = [token EXCEPT ![req[r].new] =
          [minted |-> TRUE, ver |-> req[r].copy,
           root |-> IF old = NoToken THEN req[r].copy ELSE token[old].root,
           crossed |-> old # NoToken /\ (token[old].crossed \/ req[r].crossed)]]
  /\ fresh' = fresh \cup {req[r].new}
  /\ Finish(r)
  /\ UNCHANGED <<version, entry, redis, pending, history>>

-----------------------------------------------------------------------------
(* Revoking one session: DEL and SREM are sent together, one after the other *)

\* Mutant: the old session is left to expire.
LookupSession_Mutant(r) ==
  /\ At(r, "refresh", "ready")
  /\ Goto(r, IF req[r].tok \in session THEN "mint" ELSE "smembers")
  /\ UNCHANGED <<version, entry, redis, fresh, token, pending, history>>

\* RefreshTokensUseCase: the session is looked up once more; without it every
\* session is revoked.
LookupSession(r) ==
  /\ At(r, "refresh", "ready")
  /\ Goto(r, IF req[r].tok \in session THEN "delKey" ELSE "smembers")
  /\ UNCHANGED <<version, entry, redis, fresh, token, pending, history>>

\* RevokeSessionUseCase: any session of the user, 404 when there is none.
SelectSession(r) ==
  /\ At(r, "revoke", "ready")
  /\ \E t \in session : req' = [req EXCEPT ![r].pc = "delKey", ![r].tok = t]
  /\ UNCHANGED <<version, entry, redis, fresh, token, pending, history>>

\* LogoutUseCase: the refresh cookie may be of another sign-in than the access
\* cookie; the access token is blacklisted first.
Logout(r) ==
  /\ At(r, "logout", "ready")
  /\ \E t \in Tokens :
       /\ Issued(t)
       /\ req' = [req EXCEPT ![r].pc = "delKey", ![r].new = t]
  /\ blacklist' = blacklist \cup ({req[r].tok} \cap fresh)
  /\ UNCHANGED <<version, entry, session, index, fresh, token, pending, history>>

\* The session the request revokes.
Revoked(r) == IF req[r].kind = "logout" THEN req[r].new ELSE req[r].tok

DeleteKey(r) ==
  /\ req[r].pc = "delKey"
  /\ session' = session \ {Revoked(r)}
  /\ Goto(r, "srem")
  /\ UNCHANGED <<version, entry, index, blacklist, fresh, token, pending, history>>

RemoveEntry(r) ==
  /\ req[r].pc = "srem"
  /\ index' = index \ {Revoked(r)}
  /\ IF req[r].kind = "refresh" THEN Goto(r, "mint") ELSE Finish(r)
  /\ ended' = IF req[r].kind = "logout" THEN ended \cup ({req[r].tok} \cap fresh)
              ELSE ended
  /\ UNCHANGED <<version, entry, session, blacklist, fresh, token, pending,
                 condemned, swept>>

-----------------------------------------------------------------------------
(* Revoking every session: revokeAllSessions *)

\* The outbox delivers UserSessionsRevokeAllRequested until a delivery completes.
Deliver(r) ==
  /\ req[r].pc = "idle" /\ pending # {}
  /\ \E v \in pending :
       req' = [req EXCEPT ![r].kind = "handler", ![r].pc = "smembers", ![r].copy = v]
  /\ UNCHANGED <<version, entry, redis, fresh, token, pending, history>>

\* What a completed delivery leaves in the outbox.
Settled(r) == IF req[r].kind = "handler" THEN pending \ {req[r].copy} ELSE pending

ReadIndex(r) ==
  /\ req[r].pc = "smembers"
  /\ IF index = {} THEN Finish(r) /\ pending' = Settled(r)
     ELSE /\ req' = [req EXCEPT ![r].pc = "delKeys", ![r].jtis = index]
          /\ UNCHANGED pending
  /\ UNCHANGED <<version, entry, redis, fresh, token, history>>

DeleteSomeKey(r) ==
  /\ req[r].pc = "delKeys"
  /\ \E t \in req[r].jtis :
       /\ session' = session \ {t}
       /\ req' = [req EXCEPT ![r].jtis = @ \ {t}]
  /\ UNCHANGED <<version, entry, index, blacklist, fresh, token, pending, history>>

\* Mutant: the set is deleted before the keys.
KeysDeleted_Mutant(r) == TRUE

\* Promise.all sends the DEL of the set after those of the keys.
KeysDeleted(r) == req[r].jtis = {}

DeleteIndex(r) ==
  /\ req[r].pc = "delKeys" /\ KeysDeleted(r) /\ index # {}
  /\ index' = {}
  /\ swept' = swept \cup ((index \ req[r].jtis) \cap session)
  /\ IF req[r].jtis = {} THEN Finish(r) /\ pending' = Settled(r)
     ELSE UNCHANGED <<req, pending>>
  /\ UNCHANGED <<version, entry, session, blacklist, fresh, token, condemned, ended>>

IndexGone(r) ==
  /\ req[r].pc = "delKeys" /\ req[r].jtis = {} /\ index = {}
  /\ Finish(r) /\ pending' = Settled(r)
  /\ UNCHANGED <<version, entry, redis, fresh, token, history>>

-----------------------------------------------------------------------------
(* Listing: SMEMBERS, MGET, and SREM of the jtis without a key *)

List(r) ==
  /\ At(r, "list", "ready")
  /\ IF index = {} THEN Finish(r)
     ELSE req' = [req EXCEPT ![r].pc = "stale", ![r].jtis = index]
  /\ UNCHANGED <<version, entry, redis, fresh, token, pending, history>>

ReadSessions(r) ==
  /\ req[r].pc = "stale"
  /\ IF req[r].jtis \subseteq session THEN Finish(r)
     ELSE req' = [req EXCEPT ![r].pc = "committing", ![r].jtis = @ \ session]
  /\ UNCHANGED <<version, entry, redis, fresh, token, pending, history>>

RemoveStale(r) ==
  /\ At(r, "list", "committing")
  /\ index' = index \ req[r].jtis
  /\ Finish(r)
  /\ UNCHANGED <<version, entry, session, blacklist, fresh, token, pending, history>>

-----------------------------------------------------------------------------
(* Changing the password, as far as sessions see it *)

Changing == \E q \in Requests : At(q, "change", "committing")

\* Under the row lock the save deletes the cached user before the commit.
SaveChange(r) ==
  /\ At(r, "change", "ready") /\ ~Changing /\ version < LastVersion
  /\ entry' = NoEntry
  /\ Goto(r, "committing")
  /\ UNCHANGED <<version, redis, fresh, token, pending, history>>

\* The commit stores the event with the version; revokeAllSessions follows.
CommitChange(r) ==
  /\ At(r, "change", "committing")
  /\ version' = version + 1
  /\ pending' = pending \cup {version + 1}
  /\ condemned' = [condemned EXCEPT ![version + 1] = session \cap index]
  /\ req' = [q \in Requests |->
       IF q = r THEN [req[q] EXCEPT !.pc = "smembers"]
       ELSE [req[q] EXCEPT !.crossed = (req[q].kind = "refresh")]]
  /\ UNCHANGED <<entry, redis, fresh, token, swept, ended>>

-----------------------------------------------------------------------------
(* Time and failures *)

\* Mutant: the blacklist entry lives for a fixed time.
AccessExpires_Mutant(t) ==
  /\ t \in fresh
  /\ fresh' = IF t \in blacklist THEN fresh ELSE fresh \ {t}
  /\ blacklist' = blacklist \ {t}
  /\ ended' = ended \ (Tokens \ fresh')
  /\ UNCHANGED <<version, entry, session, index, token, pending, req, condemned, swept>>

\* The TTL of a blacklist entry is the time its access token has left, at least
\* a second; what is kept of an expired token makes no difference.
AccessExpires(t) ==
  /\ t \in fresh
  /\ fresh' = fresh \ {t}
  /\ blacklist' = blacklist \ {t}
  /\ ended' = ended \ {t}
  /\ UNCHANGED <<version, entry, session, index, token, pending, req, condemned, swept>>

SessionExpires(t) ==
  /\ t \in session /\ session' = session \ {t}
  /\ UNCHANGED <<version, entry, index, blacklist, fresh, token, pending, req, history>>

\* The TTL of the set was renewed after the last EXPIRE, so it outlives every
\* key but those of sessions still being created.
IndexExpires ==
  /\ index # {} /\ \A t \in session : ~Issued(t)
  /\ index' = {} /\ swept' = swept \cup (session \cap index)
  /\ UNCHANGED <<version, entry, session, blacklist, fresh, token, pending, req,
                 condemned, ended>>

\* A call fails, the credentials are wrong or the process dies.
GiveUp(r) ==
  /\ req[r].pc # "idle"
  /\ Finish(r)
  /\ UNCHANGED <<version, entry, redis, fresh, token, pending, history>>

-----------------------------------------------------------------------------
Admit(r) ==
  \/ SignIn(r) \/ GoogleSignIn(r) \/ Authenticate(r) \/ Present(r)
  \/ FindUser(r) \/ FillEntry(r)

CreateSession(r) == Mint(r) \/ MintIndex(r) \/ Answer(r)

RevokeSession(r) ==
  \/ LookupSession(r) \/ SelectSession(r) \/ Logout(r)
  \/ DeleteKey(r) \/ RemoveEntry(r)

RevokeAllSessions(r) ==
  \/ Deliver(r) \/ ReadIndex(r) \/ DeleteSomeKey(r) \/ DeleteIndex(r)
  \/ IndexGone(r)

GetActiveSessions(r) == List(r) \/ ReadSessions(r) \/ RemoveStale(r)

ChangePassword(r) == SaveChange(r) \/ CommitChange(r)

Expiry ==
  \/ EntryExpires \/ IndexExpires
  \/ \E t \in Tokens : AccessExpires(t) \/ SessionExpires(t)

Next ==
  \/ \E r \in Requests :
       \/ Admit(r) \/ CreateSession(r) \/ RevokeSession(r) \/ RevokeAllSessions(r)
       \/ GetActiveSessions(r) \/ ChangePassword(r) \/ GiveUp(r)
  \/ Expiry

Spec == Init /\ [][Next]_vars

-----------------------------------------------------------------------------
(* Properties *)

\* A session that refreshes: the key is there and the version is the stored one.
Usable(t) == Issued(t) /\ t \in session /\ token[t].ver = version

\* Every session the user can still refresh is listed, and so within the reach
\* of revokeAllSessions, unless a concurrent revokeAllSessions or the TTL of
\* the set dropped its entry while it was being created (createSession writes
\* the key before the entry, the listing removes entries without a key).
UsableIsListed ==
  \A t \in Tokens : Usable(t) => t \in index \/ t \in swept

\* Once the outbox has delivered the revocation of a password change, no
\* session that existed when it was committed is left, however often earlier
\* revocations died half way (revokeAllSessions deletes the set last).
CondemnedAreRevoked ==
  \A v \in 2 .. version :
    v \in pending \/ condemned[v] \cap session \subseteq swept

\* A session that outlives a password change descends from a rotation that was
\* under way when the change was committed; nothing older is ever accepted.
SurvivorsCrossed ==
  \A t \in Tokens : Usable(t) /\ token[t].root < version => token[t].crossed

\* An access token is not accepted again once its logout has answered: as long
\* as it has not expired it stays blacklisted.
LogoutIsFinal == ended \cap fresh \subseteq blacklist

\* Access tokens the guards let through, apart from the version they carry.
Accepted == fresh \ blacklist

Contract == INSTANCE SessionsContract WITH
              open <- session, accepted <- Accepted, due <- pending

\* Command by command, concurrent requests, deliveries and expiries keep the
\* contract of the sessions: no key comes back, a rotation answers only when the
\* key it replaces is gone (RefreshTokensUseCase revokes before it mints) and is
\* marked exactly if a change was committed since that key was issued, a change
\* condemns every open session that was handed out and is listed, a delivery of
\* its revocation ends with none left, and what a logout or time refused stays so.
ImplementsContract == Contract!Spec

\* docs/integrations/auth/change-password.md:103: the revocation holds for every
\* session, so none that began under the old password can be refreshed once the
\* change has answered and its event was delivered.
ChangeEndsEverySession ==
  LET Revoking(r) == req[r].pc \in {"committing", "smembers", "delKeys"}
  IN pending = {} /\ (\A r \in Requests : ~Revoking(r)) =>
       \A t \in Tokens : Usable(t) => token[t].root = version
=============================================================================
