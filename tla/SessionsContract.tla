-------------------------- MODULE SessionsContract --------------------------
(***************************************************************************)
(* What the sessions of a user promise to the rest of the system, without  *)
(* requests, cached users, index or single commands: a session that was    *)
(* closed never opens again, a rotation hands out its pair only after the  *)
(* session it replaces is closed and names the password change it has      *)
(* crossed, every password change condemns the sessions that are open, an  *)
(* access token that was refused is never accepted again.  Sessions swept  *)
(* from the reach of a revocation are the exception it has to report.      *)
(***************************************************************************)
EXTENDS Naturals

CONSTANTS
  Tokens,       \* token pairs
  LastVersion   \* bound of the credential version

VARIABLES
  version,     \* the credential version
  open,        \* sessions with a key
  accepted,    \* access tokens the guards let through, their version apart
  token,       \* what was minted: version, sign-in it descends from, crossing
  due,         \* password changes whose revocation has not been delivered
  condemned,   \* the sessions each change is to end
  swept,       \* sessions out of the reach of revocations
  ended        \* access tokens whose logout has answered

vars == <<version, open, accepted, token, due, condemned, swept, ended>>

Issued(t) == token[t].ver # 0

Init ==
  /\ version = 1
  /\ open = {} /\ accepted = {} /\ due = {} /\ swept = {} /\ ended = {}
  /\ token = [t \in Tokens |->
                [minted |-> FALSE, ver |-> 0, root |-> 0, crossed |-> FALSE]]
  /\ condemned = [v \in 1 .. LastVersion |-> {}]

\* A session opens once.
Open(t) ==
  /\ ~token[t].minted
  /\ token' = [token EXCEPT ![t].minted = TRUE]
  /\ open' = open \cup {t}
  /\ UNCHANGED <<version, accepted, due, condemned, swept, ended>>

\* A pair is handed out once, under the stored version or one before it.
Issue(t, pair) ==
  /\ token[t].minted /\ ~Issued(t)
  /\ token' = [token EXCEPT ![t] = pair]
  /\ accepted' = accepted \cup {t}
  /\ UNCHANGED <<version, open, due, condemned, swept, ended>>

SignIn(t) ==
  \E v \in 1 .. version :
    Issue(t, [minted |-> TRUE, ver |-> v, root |-> v, crossed |-> FALSE])

\* What replaces a session says whether the password has changed meanwhile.
Rotate(t, old) ==
  /\ Issued(old) /\ old \notin open
  /\ \E v \in 1 .. version :
       Issue(t, [minted |-> TRUE, ver |-> v, root |-> token[old].root,
                 crossed |-> token[old].crossed \/ token[old].ver < version])

Close(t) ==
  /\ t \in open /\ open' = open \ {t}
  /\ UNCHANGED <<version, accepted, token, due, condemned, swept, ended>>

\* The change condemns what is open and within reach, be it handed out or not.
ChangePassword ==
  /\ version < LastVersion
  /\ version' = version + 1
  /\ due' = due \cup {version + 1}
  /\ \E C \in SUBSET open :
       /\ {t \in open : Issued(t)} \subseteq C \cup swept
       /\ condemned' = [condemned EXCEPT ![version + 1] = C]
  /\ UNCHANGED <<open, accepted, token, swept, ended>>

\* A revocation ends with nothing left of what it was to end; it may sweep
\* sessions that opened while it ran.
Revoke ==
  /\ \E T \in SUBSET open : swept' = swept \cup T
  /\ due' \subseteq due
  /\ \A v \in due \ due' : condemned[v] \cap open \subseteq swept
  /\ UNCHANGED <<version, open, accepted, token, condemned, ended>>

Refuse(t) ==
  /\ t \in accepted /\ accepted' = accepted \ {t}
  /\ UNCHANGED <<version, open, token, due, condemned, swept, ended>>

\* The logout answers only when the access token is refused.
EndLogout(t) ==
  /\ Issued(t) /\ t \notin accepted
  /\ ended' = ended \cup {t}
  /\ UNCHANGED <<version, open, accepted, token, due, condemned, swept>>

Expire(t) ==
  /\ accepted' = accepted \ {t} /\ ended' = ended \ {t}
  /\ UNCHANGED <<version, open, token, due, condemned, swept>>

Next ==
  \/ \E t \in Tokens :
       \/ Open(t) \/ SignIn(t) \/ Close(t) \/ Refuse(t) \/ EndLogout(t) \/ Expire(t)
       \/ \E old \in Tokens : Rotate(t, old)
  \/ ChangePassword \/ Revoke

Spec == Init /\ [][Next]_vars
=============================================================================
