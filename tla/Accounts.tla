------------------------------ MODULE Accounts ------------------------------
(***************************************************************************)
(* The accounts of one user: which exist, which are archived and which one *)
(* is the default.  The use cases read an account through the Redis cache, *)
(* decide on that copy and save it whole; save reads the row again and     *)
(* writes the columns in which the copy differs, without a lock in between.*)
(* Only creating and updating run in a transaction.  Partial unique        *)
(* indexes and a CHECK of the table are the last line of defence.          *)
(*                                                                         *)
(* A cache miss and the read of the row are one step; what is sent to      *)
(* Redis in one Promise.all is one step.                                   *)
(***************************************************************************)
EXTENDS Naturals

CONSTANTS
  Accounts,   \* accounts that may come to exist
  Cash,       \* the user's account of type CASH
  Requests,   \* concurrent requests, and the delivery of UserCreated
  NoAccount,  \* no account of the request
  NoEntry,    \* no value in the cache
  NoRows      \* nothing read for a list

ASSUME CashAssumption == Cash \in Accounts
ASSUME AbsenceAssumption == NoAccount \notin Accounts

VARIABLES
  row,     \* the table accounts
  entry,   \* accounts cached by id
  list,    \* the cached list of active accounts
  req,     \* the requests
  old,     \* history: entries older than their account is the default
  torn     \* history: the default was given up without a successor

cache == <<entry, list, old>>
vars == <<row, entry, list, req, old, torn>>

Row == [st : {"absent", "active", "archived"}, def : BOOLEAN]
Absent == [st |-> "absent", def |-> FALSE]

Acts == {"none", "setDefault", "archive", "unarchive", "update", "create",
         "provision", "list"}

\* copy is the account as the request will save it, write the columns save
\* found to differ, rows what was read for a list.  stale is history: the
\* account, or one of the list, has become the default since it was read.
Request ==
  [act : Acts, acc : Accounts \cup {NoAccount}, copy : Row,
   pc : {"idle", "fill", "decide", "others", "fillList", "unset", "clearUnset",
         "save", "write", "insert", "clear", "put"},
   write : SUBSET {"st", "def"}, rows : [Accounts -> Row] \cup {NoRows},
   stale : BOOLEAN]

TypeOK ==
  /\ row \in [Accounts -> Row]
  /\ entry \in [Accounts -> Row \cup {NoEntry}]
  /\ list \in (SUBSET Accounts) \cup {NoEntry}
  /\ req \in [Requests -> Request]
  /\ old \subseteq Accounts
  /\ torn \in BOOLEAN

Idle == [act |-> "none", acc |-> NoAccount, copy |-> Absent, pc |-> "idle",
         write |-> {}, rows |-> NoRows, stale |-> FALSE]

Init ==
  /\ row = [a \in Accounts |-> Absent]
  /\ entry = [a \in Accounts |-> NoEntry]
  /\ list = NoEntry
  /\ req = [r \in Requests |-> Idle]
  /\ old = {}
  /\ torn = FALSE

-----------------------------------------------------------------------------
Exists(a) == row[a].st # "absent"
Defaults == {a \in Accounts : row[a].def}
Active(rows) == {a \in Accounts : rows[a].st = "active"}

Goto(r, phase) == req' = [req EXCEPT ![r] = [req[r] EXCEPT !.pc = phase]]
Finish(r) == req' = [req EXCEPT ![r] = Idle]

\* The request goes on with the account changed.
Changed(r, st, def, phase) ==
  req' = [req EXCEPT ![r] =
            [act |-> req[r].act, acc |-> req[r].acc,
             copy |-> [st |-> st, def |-> def],
             pc |-> phase, write |-> {}, rows |-> NoRows, stale |-> req[r].stale]]

\* a becomes the default: whoever has read it before holds it as it was, and
\* so does its entry.
Overtake(a) ==
  [s \in Requests |-> IF req[s].acc = a \/ req[s].pc = "fillList"
                      THEN [req[s] EXCEPT !.stale = TRUE] ELSE req[s]]

Outdated(a) == IF entry[a] = NoEntry THEN old ELSE old \cup {a}

\* r puts entries S, as old as what it has read.
Aged(r, S) == IF req[r].stale THEN old \cup S ELSE old \ S

(* Reading *)

\* CachedAccountRepository.findByIdAndUserId without a manager.
Read(r) ==
  /\ req[r].pc = "idle"
  /\ \E act \in {"setDefault", "archive", "unarchive"}, a \in Accounts :
       /\ Exists(a)
       /\ req' = [req EXCEPT ![r] =
            [Idle EXCEPT !.act = act, !.acc = a,
                         !.copy = IF entry[a] = NoEntry THEN row[a] ELSE entry[a],
                         !.pc = IF entry[a] = NoEntry THEN "fill" ELSE "decide",
                         !.stale = a \in old]]
  /\ UNCHANGED <<row, cache, torn>>

Fill(r) ==
  /\ req[r].pc = "fill"
  /\ entry' = [entry EXCEPT ![req[r].acc] = req[r].copy]
  /\ old' = Aged(r, {req[r].acc})
  /\ Goto(r, "decide")
  /\ UNCHANGED <<row, list, torn>>

\* listByUserId: with archived accounts for GET /accounts only, without them
\* for GET /accounts and for the archiving of an account.
ReadList(r) ==
  /\ req[r].pc = "idle"
  /\ \E all \in BOOLEAN :
       /\ all \/ list = NoEntry
       /\ req' = [req EXCEPT ![r] =
            [Idle EXCEPT !.act = "list", !.pc = "fillList",
                         !.write = IF all THEN {"st"} ELSE {}, !.rows = row]]
  /\ UNCHANGED <<row, cache, torn>>

\* The list and an entry for each account in it.
FillList(r) ==
  /\ req[r].pc = "fillList"
  /\ LET rows == req[r].rows
         all == req[r].write # {}
         listed == IF all THEN {a \in Accounts : rows[a].st # "absent"} ELSE Active(rows)
     IN /\ list' = IF all THEN list ELSE listed
        /\ entry' = [a \in Accounts |-> IF a \in listed THEN rows[a] ELSE entry[a]]
        /\ old' = Aged(r, listed)
        /\ IF req[r].act = "archive" /\ listed \ {req[r].acc} # {}
           THEN Changed(r, "archived", req[r].copy.def, "save")
           ELSE Finish(r)
  /\ UNCHANGED <<row, torn>>

-----------------------------------------------------------------------------
(* Deciding, on the copy *)

\* An archived account and the default itself are refused.
DecideDefault(r) ==
  /\ req[r].act = "setDefault" /\ req[r].pc = "decide"
  /\ IF req[r].copy.def \/ req[r].copy.st = "archived" THEN Finish(r)
     ELSE Changed(r, req[r].copy.st, TRUE, "unset")
  /\ UNCHANGED <<row, cache, torn>>

\* Pending transactions in the future refuse it too (GiveUp).
DecideArchive(r) ==
  /\ req[r].act = "archive" /\ req[r].pc = "decide"
  /\ IF req[r].copy.def THEN Finish(r) ELSE Goto(r, "others")
  /\ UNCHANGED <<row, cache, torn>>

\* hasAnotherActiveAccount counts on the cached list.
CountOthers(r) ==
  /\ req[r].pc = "others"
  /\ IF list = NoEntry
     THEN req' = [req EXCEPT ![r] = [req[r] EXCEPT !.pc = "fillList", !.rows = row]]
     ELSE IF list \ {req[r].acc} = {} THEN Finish(r)
          ELSE Changed(r, "archived", req[r].copy.def, "save")
  /\ UNCHANGED <<row, cache, torn>>

DecideUnarchive(r) ==
  /\ req[r].act = "unarchive" /\ req[r].pc = "decide"
  /\ IF req[r].copy.st # "archived" THEN Finish(r)
     ELSE Changed(r, "active", req[r].copy.def, "save")
  /\ UNCHANGED <<row, cache, torn>>

\* The update reads the row; name, type and visuals are not kept here.
ReadForUpdate(r) ==
  /\ req[r].pc = "idle"
  /\ \E a \in Accounts :
       /\ row[a].st = "active"
       /\ req' = [req EXCEPT ![r] =
            [Idle EXCEPT !.act = "update", !.acc = a, !.copy = row[a], !.pc = "save"]]
  /\ UNCHANGED <<row, cache, torn>>

-----------------------------------------------------------------------------
(* Writing *)

\* unsetDefaultAccount: one UPDATE of all the user's accounts, then the cache.
UnsetDefault(r) ==
  /\ req[r].pc = "unset"
  /\ row' = [a \in Accounts |-> [row[a] EXCEPT !.def = FALSE]]
  /\ Goto(r, "clearUnset")
  /\ UNCHANGED <<cache, torn>>

\* save reads the row and keeps the columns in which the copy differs.
Compare(r) ==
  /\ req[r].pc = "save"
  /\ LET now == row[req[r].acc]
         copy == req[r].copy
     IN req' = [req EXCEPT ![r] =
          [req[r] EXCEPT !.pc = "write",
                         !.write = {c \in {"st", "def"} :
                                      \/ (c = "st" /\ copy.st # now.st)
                                      \/ (c = "def" /\ copy.def # now.def)}]]
  /\ UNCHANGED <<row, cache, torn>>

Saved(r) ==
  LET now == row[req[r].acc]
  IN [st |-> IF "st" \in req[r].write THEN req[r].copy.st ELSE now.st,
      def |-> IF "def" \in req[r].write THEN req[r].copy.def ELSE now.def]

\* CHK_accounts_default_not_archived and UQ_accounts_user_default_active.
Legal(a, new) == new.def => new.st = "active" /\ Defaults \subseteq {a}

\* The UPDATE of those columns.  The saved row is read back, outside a
\* transaction also to be put in the cache.
Update(r) ==
  /\ req[r].pc = "write"
  /\ LET a == req[r].acc
         new == Saved(r)
         own == [req[r] EXCEPT !.copy = new, !.write = {}, !.pc = "clear", !.stale = FALSE]
         won == new.def /\ ~row[a].def
     IN /\ Legal(a, new)
        /\ row' = [row EXCEPT ![a] = new]
        /\ torn' = IF new.def THEN FALSE ELSE torn \/ (row[a].def /\ req[r].stale)
        /\ req' = [IF won THEN Overtake(a) ELSE req EXCEPT ![r] = own]
        /\ old' = IF won THEN Outdated(a) ELSE old
  /\ UNCHANGED <<entry, list>>

\* userHasDefaultAccount, read in the transaction.
BecomesDefault(asked) == asked \/ Defaults = {}

ReadForCreate(r) ==
  /\ req[r].pc = "idle"
  /\ \E a \in Accounts, asked \in BOOLEAN :
       /\ ~Exists(a)
       /\ req' = [req EXCEPT ![r] =
            [Idle EXCEPT !.act = "create", !.acc = a, !.pc = "insert",
                         !.copy = [st |-> "active", def |-> BecomesDefault(asked)]]]
  /\ UNCHANGED <<row, cache, torn>>

\* The transaction unsets the old default and inserts the new account.
Create(r) ==
  LET a == req[r].acc
      def == req[r].copy.def
  IN /\ req[r].pc = "insert" /\ ~Exists(a)
     /\ row' = [b \in Accounts |->
                  IF b = a THEN req[r].copy
                  ELSE [row[b] EXCEPT !.def = @ /\ ~def]]
     /\ torn' = (torn /\ ~def)
     /\ req' = [IF def THEN Overtake(a) ELSE req EXCEPT ![r] = [req[r] EXCEPT !.pc = "clear"]]
     /\ old' = IF def THEN Outdated(a) ELSE old
     /\ UNCHANGED <<entry, list>>

\* UserCreated: the cash account is inserted as the default.  Nothing is unset:
\* when the user has made another default the index refuses every delivery.
Provision(r) ==
  /\ req[r].pc = "idle"
  /\ ~Exists(Cash) /\ Defaults = {}
  /\ row' = [row EXCEPT ![Cash] = [st |-> "active", def |-> TRUE]]
  /\ torn' = FALSE
  /\ req' = [Overtake(Cash) EXCEPT ![r] =
               [Idle EXCEPT !.act = "provision", !.acc = Cash, !.pc = "clear"]]
  /\ old' = Outdated(Cash)
  /\ UNCHANGED <<entry, list>>

-----------------------------------------------------------------------------
(* invalidateUserAccountCache, and the put that follows a save *)

\* Mutant: what the request put in the list goes, the entries by id stay.
Cleared_Mutant == entry

\* One DEL for the entry of every account.
Cleared == [a \in Accounts |-> NoEntry]

Clear(r) ==
  /\ req[r].pc \in {"clearUnset", "clear"}
  /\ entry' = Cleared
  /\ list' = NoEntry /\ old' = {}
  /\ IF req[r].pc = "clearUnset" THEN Goto(r, "save")
     ELSE IF req[r].act \in {"setDefault", "archive", "unarchive"} THEN Goto(r, "put")
          ELSE Finish(r)
  /\ UNCHANGED <<row, torn>>

Put(r) ==
  /\ req[r].pc = "put"
  /\ entry' = [entry EXCEPT ![req[r].acc] = req[r].copy]
  /\ old' = Aged(r, {req[r].acc})
  /\ Finish(r)
  /\ UNCHANGED <<row, list, torn>>

EntryExpires(a) ==
  /\ entry[a] # NoEntry /\ entry' = [entry EXCEPT ![a] = NoEntry]
  /\ old' = old \ {a}
  /\ UNCHANGED <<row, list, req, torn>>

ListExpires ==
  /\ list # NoEntry /\ list' = NoEntry
  /\ UNCHANGED <<row, entry, old, req, torn>>

\* A set-default between unsetting the old default and writing the new one.
Midway(r) ==
  /\ req[r].act = "setDefault"
  /\ \/ req[r].pc \in {"clearUnset", "save"}
     \/ req[r].pc = "write" /\ "def" \in req[r].write

\* A statement is refused, Redis fails or the process dies.
GiveUp(r) ==
  /\ req[r].pc # "idle"
  /\ torn' = (torn \/ (Midway(r) /\ Defaults = {}))
  /\ Finish(r)
  /\ UNCHANGED <<row, cache>>

-----------------------------------------------------------------------------
Reading(r) == Read(r) \/ Fill(r) \/ ReadList(r) \/ FillList(r)

SetDefault(r) == DecideDefault(r) \/ UnsetDefault(r)

Archive(r) == DecideArchive(r) \/ CountOthers(r)

Save(r) == Compare(r) \/ Update(r) \/ Clear(r) \/ Put(r)

Next ==
  \/ \E r \in Requests :
       \/ Reading(r) \/ SetDefault(r) \/ Archive(r) \/ DecideUnarchive(r)
       \/ ReadForUpdate(r) \/ Save(r) \/ ReadForCreate(r) \/ Create(r)
       \/ Provision(r) \/ GiveUp(r)
  \/ (\E a \in Accounts : EntryExpires(a)) \/ ListExpires

Spec == Init /\ [][Next]_vars

-----------------------------------------------------------------------------
(* Properties *)

\* A user with accounts has exactly one default, which is active.  The default
\* is missing only while a set-default is under way, after one was cut between
\* its two statements, or after a request saved an account as it had been
\* before it became the default: one that read it, or found an entry of that
\* age, before the change was over.  Once the request that made it the default
\* has cleared the cache, only such requests can bring that entry back.
DefaultKept ==
  /\ \A a, b \in Defaults : a = b
  /\ \A a \in Defaults : row[a].st = "active"
  /\ (\E a \in Accounts : Exists(a)) =>
       Defaults # {} \/ torn \/ \E r \in Requests : Midway(r)

\* docs/accounts/reference/invariants.md:17: the default is not archived.  The
\* archive of a copy read before the account became the default does it.
DefaultNotArchived ==
  [][\A a \in Accounts : row[a].def => row'[a].st # "archived"]_vars

\* docs/accounts/reference/invariants.md:19: the user keeps an active account.
SomeAccountActive ==
  (\E a \in Accounts : Exists(a)) => Active(row) # {}
=============================================================================
