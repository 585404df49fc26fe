---------------------------- MODULE FinanceProofs ---------------------------
(***************************************************************************)
(* Part one, the ledger: whatever creations, changes, deletions and merges *)
(* interleave, the category of a transaction exists and is of its type,    *)
(* and nothing but a save over what it has not seen undoes a confirmation  *)
(* or a deletion.  The two summaries of the API agree: sums over finite    *)
(* sets are reasoned about by a smallest set for which a claim fails.      *)
(*                                                                         *)
(* Part two, the accounts of the same user: the default account is unique  *)
(* and active, and missing only for the reasons DefaultKept names.         *)
(***************************************************************************)
EXTENDS Ledger, FiniteSetTheorems, WellFoundedInduction, TLAPS

\* Accounts that may come to exist are those of the ledger; its requests are
\* other ones of the same set.
CONSTANTS Cash, NoAccount, NoEntry, NoRows
VARIABLES account, entry, list, serving, old, torn

Acc == INSTANCE Accounts WITH row <- account, req <- serving

-----------------------------------------------------------------------------
(* The constants, and rows of transactions *)

LEMMA Constants ==
  /\ None \notin Categories /\ None \notin Transactions /\ None \notin Accounts
  /\ None \notin Kinds /\ None \notin Directions /\ None \notin States /\ None \notin Transaction
  /\ \A c \in Categories : KindOf[c] \in Kinds
  /\ \A d \in Drafts : d \in Transaction /\ d.deleted = FALSE
  /\ Patches \subseteq Patch
<1>1. \A d \in Transaction : d.deleted \in BOOLEAN
  BY DEF Transaction
<1> QED  BY <1>1, NoneAssumption, KindAssumption, InputAssumption DEF States

\* applyPatch leaves a transaction of the table, with its status and deletion.
LEMMA PatchedRow ==
  ASSUME NEW row \in Transaction, NEW p \in Patch
  PROVE  /\ Patched(row, p) \in Transaction
         /\ Patched(row, p).st = row.st /\ Patched(row, p).deleted = row.deleted
<1> DEFINE type == Or(p.type, row.type)
           c == Or(p.cat, row.cat)
           a == Or(p.acc, row.acc)
           dest == IF type = "TRANSFER" THEN Or(p.dest, row.dest) ELSE None
           dir == IF type = "ADJUSTMENT" THEN Or(p.dir, row.dir) ELSE None
           q == [row EXCEPT !.type = type, !.cat = c, !.acc = a, !.dest = dest, !.dir = dir]
<1>1. /\ type \in Kinds /\ c \in Categories /\ a \in Accounts
      /\ dest \in Accounts \cup {None} /\ dir \in Directions \cup {None}
  BY DEF Or, Transaction, Patch
<1> HIDE DEF type, c, a, dest, dir
<1>2. q \in Transaction /\ q.st = row.st /\ q.deleted = row.deleted
  BY <1>1 DEF Transaction
<1>3. Patched(row, p) = q
  BY DEF Patched, type, c, a, dest, dir
<1> QED  BY <1>2, <1>3

\* An UPDATE takes each column from one of the two.
LEMMA UpdatedRow ==
  ASSUME NEW row \in Transaction, NEW copy \in Transaction, NEW columns
  PROVE  LET new == Updated(row, copy, columns)
         IN /\ new \in Transaction
            /\ new.st \in {row.st, copy.st} /\ new.deleted \in {row.deleted, copy.deleted}
            /\ new.cat = (IF "cat" \in columns THEN copy.cat ELSE row.cat)
BY DEF Updated, Transaction

-----------------------------------------------------------------------------
(* The inductive invariant *)

\* The phases of each kind of request.
Course(act) ==
  CASE act = "none" -> {"idle"}
    [] act = "create" -> {"resolve", "save", "insert"}
    [] act = "change" -> {"resolve", "save", "write"}
    [] act = "save" -> {"save", "insert", "write"}
    [] act = "erase" -> {"check", "remove"}
    [] act = "merge" -> {"move", "remove", "commit"}

OfTx == {"create", "change"}
Removing(r) == req[r].pc \in {"remove", "commit"}

\* What a request is about.
Shaped(r) ==
  /\ req[r].pc \in Course(req[r].act)
  /\ req[r].act \in OfTx =>
       req[r].tx \in Transactions /\ req[r].copy \in Transaction /\ req[r].cat = None
  /\ req[r].act \notin OfTx => req[r].tx = None
  /\ req[r].act \in {"save", "erase", "merge"} => req[r].cat \in Categories
  /\ req[r].act = "save" => req[r].st \in States
  /\ req[r].act # "merge" \/ req[r].pc = "move" => req[r].rows = {}

\* A merge stays within one type.
Matching(r) ==
  req[r].act = "merge" =>
    /\ req[r].target \in Categories /\ req[r].target # req[r].cat
    /\ KindOf[req[r].target] = KindOf[req[r].cat]

\* Only what is created has no row.
Present(r) ==
  /\ req[r].act = "create" => ~Exists(req[r].tx)
  /\ req[r].act = "change" => Exists(req[r].tx)

\* A copy about to be saved fits its category, unless the row it was read from
\* did not.
Fitting(r) ==
  req[r].act \in OfTx /\ req[r].pc # "resolve" =>
    KindOf[req[r].copy.cat] = req[r].copy.type \/ req[r].tx \in mixed

\* A copy that nothing crossed undoes no confirmation and no deletion.
Onwards(r) ==
  req[r].act = "change" /\ ~req[r].crossed =>
    /\ tx[req[r].tx].deleted => req[r].copy.deleted
    /\ tx[req[r].tx].st = "EFFECTIVE" => req[r].copy.st = "EFFECTIVE"

Sane(r) == Shaped(r) /\ Matching(r) /\ Present(r) /\ Fitting(r) /\ Onwards(r)

\* A new id is nobody else's.
Own ==
  \A r, s \in Requests :
    req[r].act = "create" /\ req[s].tx = req[r].tx => s = r

\* A merge holds the rows it has moved against every other change.
Holding ==
  /\ \A r \in Requests : Removing(r) =>
       \A t \in req[r].rows : Exists(t) /\ tx[t].cat = req[r].cat
  /\ \A r, s \in Requests : Removing(r) /\ Removing(s) /\ r # s =>
       req[r].rows \cap req[s].rows = {}

\* The category that gets them stays, and is not being deleted.
Receiving ==
  \A r \in Requests : Removing(r) /\ req[r].rows # {} =>
    cat[req[r].target] # None /\ ~Removed(req[r].target)

\* Nothing is filed any more under a category whose row is deleted.
Emptied ==
  \A r \in Requests : req[r].pc = "commit" => Filed(req[r].cat) \subseteq req[r].rows

LedgerInv ==
  /\ TypeOK /\ (\A r \in Requests : Sane(r)) /\ Own
  /\ Holding /\ Receiving /\ Emptied /\ CategoryFits

-----------------------------------------------------------------------------
(* Steps that move one request and leave the tables alone *)

LEMMA IdleFields ==
  /\ Idle \in Request /\ Idle.act = "none" /\ Idle.tx = None /\ Idle.copy = None
  /\ Idle.cat = None /\ Idle.target = None /\ Idle.st = None /\ Idle.pc = "idle"
  /\ Idle.write = {} /\ Idle.rows = {} /\ Idle.crossed = FALSE
BY DEF Idle, Request

LEMMA Fields ==
  ASSUME TypeOK, NEW r \in Requests
  PROVE  /\ req[r] \in Request
         /\ req[r].act \in {"none", "create", "change", "save", "erase", "merge"}
         /\ req[r].pc \in {"idle", "resolve", "decide", "save", "insert", "write", "check",
                           "move", "remove", "commit"}
         /\ req[r].tx \in Transactions \cup {None} /\ req[r].copy \in Transaction \cup {None}
         /\ req[r].cat \in Categories \cup {None} /\ req[r].target \in Categories \cup {None}
         /\ req[r].st \in States \cup {None} /\ req[r].write \subseteq Columns
         /\ req[r].rows \subseteq Transactions /\ req[r].crossed \in BOOLEAN
<1>1. req[r] \in Request
  BY DEF TypeOK
<1> QED  BY <1>1 DEF Request

\* The requests other than r stay as they are.
Others(r) ==
  req' \in [Requests -> Request] /\ \A s \in Requests \ {r} : req'[s] = req[s]

LEMMA Replaced ==
  ASSUME TypeOK, NEW r \in Requests, NEW q \in Request, req' = [req EXCEPT ![r] = q]
  PROVE  Others(r) /\ req'[r] = q
BY DEF Others, TypeOK

\* What is asked of the request that moves besides being sane: its new id is
\* its own, and what it holds and receives is free.
Admissible(r) ==
  /\ \A s \in Requests \ {r} :
       req'[r].act = "create" \/ req[s].act = "create" => req[s].tx # req'[r].tx
  /\ Removing(r)' =>
       /\ \A t \in req'[r].rows : Exists(t) /\ tx[t].cat = req'[r].cat
       /\ \A s \in Requests \ {r} : Removing(s) => req[s].rows \cap req'[r].rows = {}
       /\ req'[r].rows # {} =>
            /\ cat[req'[r].target] # None /\ req'[r].target # req'[r].cat
            /\ \A s \in Requests \ {r} : req[s].pc = "commit" => req[s].cat # req'[r].target
  /\ req'[r].pc = "commit" =>
       /\ Filed(req'[r].cat) \subseteq req'[r].rows
       /\ \A s \in Requests \ {r} :
            Removing(s) /\ req[s].rows # {} => req[s].target # req'[r].cat

LEMMA SaneSame ==
  ASSUME NEW s \in Requests, Sane(s), req'[s] = req[s], UNCHANGED <<tx, mixed>>
  PROVE  Sane(s)'
<1>1. Shaped(s)'
  BY DEF Sane, Shaped
<1>2. Matching(s)' /\ Present(s)'
  BY DEF Sane, Matching, Present, Exists
<1>3. Fitting(s)' /\ Onwards(s)'
  BY DEF Sane, Fitting, Onwards
<1> QED  BY <1>1, <1>2, <1>3 DEF Sane

LEMMA QuietLedgerInv ==
  ASSUME LedgerInv, NEW r \in Requests, Others(r), Sane(r)', Admissible(r),
         UNCHANGED <<tx, cat, past, mixed>>
  PROVE  LedgerInv'
<1>1. \A s \in Requests \ {r} : req'[s] = req[s]
  BY DEF Others
<1>2. TypeOK'
  BY DEF LedgerInv, TypeOK, Others
<1>3. \A s \in Requests : Sane(s)'
  BY <1>1, SaneSame DEF LedgerInv
<1>4. Own'
  BY <1>1 DEF LedgerInv, Own, Admissible
<1>5. \A s \in Requests \ {r} : Removing(s)' <=> Removing(s)
  BY <1>1 DEF Removing
<1>6. Holding'
  <2>1. \A s \in Requests : Removing(s)' =>
          \A t \in req'[s].rows : Exists(t)' /\ tx'[t].cat = req'[s].cat
    BY <1>1, <1>5 DEF LedgerInv, Holding, Admissible, Exists
  <2>2. \A s, u \in Requests : Removing(s)' /\ Removing(u)' /\ s # u =>
          req'[s].rows \cap req'[u].rows = {}
    BY <1>1, <1>5 DEF LedgerInv, Holding, Admissible
  <2> QED  BY <2>1, <2>2 DEF Holding
<1>7. Receiving'
  <2> SUFFICES ASSUME NEW s \in Requests, Removing(s)', req'[s].rows # {},
                      NEW u \in Requests, req'[u].pc = "commit"
               PROVE  cat[req'[s].target] # None /\ req'[u].cat # req'[s].target
    <3>1. ASSUME NEW s \in Requests, Removing(s)', req'[s].rows # {}
          PROVE  cat[req'[s].target] # None
      BY <1>1, <1>5, <3>1 DEF LedgerInv, Receiving, Admissible
    <3> QED  BY <3>1 DEF Receiving, Removed
  <2> QED  BY <1>1, <1>5 DEF LedgerInv, Receiving, Removed, Admissible
<1>8. Emptied'
  BY <1>1 DEF LedgerInv, Emptied, Admissible, Filed, Exists
<1>9. CategoryFits'
  BY DEF LedgerInv, CategoryFits, Exists
<1> QED  BY <1>2, <1>3, <1>4, <1>6, <1>7, <1>8, <1>9 DEF LedgerInv

-----------------------------------------------------------------------------
(* Requests about a transaction *)

LEMMA Free ==
  ASSUME LedgerInv, NEW r \in Requests, req[r] = Idle, NEW s \in Requests \ {r}
  PROVE  req[s].act = "create" => req[s].tx \in Transactions /\ ~Exists(req[s].tx)
BY DEF LedgerInv, Sane, Shaped, Present, OfTx

LEMMA CreateStep == ASSUME LedgerInv, NEW r \in Requests, Create(r) PROVE LedgerInv'
<1>1. PICK t \in Transactions, draft \in Drafts :
        /\ ~Exists(t) /\ \A s \in Requests : req[s].tx # t
        /\ Begin(r, "create", t, draft, "resolve")
  BY DEF Create
<1> DEFINE q == [Idle EXCEPT !.act = "create", !.tx = t, !.copy = draft, !.pc = "resolve"]
<1>2. TypeOK /\ req[r] = Idle /\ req' = [req EXCEPT ![r] = q] /\ UNCHANGED <<tx, cat, past, mixed>>
  BY <1>1 DEF LedgerInv, Begin, Create
<1>3. /\ q \in Request /\ q.act = "create" /\ q.tx = t /\ q.copy = draft /\ q.pc = "resolve"
      /\ q.cat = None /\ q.rows = {}
  BY <1>1, Constants, IdleFields DEF Request
<1> HIDE DEF q
<1>4. Others(r) /\ req'[r] = q
  BY <1>2, <1>3, Replaced
<1>5. Sane(r)'
  BY <1>1, <1>2, <1>3, <1>4, Constants
     DEF Sane, Shaped, Matching, Present, Fitting, Onwards, Course, OfTx, Exists
<1>6. Admissible(r)
  BY <1>1, <1>3, <1>4 DEF Admissible, Removing
<1> QED  BY <1>2, <1>4, <1>5, <1>6, QuietLedgerInv

\* The copy of a transaction that exists, and what Onwards asks of it.
LEMMA Changed ==
  ASSUME LedgerInv, NEW r \in Requests, req[r] = Idle, NEW t \in Transactions, Exists(t),
         NEW copy \in Transaction, NEW pc \in {"resolve", "save"},
         req' = [req EXCEPT ![r] =
           [Idle EXCEPT !.act = "change", !.tx = t, !.copy = copy, !.pc = pc]],
         pc = "save" => KindOf[copy.cat] = copy.type \/ t \in mixed,
         tx[t].deleted => copy.deleted, tx[t].st = "EFFECTIVE" => copy.st = "EFFECTIVE",
         UNCHANGED <<tx, cat, past, mixed>>
  PROVE  LedgerInv'
<1> DEFINE q == [Idle EXCEPT !.act = "change", !.tx = t, !.copy = copy, !.pc = pc]
<1>1. /\ q \in Request /\ q.act = "change" /\ q.tx = t /\ q.copy = copy /\ q.pc = pc
      /\ q.cat = None /\ q.rows = {}
  BY IdleFields DEF Request
<1>2. req' = [req EXCEPT ![r] = q]
  OBVIOUS
<1> HIDE DEF q
<1>3. Others(r) /\ req'[r] = q
  BY <1>1, <1>2, Replaced DEF LedgerInv
<1>4. Sane(r)'
  <2>1. Shaped(r)' /\ Matching(r)'
    <3>1. pc \in Course("change")
      BY DEF Course
    <3> QED  BY <1>1, <1>3, <3>1 DEF Shaped, Matching, OfTx
  <2>2. Present(r)' /\ Fitting(r)' /\ Onwards(r)'
    BY <1>1, <1>3 DEF Present, Fitting, Onwards, Exists, OfTx
  <2> QED  BY <2>1, <2>2 DEF Sane
<1>5. Admissible(r)
  BY <1>1, <1>3, Free DEF Admissible, Removing
<1> QED  BY <1>3, <1>4, <1>5, QuietLedgerInv

LEMMA UpdateStep == ASSUME LedgerInv, NEW r \in Requests, Update(r) PROVE LedgerInv'
<1>1. PICK t \in Transactions, p \in Patches :
        Exists(t) /\ Begin(r, "change", t, Patched(tx[t], p), "resolve")
  BY DEF Update
<1>2. tx[t] \in Transaction /\ p \in Patch
  BY <1>1, Constants DEF LedgerInv, TypeOK, Exists
<1> DEFINE copy == Patched(tx[t], p)
           pc == "resolve"
<1>3. copy \in Transaction /\ copy.st = tx[t].st /\ copy.deleted = tx[t].deleted
  BY <1>2, PatchedRow
<1>4. /\ req[r] = Idle
      /\ req' = [req EXCEPT ![r] =
           [Idle EXCEPT !.act = "change", !.tx = t, !.copy = copy, !.pc = pc]]
  BY <1>1 DEF Begin
<1>5. pc \in {"resolve", "save"} /\ pc # "save"
  OBVIOUS
<1>6. UNCHANGED <<tx, cat, past, mixed>>
  BY DEF Update
<1> HIDE DEF copy, pc
<1> QED  BY <1>1, <1>3, <1>4, <1>5, <1>6, Changed

LEMMA ConfirmStep == ASSUME LedgerInv, NEW r \in Requests, Confirm(r) PROVE LedgerInv'
<1>1. PICK t \in Transactions, p \in Patches :
        /\ Exists(t) /\ ~tx[t].deleted
        /\ Begin(r, "change", t, [Patched(tx[t], p) EXCEPT !.st = "EFFECTIVE"], "resolve")
  BY DEF Confirm
<1>2. tx[t] \in Transaction /\ p \in Patch
  BY <1>1, Constants DEF LedgerInv, TypeOK, Exists
<1> DEFINE patched == Patched(tx[t], p)
           copy == [patched EXCEPT !.st = "EFFECTIVE"]
           pc == "resolve"
<1>3. patched \in Transaction
  BY <1>2, PatchedRow
<1>4. /\ req[r] = Idle
      /\ req' = [req EXCEPT ![r] =
           [Idle EXCEPT !.act = "change", !.tx = t, !.copy = copy, !.pc = pc]]
  BY <1>1 DEF Begin
<1> HIDE DEF patched
<1>5. copy \in Transaction /\ copy.st = "EFFECTIVE"
  BY <1>3 DEF Transaction
<1>6. pc \in {"resolve", "save"} /\ pc # "save"
  OBVIOUS
<1>7. UNCHANGED <<tx, cat, past, mixed>>
  BY DEF Confirm
<1> HIDE DEF copy, pc
<1> QED  BY <1>1, <1>4, <1>5, <1>6, <1>7, Changed

LEMMA DeleteStep == ASSUME LedgerInv, NEW r \in Requests, Delete(r) PROVE LedgerInv'
<1>1. PICK t \in Transactions :
        /\ Exists(t)
        /\ Begin(r, "change", t, [tx[t] EXCEPT !.deleted = TRUE], "save")
  BY DEF Delete
<1>2. tx[t] \in Transaction
  BY <1>1 DEF LedgerInv, TypeOK, Exists
<1> DEFINE copy == [tx[t] EXCEPT !.deleted = TRUE]
           pc == "save"
<1>3. /\ copy \in Transaction /\ copy.deleted = TRUE /\ copy.st = tx[t].st
      /\ copy.cat = tx[t].cat /\ copy.type = tx[t].type
  BY <1>2 DEF Transaction
<1>4. /\ req[r] = Idle
      /\ req' = [req EXCEPT ![r] =
           [Idle EXCEPT !.act = "change", !.tx = t, !.copy = copy, !.pc = pc]]
  BY <1>1 DEF Begin
<1>5. pc \in {"resolve", "save"}
  OBVIOUS
<1>6. UNCHANGED <<tx, cat, past, mixed>>
  BY DEF Delete
<1> HIDE DEF copy, pc
<1>7. KindOf[copy.cat] = copy.type \/ t \in mixed
  BY <1>1, <1>3 DEF LedgerInv, CategoryFits
<1> QED  BY <1>1, <1>3, <1>4, <1>5, <1>6, <1>7, Changed

\* A step that keeps what the request is about.
LEMMA SameSubject ==
  ASSUME LedgerInv, NEW r \in Requests, req[r].act \in OfTx, Others(r),
         req'[r].act = req[r].act, req'[r].tx = req[r].tx, ~Removing(r)'
  PROVE  Admissible(r)
BY DEF LedgerInv, Own, Admissible, Removing

LEMMA ResolveStep == ASSUME LedgerInv, NEW r \in Requests, Resolve(r) PROVE LedgerInv'
<1>1. PICK c \in Resolved(req[r].copy.type, req[r].copy.cat) :
        req' = [req EXCEPT ![r] =
          [req[r] EXCEPT !.copy = [req[r].copy EXCEPT !.cat = c], !.pc = "save"]]
  BY DEF Resolve
<1>2. TypeOK /\ Sane(r) /\ req[r].pc = "resolve" /\ UNCHANGED <<tx, cat, past, mixed>>
  BY DEF LedgerInv, Resolve
<1>3. req[r].act \in OfTx /\ req[r].tx \in Transactions /\ req[r].copy \in Transaction
  BY <1>2, Fields DEF Sane, Shaped, Course, OfTx
<1>4. c \in Categories /\ KindOf[c] = req[r].copy.type
  <2>1. req[r].copy.cat \in Categories
    BY <1>3 DEF Transaction
  <2> QED  BY <1>1, <2>1 DEF Resolved
<1> DEFINE copy == [req[r].copy EXCEPT !.cat = c]
           q == [req[r] EXCEPT !.copy = copy, !.pc = "save"]
<1>5. /\ copy \in Transaction /\ copy.cat = c /\ copy.type = req[r].copy.type
      /\ copy.st = req[r].copy.st /\ copy.deleted = req[r].copy.deleted
  BY <1>3, <1>4 DEF Transaction
<1>6. req' = [req EXCEPT ![r] = q]
  BY <1>1
<1> HIDE DEF copy
<1>7. /\ q \in Request /\ q.copy = copy /\ q.pc = "save" /\ q.act = req[r].act /\ q.tx = req[r].tx
      /\ q.cat = req[r].cat /\ q.rows = req[r].rows /\ q.crossed = req[r].crossed
  BY <1>2, <1>5, Fields DEF Request
<1> HIDE DEF q
<1>8. Others(r) /\ req'[r] = q
  BY <1>2, <1>6, <1>7, Replaced
<1>9. Sane(r)'
  <2>1. Shaped(r)' /\ Matching(r)'
    BY <1>2, <1>3, <1>5, <1>7, <1>8 DEF Sane, Shaped, Matching, Course, OfTx
  <2>2. Present(r)' /\ Fitting(r)' /\ Onwards(r)'
    BY <1>2, <1>4, <1>5, <1>7, <1>8 DEF Sane, Present, Fitting, Onwards, Exists
  <2> QED  BY <2>1, <2>2 DEF Sane
<1>10. Admissible(r)
  BY <1>3, <1>7, <1>8, SameSubject DEF Removing
<1> QED  BY <1>2, <1>8, <1>9, <1>10, QuietLedgerInv

\* The request goes on to another phase, comparing some columns or none.
LEMMA Gone ==
  ASSUME TypeOK, NEW r \in Requests, NEW pc, NEW columns \in SUBSET Columns,
         pc \in {"insert", "write", "remove", "commit"},
         \/ Goto(r, pc)
         \/ req' = [req EXCEPT ![r] = [req[r] EXCEPT !.pc = pc, !.write = columns]]
  PROVE  /\ Others(r) /\ req'[r].pc = pc
         /\ req'[r].act = req[r].act /\ req'[r].tx = req[r].tx /\ req'[r].copy = req[r].copy
         /\ req'[r].cat = req[r].cat /\ req'[r].target = req[r].target /\ req'[r].st = req[r].st
         /\ req'[r].rows = req[r].rows /\ req'[r].crossed = req[r].crossed
<1>1. ASSUME NEW q \in Request, req' = [req EXCEPT ![r] = q] PROVE Others(r) /\ req'[r] = q
  BY <1>1, Replaced
<1>2. CASE Goto(r, pc)
  <2> DEFINE q == [req[r] EXCEPT !.pc = pc]
  <2>1. /\ q \in Request /\ q.pc = pc
        /\ q.act = req[r].act /\ q.tx = req[r].tx /\ q.copy = req[r].copy
        /\ q.cat = req[r].cat /\ q.target = req[r].target /\ q.st = req[r].st
        /\ q.rows = req[r].rows /\ q.crossed = req[r].crossed
    BY Fields DEF Request
  <2>2. req' = [req EXCEPT ![r] = q]
    BY <1>2 DEF Goto
  <2> HIDE DEF q
  <2> QED  BY <1>1, <2>1, <2>2
<1>3. CASE req' = [req EXCEPT ![r] = [req[r] EXCEPT !.pc = pc, !.write = columns]]
  <2> DEFINE q == [req[r] EXCEPT !.pc = pc, !.write = columns]
  <2>1. /\ q \in Request /\ q.pc = pc
        /\ q.act = req[r].act /\ q.tx = req[r].tx /\ q.copy = req[r].copy
        /\ q.cat = req[r].cat /\ q.target = req[r].target /\ q.st = req[r].st
        /\ q.rows = req[r].rows /\ q.crossed = req[r].crossed
    BY Fields DEF Request
  <2>2. req' = [req EXCEPT ![r] = q]
    BY <1>3
  <2> HIDE DEF q
  <2> QED  BY <1>1, <2>1, <2>2
<1> QED  BY <1>2, <1>3

LEMMA CompareStep == ASSUME LedgerInv, NEW r \in Requests, Compare(r) PROVE LedgerInv'
<1>1. TypeOK /\ Sane(r) /\ req[r].pc = "save" /\ req[r].tx # None /\ UNCHANGED <<tx, cat, past, mixed>>
  BY DEF LedgerInv, Compare, OnTransaction
<1>2. req[r].act \in OfTx
  BY <1>1 DEF Sane, Shaped
<1>3. PICK pc \in {"insert", "write"} :
        /\ IF tx[req[r].tx] = None THEN pc = "insert" ELSE pc = "write"
        /\ Others(r) /\ req'[r].pc = pc
        /\ req'[r].act = req[r].act /\ req'[r].tx = req[r].tx /\ req'[r].copy = req[r].copy
        /\ req'[r].cat = req[r].cat /\ req'[r].target = req[r].target /\ req'[r].st = req[r].st
        /\ req'[r].rows = req[r].rows /\ req'[r].crossed = req[r].crossed
  <2>1. CASE tx[req[r].tx] = None
    <3>1. Goto(r, "insert")
      BY <2>1 DEF Compare
    <3> QED  BY <1>1, <2>1, <3>1, Gone
  <2>2. CASE tx[req[r].tx] # None
    <3> DEFINE columns == {k \in Columns : req[r].copy[k] # tx[req[r].tx][k]}
    <3>1. req' = [req EXCEPT ![r] = [req[r] EXCEPT !.pc = "write", !.write = columns]]
      BY <2>2 DEF Compare
    <3>2. columns \in SUBSET Columns
      OBVIOUS
    <3> HIDE DEF columns
    <3> QED  BY <1>1, <2>2, <3>1, <3>2, Gone
  <2> QED  BY <2>1, <2>2
<1>4. Sane(r)'
  <2>1. pc \in Course(req[r].act)
    BY <1>1, <1>2, <1>3 DEF Sane, Present, Exists, Course, OfTx
  <2>2. Shaped(r)' /\ Matching(r)'
    BY <1>1, <1>2, <1>3, <2>1 DEF Sane, Shaped, Matching, OfTx
  <2>3. Present(r)' /\ Fitting(r)' /\ Onwards(r)'
    BY <1>1, <1>3 DEF Sane, Present, Fitting, Onwards, Exists
  <2> QED  BY <2>2, <2>3 DEF Sane
<1>5. Admissible(r)
  BY <1>2, <1>3, SameSubject DEF Removing
<1> QED  BY <1>1, <1>3, <1>4, <1>5, QuietLedgerInv

-----------------------------------------------------------------------------
(* Rows of transactions that are stored *)

LEMMA StoredFields ==
  ASSUME LedgerInv, NEW r \in Requests, NEW row \in Transaction, Stored(r, row), req[r].act \in OfTx
  PROVE  /\ req' \in [Requests -> Request] /\ req'[r] = Idle
         /\ tx' \in [Transactions -> Transaction \cup {None}] /\ tx'[req[r].tx] = row
         /\ \A t \in Transactions \ {req[r].tx} : tx'[t] = tx[t]
         /\ mixed \subseteq mixed' /\ mixed' \subseteq Transactions
         /\ \/ row.type = req[r].copy.type /\ row.cat = req[r].copy.cat
            \/ req[r].tx \in mixed'
<1>1. TypeOK /\ req[r].tx \in Transactions
  BY DEF LedgerInv, Sane, Shaped
<1> DEFINE t == req[r].tx
           turned == tx[t] # None /\ (tx[t].st # row.st \/ tx[t].deleted # row.deleted)
           seen(s) == [req[s] EXCEPT !.crossed = @ \/ (turned /\ req[s].tx = t)]
<1>2. req' = [s \in Requests |-> IF s = r THEN Idle ELSE seen(s)]
  BY DEF Stored
<1>3. ASSUME NEW s \in Requests PROVE seen(s) \in Request
  <2> DEFINE crossed == req[s].crossed \/ (turned /\ req[s].tx = t)
             q == [req[s] EXCEPT !.crossed = crossed]
  <2>1. crossed \in BOOLEAN
    BY <1>1, Fields
  <2>2. seen(s) = q
    OBVIOUS
  <2> HIDE DEF crossed
  <2>3. q \in Request
    BY <1>1, <2>1, Fields DEF Request
  <2> QED  BY <2>2, <2>3
<1>4. tx' = [tx EXCEPT ![t] = row]
  BY DEF Stored
<1>5. mixed' = IF row.type = req[r].copy.type /\ row.cat = req[r].copy.cat
               THEN mixed ELSE mixed \cup {t}
  BY DEF Stored
<1> HIDE DEF seen, turned
<1>6. req' \in [Requests -> Request] /\ req'[r] = Idle
  BY <1>2, <1>3, IdleFields
<1> QED  BY <1>1, <1>4, <1>5, <1>6 DEF TypeOK

LEMMA StoredOthers ==
  ASSUME LedgerInv, NEW r \in Requests, NEW row \in Transaction, Stored(r, row), req[r].act \in OfTx,
         NEW s \in Requests \ {r}
  PROVE  /\ req'[s].act = req[s].act /\ req'[s].pc = req[s].pc /\ req'[s].tx = req[s].tx
         /\ req'[s].copy = req[s].copy /\ req'[s].cat = req[s].cat
         /\ req'[s].target = req[s].target /\ req'[s].st = req[s].st
         /\ req'[s].rows = req[s].rows
         /\ req[s].crossed => req'[s].crossed
         /\ ~req'[s].crossed /\ req[s].tx = req[r].tx /\ Exists(req[r].tx) =>
              tx[req[r].tx].st = row.st /\ tx[req[r].tx].deleted = row.deleted
<1>1. TypeOK /\ req[r].tx \in Transactions /\ req[r].tx # None
  BY Constants DEF LedgerInv, Sane, Shaped
<1> DEFINE t == req[r].tx
           turned == tx[t] # None /\ (tx[t].st # row.st \/ tx[t].deleted # row.deleted)
           crossed == req[s].crossed \/ (turned /\ req[s].tx = t)
           q == [req[s] EXCEPT !.crossed = crossed]
<1>2. req'[s] = q
  BY DEF Stored
<1>3. req[s] \in Request /\ req[s].crossed \in BOOLEAN
  BY <1>1, Fields
<1>4. /\ q.act = req[s].act /\ q.pc = req[s].pc /\ q.tx = req[s].tx
      /\ q.copy = req[s].copy /\ q.cat = req[s].cat /\ q.target = req[s].target
      /\ q.st = req[s].st /\ q.rows = req[s].rows /\ q.crossed = crossed
  BY <1>3 DEF Request
<1>5. ~crossed /\ req[s].tx = t /\ Exists(t) => tx[t].st = row.st /\ tx[t].deleted = row.deleted
  BY DEF Exists
<1> HIDE DEF q
<1> QED  BY <1>2, <1>3, <1>4, <1>5

\* A row is stored: its category is there, and no merge deletes it or holds the row.
LEMMA StoreLedgerInv ==
  ASSUME LedgerInv, NEW r \in Requests, NEW row \in Transaction, Stored(r, row), req[r].act \in OfTx,
         ~Locked(req[r].tx), cat[row.cat] # None,
         ~Removed(row.cat) \/ (Exists(req[r].tx) /\ tx[req[r].tx].cat = row.cat),
         KindOf[row.cat] = row.type \/ req[r].tx \in mixed',
         UNCHANGED <<cat, past>>
  PROVE  LedgerInv'
<1> DEFINE t == req[r].tx
<1>1. TypeOK /\ t \in Transactions /\ None \notin Transaction /\ t # None
  BY Constants DEF LedgerInv, Sane, Shaped
<1>2. /\ req' \in [Requests -> Request] /\ req'[r] = Idle
      /\ tx' \in [Transactions -> Transaction \cup {None}] /\ tx'[t] = row
      /\ \A u \in Transactions \ {t} : tx'[u] = tx[u]
      /\ mixed \subseteq mixed' /\ mixed' \subseteq Transactions
  BY StoredFields
<1>3. TypeOK'
  BY <1>1, <1>2 DEF TypeOK
<1>4. \A u \in Transactions : Exists(u) => tx'[u] # None
  BY <1>1, <1>2 DEF Exists
<1>5. \A s \in Requests : Sane(s)'
  <2>1. Sane(r)'
    BY <1>2, IdleFields DEF Sane, Shaped, Matching, Present, Fitting, Onwards, Course, OfTx
  <2>2. ASSUME NEW s \in Requests \ {r} PROVE Sane(s)'
    <3>1. /\ Sane(s)
          /\ req'[s].act = req[s].act /\ req'[s].pc = req[s].pc /\ req'[s].tx = req[s].tx
          /\ req'[s].copy = req[s].copy /\ req'[s].cat = req[s].cat
          /\ req'[s].target = req[s].target /\ req'[s].st = req[s].st
          /\ req'[s].rows = req[s].rows
      BY StoredOthers DEF LedgerInv
    <3>2. Shaped(s)' /\ Matching(s)'
      BY <3>1 DEF Sane, Shaped, Matching
    <3>3. Present(s)'
      <4>1. req[s].act = "create" => req[s].tx # t /\ req[s].tx \in Transactions
        BY <3>1 DEF LedgerInv, Own, Sane, Shaped, OfTx
      <4>2. req[s].act = "change" => req[s].tx \in Transactions
        BY <3>1 DEF Sane, Shaped, OfTx
      <4> QED  BY <1>2, <1>4, <3>1, <4>1, <4>2 DEF Sane, Present, Exists
    <3>4. Fitting(s)'
      BY <1>2, <3>1 DEF Sane, Fitting
    <3>5. Onwards(s)'
      <4> SUFFICES ASSUME req[s].act = "change", ~req'[s].crossed
                   PROVE  /\ tx'[req[s].tx].deleted => req[s].copy.deleted
                          /\ tx'[req[s].tx].st = "EFFECTIVE" => req[s].copy.st = "EFFECTIVE"
        BY <3>1 DEF Onwards
      <4>1. /\ tx[req[s].tx].deleted => req[s].copy.deleted
            /\ tx[req[s].tx].st = "EFFECTIVE" => req[s].copy.st = "EFFECTIVE"
            /\ req[s].tx \in Transactions /\ Exists(req[s].tx)
        BY <3>1, StoredOthers DEF Sane, Onwards, Shaped, Present, OfTx
      <4>2. CASE req[s].tx = t
        <5>1. tx[t].st = row.st /\ tx[t].deleted = row.deleted
          BY <4>1, <4>2, StoredOthers
        <5> QED  BY <1>2, <4>1, <4>2, <5>1
      <4>3. CASE req[s].tx # t
        BY <1>2, <4>1, <4>3
      <4> QED  BY <4>2, <4>3
    <3> QED  BY <3>2, <3>3, <3>4, <3>5 DEF Sane
  <2> QED  BY <2>1, <2>2
<1>6. /\ ~Removing(r)' /\ req'[r].act = "none" /\ req'[r].tx = None /\ req'[r].pc = "idle"
      /\ \A s \in Requests \ {r} : Removing(s)' <=> Removing(s)
  BY <1>2, IdleFields, StoredOthers DEF Removing
<1>7. Own'
  <2>1. \A s \in Requests \ {r} : req'[s].act = req[s].act /\ req'[s].tx = req[s].tx
    BY StoredOthers
  <2>2. \A s \in Requests : req[s].act = "create" => req[s].tx # None
    BY Constants DEF LedgerInv, Sane, Shaped, OfTx
  <2> QED  BY <1>6, <2>1, <2>2 DEF LedgerInv, Own
<1>8. ASSUME NEW s \in Requests, Removing(s)'
      PROVE  /\ s # r /\ Removing(s) /\ t \notin req[s].rows /\ req'[s].rows = req[s].rows
             /\ req'[s].cat = req[s].cat /\ req'[s].target = req[s].target
             /\ req'[s].pc = req[s].pc /\ req[s].rows \subseteq Transactions
  <2>1. s # r /\ Removing(s)
    BY <1>6, <1>8
  <2>2. t \notin req[s].rows
    BY <2>1 DEF Locked, Removing
  <2> QED  BY <1>1, <2>1, <2>2, StoredOthers, Fields
<1>9. Holding'
  <2>1. \A s \in Requests : Removing(s)' =>
          \A u \in req'[s].rows : Exists(u)' /\ tx'[u].cat = req'[s].cat
    BY <1>2, <1>4, <1>8 DEF LedgerInv, Holding, Exists
  <2>2. \A s, u \in Requests : Removing(s)' /\ Removing(u)' /\ s # u =>
          req'[s].rows \cap req'[u].rows = {}
    BY <1>8 DEF LedgerInv, Holding
  <2> QED  BY <2>1, <2>2 DEF Holding
<1>10. ASSUME NEW u \in Requests, req'[u].pc = "commit"
       PROVE  req[u].pc = "commit" /\ req'[u].cat = req[u].cat
  BY <1>8, <1>10 DEF Removing
<1>11. Receiving'
  <2>1. \A c : Removed(c)' => Removed(c)
    BY <1>10 DEF Removed
  <2> QED  BY <1>8, <2>1 DEF LedgerInv, Receiving
<1>12. Emptied'
  <2> SUFFICES ASSUME NEW s \in Requests, req'[s].pc = "commit",
                      NEW u \in Transactions, tx'[u] # None, tx'[u].cat = req'[s].cat
               PROVE  u \in req'[s].rows
    BY DEF Emptied, Filed, Exists
  <2>1. Removing(s)' /\ req[s].pc = "commit" /\ req'[s].cat = req[s].cat /\ req'[s].rows = req[s].rows
    BY <1>8 DEF Removing
  <2>2. CASE u = t
    <3>1. Removed(row.cat)
      BY <1>2, <2>1, <2>2 DEF Removed
    <3>2. t \in Filed(req[s].cat)
      BY <1>1, <1>2, <2>1, <2>2, <3>1 DEF Filed
    <3> QED  BY <1>8, <2>1, <3>2 DEF LedgerInv, Emptied
  <2>3. CASE u # t
    BY <1>2, <2>1, <2>3 DEF LedgerInv, Emptied, Filed, Exists
  <2> QED  BY <2>2, <2>3
<1>13. CategoryFits'
  <2> SUFFICES ASSUME NEW u \in Transactions, tx'[u] # None
               PROVE  /\ cat[tx'[u].cat] # None
                      /\ u \notin mixed' => KindOf[tx'[u].cat] = tx'[u].type
    BY DEF CategoryFits, Exists
  <2>1. CASE u = t
    BY <1>2, <2>1
  <2>2. CASE u # t
    BY <1>2, <2>2 DEF LedgerInv, CategoryFits, Exists
  <2> QED  BY <2>1, <2>2
<1> QED  BY <1>3, <1>5, <1>7, <1>9, <1>11, <1>12, <1>13 DEF LedgerInv

LEMMA InsertStep == ASSUME LedgerInv, NEW r \in Requests, Insert(r) PROVE LedgerInv'
<1> DEFINE row == req[r].copy
<1>1. /\ req[r].act = "create" /\ req[r].pc = "insert" /\ cat[row.cat] # None /\ ~Removed(row.cat)
      /\ Stored(r, row) /\ UNCHANGED <<cat, past>>
  BY DEF Insert, At
<1>2. /\ row \in Transaction /\ ~Exists(req[r].tx) /\ req[r].act \in OfTx
      /\ KindOf[row.cat] = row.type \/ req[r].tx \in mixed
  BY <1>1 DEF LedgerInv, Sane, Shaped, Present, Fitting, OfTx
<1>3. ~Locked(req[r].tx)
  BY <1>2 DEF LedgerInv, Holding, Locked, Removing
<1>4. KindOf[row.cat] = row.type \/ req[r].tx \in mixed'
  BY <1>1, <1>2, StoredFields
<1>5. ~Removed(row.cat) \/ (Exists(req[r].tx) /\ tx[req[r].tx].cat = row.cat)
  BY <1>1
<1> HIDE DEF row
<1> QED  BY <1>1, <1>2, <1>3, <1>4, <1>5, StoreLedgerInv

LEMMA WriteStep == ASSUME LedgerInv, NEW r \in Requests, Write(r) PROVE LedgerInv'
<1> DEFINE t == req[r].tx
           row == Updated(tx[t], req[r].copy, req[r].write)
<1>1. /\ req[r].pc = "write" /\ t # None /\ ~Locked(t)
      /\ "cat" \in req[r].write => cat[row.cat] # None /\ ~Removed(row.cat)
      /\ Stored(r, row) /\ UNCHANGED <<cat, past>>
  BY DEF Write, OnTransaction
<1>2. /\ req[r].act = "change" /\ t \in Transactions /\ req[r].copy \in Transaction
      /\ Exists(t) /\ req[r].act \in OfTx
      /\ KindOf[req[r].copy.cat] = req[r].copy.type \/ t \in mixed
  BY <1>1, Fields DEF LedgerInv, Sane, Shaped, Present, Fitting, OfTx, Course
<1>3. tx[t] \in Transaction
  BY <1>2 DEF LedgerInv, TypeOK, Exists
<1>4. row \in Transaction /\ row.cat = (IF "cat" \in req[r].write THEN req[r].copy.cat ELSE tx[t].cat)
  BY <1>2, <1>3, UpdatedRow
<1>5. cat[tx[t].cat] # None
  BY <1>2 DEF LedgerInv, CategoryFits
<1> HIDE DEF row
<1>6. /\ mixed \subseteq mixed'
      /\ (row.type = req[r].copy.type /\ row.cat = req[r].copy.cat) \/ t \in mixed'
  BY <1>1, <1>2, <1>4, StoredFields
<1>7. KindOf[row.cat] = row.type \/ t \in mixed'
  BY <1>2, <1>6
<1>8. /\ cat[row.cat] # None
      /\ ~Removed(row.cat) \/ (Exists(t) /\ tx[t].cat = row.cat)
  BY <1>1, <1>2, <1>4, <1>5
<1> HIDE DEF t
<1>9. t = req[r].tx
  BY DEF t
<1> QED  BY <1>1, <1>2, <1>4, <1>7, <1>8, <1>9, StoreLedgerInv

-----------------------------------------------------------------------------
(* Requests about a category *)

\* A request that holds nothing and is about no transaction.
LEMMA NoSubject ==
  ASSUME LedgerInv, NEW r \in Requests, Others(r), req'[r].act # "create", req'[r].tx = None,
         ~Removing(r)'
  PROVE  Admissible(r)
BY Constants DEF LedgerInv, Sane, Shaped, OfTx, Admissible, Removing

LEMMA OpenStep ==
  ASSUME LedgerInv, NEW r \in Requests,
         \/ CreateCategory(r) \/ Provision(r) \/ Edit(r) \/ Archive(r) \/ Unarchive(r) \/ Erase(r)
  PROVE  LedgerInv'
<1>1. PICK c \in Categories : \E act, st, pc :
        /\ BeginOn(r, act, c, st, pc)
        /\ \/ act = "save" /\ st \in States /\ pc = "save"
           \/ act = "erase" /\ st = None /\ pc = "check"
  BY DEF CreateCategory, Provision, Edit, Archive, Unarchive, Erase, States
<1>2. PICK act, st, pc :
        /\ BeginOn(r, act, c, st, pc)
        /\ \/ act = "save" /\ st \in States /\ pc = "save"
           \/ act = "erase" /\ st = None /\ pc = "check"
  BY <1>1
<1> DEFINE q == [Idle EXCEPT !.act = act, !.cat = c, !.st = st, !.pc = pc]
<1>3. /\ q \in Request /\ q.act = act /\ q.cat = c /\ q.st = st /\ q.pc = pc
      /\ q.tx = None /\ q.rows = {}
  BY <1>2, IdleFields DEF Request
<1>4. TypeOK /\ req' = [req EXCEPT ![r] = q] /\ UNCHANGED <<tx, cat, past, mixed>>
  BY <1>2 DEF BeginOn, LedgerInv
<1> HIDE DEF q
<1>5. Others(r) /\ req'[r] = q
  BY <1>3, <1>4, Replaced
<1>6. Sane(r)'
  <2>1. pc \in Course(act)
    BY <1>2 DEF Course
  <2> QED  BY <1>2, <1>3, <1>5, <2>1 DEF Sane, Shaped, Matching, Present, Fitting, Onwards, OfTx
<1>7. Admissible(r)
  BY <1>2, <1>3, <1>5, NoSubject DEF Removing
<1> QED  BY <1>4, <1>5, <1>6, <1>7, QuietLedgerInv

\* What a request about a category carries.
LEMMA OnCategory ==
  ASSUME LedgerInv, NEW r \in Requests, ~OnTransaction(r),
         req[r].pc \in {"save", "insert", "write"}
  PROVE  /\ TypeOK /\ Sane(r) /\ req[r].act = "save" /\ req[r].tx = None
         /\ req[r].cat \in Categories /\ req[r].st \in States
BY Constants DEF LedgerInv, Sane, Shaped, Course, OfTx, OnTransaction, TypeOK, Request

LEMMA CompareCategoryStep == ASSUME LedgerInv, NEW r \in Requests, CompareCategory(r) PROVE LedgerInv'
<1>1. /\ TypeOK /\ Sane(r) /\ req[r].act = "save" /\ req[r].tx = None
      /\ UNCHANGED <<tx, cat, past, mixed>>
  BY OnCategory DEF CompareCategory
<1>2. PICK pc \in {"insert", "write"} :
        /\ Others(r) /\ req'[r].pc = pc
        /\ req'[r].act = req[r].act /\ req'[r].tx = req[r].tx /\ req'[r].copy = req[r].copy
        /\ req'[r].cat = req[r].cat /\ req'[r].target = req[r].target /\ req'[r].st = req[r].st
        /\ req'[r].rows = req[r].rows /\ req'[r].crossed = req[r].crossed
  <2>1. CASE cat[req[r].cat] = None
    <3>1. Goto(r, "insert")
      BY <2>1 DEF CompareCategory
    <3> QED  BY <1>1, <3>1, Gone
  <2>2. CASE cat[req[r].cat] # None
    <3> DEFINE columns == IF cat[req[r].cat] = req[r].st THEN {} ELSE {"st"}
    <3>1. req' = [req EXCEPT ![r] = [req[r] EXCEPT !.pc = "write", !.write = columns]]
      BY <2>2 DEF CompareCategory
    <3>2. columns \in SUBSET Columns
      BY DEF Columns
    <3> DEFINE pc == "write"
    <3>3. /\ pc \in {"insert", "write"} /\ pc \in {"insert", "write", "remove", "commit"}
          /\ req' = [req EXCEPT ![r] = [req[r] EXCEPT !.pc = pc, !.write = columns]]
      BY <3>1
    <3> HIDE DEF columns, pc
    <3> QED  BY <1>1, <3>2, <3>3, Gone
  <2> QED  BY <2>1, <2>2
<1>3. Sane(r)'
  BY <1>1, <1>2 DEF Sane, Shaped, Matching, Present, Fitting, Onwards, Course, OfTx
<1>4. Admissible(r)
  BY <1>1, <1>2, NoSubject DEF Removing
<1> QED  BY <1>1, <1>2, <1>3, <1>4, QuietLedgerInv

\* A request ends; it may leave a category, or delete one that nothing is
\* filed under and nothing is being moved to.
LEMMA EndLedgerInv ==
  ASSUME LedgerInv, NEW r \in Requests, Finish(r), UNCHANGED <<tx, mixed>>,
         cat' \in [Categories -> States \cup {None}], past' \in [Categories -> SUBSET States],
         \A c \in Categories : cat'[c] = None =>
           \/ cat[c] = None
           \/ /\ Filed(c) = {}
              /\ \A s \in Requests : Removing(s) => req[s].target # c \/ req[s].rows = {}
  PROVE  LedgerInv'
<1>1. Others(r) /\ req'[r] = Idle /\ TypeOK
  BY IdleFields, Replaced DEF Finish, LedgerInv
<1>2. \A s \in Requests \ {r} : req'[s] = req[s]
  BY <1>1 DEF Others
<1>3. TypeOK'
  BY <1>1 DEF TypeOK, Others
<1>4. \A s \in Requests : Sane(s)'
  <2>1. Sane(r)'
    BY <1>1, IdleFields DEF Sane, Shaped, Matching, Present, Fitting, Onwards, Course, OfTx
  <2> QED  BY <1>2, <2>1, SaneSame DEF LedgerInv
<1>5. Own'
  <2>1. \A s \in Requests : req[s].act = "create" => req[s].tx # None
    BY Constants DEF LedgerInv, Sane, Shaped, OfTx
  <2> QED  BY <1>1, <1>2, <2>1, IdleFields DEF LedgerInv, Own
<1>6. \A s \in Requests : Removing(s)' => s # r /\ Removing(s) /\ req'[s] = req[s]
  BY <1>1, <1>2, IdleFields DEF Removing
<1>7. Holding'
  BY <1>6 DEF LedgerInv, Holding, Exists
<1>8. \A s \in Requests : req'[s].pc = "commit" => req[s].pc = "commit" /\ req'[s] = req[s]
  BY <1>6 DEF Removing
<1>9. Receiving'
  <2> SUFFICES ASSUME NEW s \in Requests, Removing(s)', req'[s].rows # {}
               PROVE  cat'[req[s].target] # None /\ ~Removed(req[s].target)'
    BY <1>6 DEF Receiving, Removed
  <2>1. Removing(s) /\ req[s].rows # {}
    BY <1>6
  <2>2. cat[req[s].target] # None /\ ~Removed(req[s].target)
    BY <2>1 DEF LedgerInv, Receiving
  <2>3. req[s].target \in Categories
    BY <2>1 DEF LedgerInv, Sane, Shaped, Matching, Removing, Course
  <2>4. ~Removed(req[s].target)'
    BY <1>6, <1>8, <2>2 DEF Removed
  <2> QED  BY <2>1, <2>2, <2>3, <2>4
<1>10. Emptied'
  BY <1>8 DEF LedgerInv, Emptied, Filed, Exists
<1>11. CategoryFits'
  <2> SUFFICES ASSUME NEW t \in Transactions, Exists(t)
               PROVE  cat'[tx[t].cat] # None
    BY DEF LedgerInv, CategoryFits, Exists
  <2>1. tx[t] \in Transaction /\ t \in Filed(tx[t].cat) /\ cat[tx[t].cat] # None
    BY <1>1 DEF LedgerInv, CategoryFits, TypeOK, Filed, Exists
  <2>2. tx[t].cat \in Categories
    BY <2>1 DEF Transaction
  <2> QED  BY <2>1, <2>2
<1> QED  BY <1>3, <1>4, <1>5, <1>7, <1>9, <1>10, <1>11 DEF LedgerInv

LEMMA SetFields ==
  ASSUME TypeOK, NEW c \in Categories, NEW st \in States \cup {None}, SetCategory(c, st)
  PROVE  /\ cat' \in [Categories -> States \cup {None}] /\ past' \in [Categories -> SUBSET States]
         /\ cat'[c] = st /\ \A d \in Categories \ {c} : cat'[d] = cat[d]
<1>1. past[c] \in SUBSET States
  BY DEF TypeOK
<1>2. (IF st = None THEN past[c] ELSE past[c] \cup {st}) \in SUBSET States
  BY <1>1
<1> QED  BY <1>2 DEF SetCategory, TypeOK

LEMMA InsertCategoryStep == ASSUME LedgerInv, NEW r \in Requests, InsertCategory(r) PROVE LedgerInv'
<1>1. /\ TypeOK /\ req[r].cat \in Categories /\ req[r].st \in States
      /\ SetCategory(req[r].cat, req[r].st) /\ Finish(r) /\ UNCHANGED <<tx, mixed>>
  BY OnCategory DEF InsertCategory
<1>2. /\ cat' \in [Categories -> States \cup {None}] /\ past' \in [Categories -> SUBSET States]
      /\ \A c \in Categories : cat'[c] = None => cat[c] = None
  BY <1>1, SetFields, Constants
<1> QED  BY <1>1, <1>2, EndLedgerInv

LEMMA WriteCategoryStep == ASSUME LedgerInv, NEW r \in Requests, WriteCategory(r) PROVE LedgerInv'
<1>1. /\ TypeOK /\ req[r].cat \in Categories /\ req[r].st \in States
      /\ SetCategory(req[r].cat, req[r].st) \/ UNCHANGED <<cat, past>>
      /\ Finish(r) /\ UNCHANGED <<tx, mixed>>
  BY OnCategory DEF WriteCategory
<1>2. /\ cat' \in [Categories -> States \cup {None}] /\ past' \in [Categories -> SUBSET States]
      /\ \A c \in Categories : cat'[c] = None => cat[c] = None
  <2>1. CASE SetCategory(req[r].cat, req[r].st)
    BY <1>1, <2>1, SetFields, Constants
  <2>2. CASE UNCHANGED <<cat, past>>
    BY <1>1, <2>2 DEF TypeOK
  <2> QED  BY <1>1, <2>1, <2>2
<1> QED  BY <1>1, <1>2, EndLedgerInv

LEMMA GiveUpStep == ASSUME LedgerInv, NEW r \in Requests, GiveUp(r) PROVE LedgerInv'
<1>1. Finish(r) /\ UNCHANGED <<tx, mixed>> /\ UNCHANGED <<cat, past>>
  BY DEF GiveUp
<1>2. /\ cat' \in [Categories -> States \cup {None}] /\ past' \in [Categories -> SUBSET States]
      /\ \A c \in Categories : cat'[c] = None => cat[c] = None
  BY <1>1 DEF LedgerInv, TypeOK
<1> QED  BY <1>1, <1>2, EndLedgerInv

LEMMA EraseRowStep == ASSUME LedgerInv, NEW r \in Requests, EraseRow(r) PROVE LedgerInv'
<1> DEFINE c == req[r].cat
<1>1. /\ TypeOK /\ c \in Categories /\ req[r].rows = {}
      /\ SetCategory(c, None) /\ Finish(r) /\ UNCHANGED <<tx, mixed>>
  BY DEF EraseRow, At, LedgerInv, Sane, Shaped
<1>2. /\ cat' \in [Categories -> States \cup {None}] /\ past' \in [Categories -> SUBSET States]
      /\ \A d \in Categories \ {c} : cat'[d] = cat[d]
  BY <1>1, SetFields
<1>3. /\ Filed(c) = {}
      /\ \A s \in Requests : Removing(s) => req[s].target # c \/ req[s].rows = {}
  BY <1>1 DEF EraseRow, Removable, Removing
<1> QED  BY <1>1, <1>2, <1>3, EndLedgerInv

LEMMA CheckStep == ASSUME LedgerInv, NEW r \in Requests, Check(r) PROVE LedgerInv'
<1>1. /\ TypeOK /\ Sane(r) /\ req[r].act = "erase" /\ req[r].pc = "check" /\ Goto(r, "remove")
      /\ UNCHANGED <<tx, cat, past, mixed>>
  BY DEF Check, At, LedgerInv
<1>2. req[r].tx = None /\ req[r].rows = {}
  BY <1>1 DEF Sane, Shaped, OfTx
<1> DEFINE pc == "remove"
<1>3. pc \in {"insert", "write", "remove", "commit"} /\ Goto(r, pc) /\ {} \in SUBSET Columns
  BY <1>1
<1> HIDE DEF pc
<1>4. /\ Others(r) /\ req'[r].pc = pc
      /\ req'[r].act = req[r].act /\ req'[r].tx = req[r].tx
      /\ req'[r].cat = req[r].cat /\ req'[r].st = req[r].st /\ req'[r].rows = req[r].rows
  BY <1>1, <1>3, Gone
<1>5. Sane(r)'
  BY <1>1, <1>2, <1>4 DEF pc, Sane, Shaped, Matching, Present, Fitting, Onwards, Course, OfTx
<1>6. Admissible(r)
  BY <1>1, <1>2, <1>4, Constants DEF pc, LedgerInv, Sane, Shaped, OfTx, Admissible, Removing
<1> QED  BY <1>1, <1>4, <1>5, <1>6, QuietLedgerInv

-----------------------------------------------------------------------------
(* The merge *)

LEMMA MergeStep == ASSUME LedgerInv, NEW r \in Requests, Merge(r) PROVE LedgerInv'
<1>1. PICK c \in Categories, d \in Categories :
        /\ Mergeable(c, d)
        /\ req' = [req EXCEPT ![r] =
             [Idle EXCEPT !.act = "merge", !.cat = c, !.target = d, !.pc = "move"]]
  BY DEF Merge
<1> DEFINE q == [Idle EXCEPT !.act = "merge", !.cat = c, !.target = d, !.pc = "move"]
<1>2. /\ q \in Request /\ q.act = "merge" /\ q.cat = c /\ q.target = d /\ q.pc = "move"
      /\ q.tx = None /\ q.rows = {}
  BY IdleFields DEF Request
<1>3. TypeOK /\ req' = [req EXCEPT ![r] = q] /\ UNCHANGED <<tx, cat, past, mixed>>
  BY <1>1 DEF LedgerInv, Merge
<1> HIDE DEF q
<1>4. Others(r) /\ req'[r] = q
  BY <1>2, <1>3, Replaced
<1>5. Sane(r)'
  <2>1. d # c /\ KindOf[d] = KindOf[c]
    BY <1>1 DEF Mergeable
  <2>2. Matching(r)'
    BY <1>2, <1>4, <2>1 DEF Matching
  <2>3. Shaped(r)' /\ Present(r)' /\ Fitting(r)' /\ Onwards(r)'
    BY <1>2, <1>4 DEF Shaped, Present, Fitting, Onwards, OfTx, Course
  <2> QED  BY <2>2, <2>3 DEF Sane
<1>6. Admissible(r)
  BY <1>2, <1>4, NoSubject DEF Removing
<1> QED  BY <1>3, <1>4, <1>5, <1>6, QuietLedgerInv

LEMMA MoveStep == ASSUME LedgerInv, NEW r \in Requests, Move(r) PROVE LedgerInv'
<1> DEFINE rows == Filed(req[r].cat)
           q == [req[r] EXCEPT !.rows = rows, !.pc = "remove"]
<1>1. /\ TypeOK /\ Sane(r) /\ req[r].act = "merge" /\ req[r].pc = "move"
      /\ \A t \in rows : ~Locked(t)
      /\ rows # {} => cat[req[r].target] # None /\ ~Removed(req[r].target)
      /\ req' = [req EXCEPT ![r] = q]
      /\ UNCHANGED <<tx, cat, past, mixed>>
  BY DEF LedgerInv, Move, At
<1>2. rows \subseteq Transactions /\ \A t \in rows : Exists(t) /\ tx[t].cat = req[r].cat
  BY DEF Filed
<1>3. rows = Filed(req[r].cat)
  OBVIOUS
<1> HIDE DEF rows
<1>4. /\ q \in Request /\ q.rows = rows /\ q.pc = "remove" /\ q.act = req[r].act
      /\ q.tx = req[r].tx /\ q.cat = req[r].cat /\ q.target = req[r].target
  BY <1>1, <1>2, Fields DEF Request
<1> HIDE DEF q
<1>5. Others(r) /\ req'[r] = q
  BY <1>1, <1>4, Replaced
<1>6. Sane(r)'
  BY <1>1, <1>4, <1>5 DEF Sane, Shaped, Matching, Present, Fitting, Onwards, OfTx, Course
<1>7. Admissible(r)
  <2>1. req[r].tx = None /\ req[r].target # req[r].cat
    BY <1>1 DEF Sane, Shaped, Matching, OfTx
  <2>2. \A s \in Requests \ {r} :
          req'[r].act = "create" \/ req[s].act = "create" => req[s].tx # req'[r].tx
    BY <1>1, <1>4, <1>5, <2>1, Constants DEF LedgerInv, Sane, Shaped, OfTx
  <2>3. \A s \in Requests : Removing(s) => req[s].rows \cap rows = {}
    BY <1>1 DEF Locked, Removing
  <2>4. rows # {} => \A s \in Requests : req[s].pc = "commit" => req[s].cat # req[r].target
    BY <1>1 DEF Removed
  <2> QED  BY <1>1, <1>2, <1>4, <1>5, <2>1, <2>2, <2>3, <2>4 DEF Admissible
<1> QED  BY <1>1, <1>5, <1>6, <1>7, QuietLedgerInv

LEMMA RemoveRowStep == ASSUME LedgerInv, NEW r \in Requests, RemoveRow(r) PROVE LedgerInv'
<1>1. /\ TypeOK /\ Sane(r) /\ req[r].act = "merge" /\ req[r].pc = "remove" /\ Goto(r, "commit")
      /\ Removing(r) /\ Removable(r) /\ UNCHANGED <<tx, cat, past, mixed>>
  BY DEF RemoveRow, At, LedgerInv, Removing
<1>2. req[r].tx = None /\ req[r].target # req[r].cat
  BY <1>1 DEF Sane, Shaped, Matching, OfTx
<1> DEFINE pc == "commit"
<1>3. pc \in {"insert", "write", "remove", "commit"} /\ Goto(r, pc) /\ {} \in SUBSET Columns
  BY <1>1
<1> HIDE DEF pc
<1>4. /\ Others(r) /\ req'[r].pc = pc
      /\ req'[r].act = req[r].act /\ req'[r].tx = req[r].tx /\ req'[r].target = req[r].target
      /\ req'[r].cat = req[r].cat /\ req'[r].st = req[r].st /\ req'[r].rows = req[r].rows
  BY <1>1, <1>3, Gone
<1>5. Sane(r)'
  BY <1>1, <1>2, <1>4 DEF pc, Sane, Shaped, Matching, Present, Fitting, Onwards, Course, OfTx
<1>6. Admissible(r)
  <2>1. \A s \in Requests \ {r} :
          req'[r].act = "create" \/ req[s].act = "create" => req[s].tx # req'[r].tx
    BY <1>1, <1>2, <1>4, Constants DEF LedgerInv, Sane, Shaped, OfTx
  <2>2. /\ \A t \in req[r].rows : Exists(t) /\ tx[t].cat = req[r].cat
        /\ \A s \in Requests \ {r} : Removing(s) => req[s].rows \cap req[r].rows = {}
    BY <1>1 DEF LedgerInv, Holding
  <2>3. req[r].rows # {} =>
          /\ cat[req[r].target] # None
          /\ \A s \in Requests \ {r} : req[s].pc = "commit" => req[s].cat # req[r].target
    BY <1>1 DEF LedgerInv, Receiving, Removed
  <2>4. /\ Filed(req[r].cat) \subseteq req[r].rows
        /\ \A s \in Requests \ {r} :
             Removing(s) /\ req[s].rows # {} => req[s].target # req[r].cat
    BY <1>1 DEF Removable, Removing
  <2> QED  BY <1>2, <1>4, <2>1, <2>2, <2>3, <2>4 DEF Admissible
<1> QED  BY <1>1, <1>4, <1>5, <1>6, QuietLedgerInv

LEMMA CommitStep == ASSUME LedgerInv, NEW r \in Requests, Commit(r) PROVE LedgerInv'
<1> DEFINE c == req[r].cat
           d == req[r].target
           rows == req[r].rows
<1>1. /\ TypeOK /\ Sane(r) /\ req[r].act = "merge" /\ req[r].pc = "commit" /\ Removing(r)
      /\ SetCategory(c, None) /\ Finish(r) /\ mixed' = mixed
      /\ tx' = [t \in Transactions |-> IF t \in rows THEN [tx[t] EXCEPT !.cat = d] ELSE tx[t]]
  BY DEF LedgerInv, Commit, At, Removing
<1>2. c \in Categories /\ d \in Categories /\ d # c /\ KindOf[d] = KindOf[c] /\ rows \subseteq Transactions
  BY <1>1, Fields DEF Sane, Shaped, Matching
<1>3. /\ cat' \in [Categories -> States \cup {None}] /\ past' \in [Categories -> SUBSET States]
      /\ cat'[c] = None /\ \A e \in Categories \ {c} : cat'[e] = cat[e]
  BY <1>1, <1>2, SetFields
<1>4. ASSUME NEW t \in rows
      PROVE  /\ t \in Transactions /\ Exists(t) /\ tx[t] \in Transaction /\ tx[t].cat = c
             /\ tx'[t] \in Transaction /\ tx'[t].cat = d
             /\ tx'[t].type = tx[t].type /\ tx'[t].st = tx[t].st /\ tx'[t].deleted = tx[t].deleted
  <2>1. t \in Transactions /\ Exists(t) /\ tx[t].cat = c
    BY <1>1, <1>2 DEF LedgerInv, Holding
  <2>2. tx[t] \in Transaction
    BY <1>1, <2>1 DEF TypeOK, Exists
  <2>3. tx'[t] = [tx[t] EXCEPT !.cat = d]
    BY <1>1, <2>1
  <2> QED  BY <1>2, <2>1, <2>2, <2>3 DEF Transaction
<1>5. \A t \in Transactions \ rows : tx'[t] = tx[t]
  BY <1>1
<1>6. (cat[d] # None /\ ~Removed(d)) \/ rows = {}
  BY <1>1 DEF LedgerInv, Receiving
<1>7. Filed(c) \subseteq rows
  BY <1>1 DEF LedgerInv, Emptied
<1>8. DOMAIN tx' = Transactions /\ tx' = [t \in Transactions |-> tx'[t]]
  BY <1>1
<1>9. Others(r) /\ req'[r] = Idle
  BY <1>1, IdleFields, Replaced DEF Finish
<1>10. mixed' = mixed
  BY <1>1
<1>11. Removed(c) /\ Sane(r) /\ TypeOK
  BY <1>1 DEF Removed
<1> HIDE DEF c, d, rows
<1>12. \A s \in Requests \ {r} : req'[s] = req[s]
  BY <1>9 DEF Others
<1>13. TypeOK'
  <2>1. \A t \in Transactions : tx'[t] \in Transaction \cup {None}
    BY <1>4, <1>5, <1>11 DEF TypeOK
  <2>2. tx' \in [Transactions -> Transaction \cup {None}]
    BY <1>8, <2>1
  <2> QED  BY <1>3, <1>9, <1>10, <1>11, <2>2 DEF TypeOK, Others
<1>14. \A t \in Transactions : Exists(t)' <=> Exists(t)
  <2>1. None \notin Transaction
    BY Constants
  <2> QED  BY <1>4, <1>5, <2>1 DEF Exists
<1>15. \A t \in Transactions : Exists(t) =>
         /\ tx'[t].type = tx[t].type /\ tx'[t].st = tx[t].st /\ tx'[t].deleted = tx[t].deleted
  BY <1>4, <1>5
<1>16. \A s \in Requests : Sane(s)'
  <2>1. Sane(r)'
    BY <1>9, IdleFields DEF Sane, Shaped, Matching, Present, Fitting, Onwards, Course, OfTx
  <2>2. ASSUME NEW s \in Requests \ {r} PROVE Sane(s)'
    <3>1. Sane(s) /\ req'[s] = req[s]
      BY <1>12 DEF LedgerInv
    <3>2. req[s].act \in OfTx => req[s].tx \in Transactions
      BY <3>1 DEF Sane, Shaped
    <3>3. Shaped(s)' /\ Matching(s)' /\ Fitting(s)'
      BY <1>10, <3>1 DEF Sane, Shaped, Matching, Fitting
    <3>4. Present(s)'
      BY <1>14, <3>1, <3>2 DEF Sane, Present, OfTx, Exists
    <3>5. Onwards(s)'
      BY <1>15, <3>1, <3>2 DEF Sane, Present, Onwards, OfTx
    <3> QED  BY <3>3, <3>4, <3>5 DEF Sane
  <2> QED  BY <2>1, <2>2
<1>17. Own'
  <2>1. \A s \in Requests : req[s].act = "create" => req[s].tx # None
    BY Constants DEF LedgerInv, Sane, Shaped, OfTx
  <2> QED  BY <1>9, <1>12, <2>1, IdleFields DEF LedgerInv, Own
<1>18. \A s \in Requests : Removing(s)' =>
         s # r /\ Removing(s) /\ req'[s] = req[s] /\ req[s].rows \subseteq Transactions
  BY <1>9, <1>11, <1>12, IdleFields, Fields DEF Removing
<1>19. ASSUME NEW s \in Requests, Removing(s)' PROVE req[s].rows \cap rows = {}
  BY <1>1, <1>18, <1>19 DEF LedgerInv, Holding, rows
<1>20. Holding'
  <2>1. \A s \in Requests : Removing(s)' =>
          \A t \in req'[s].rows : Exists(t)' /\ tx'[t].cat = req'[s].cat
    BY <1>5, <1>14, <1>18, <1>19 DEF LedgerInv, Holding
  <2>2. \A s, u \in Requests : Removing(s)' /\ Removing(u)' /\ s # u =>
          req'[s].rows \cap req'[u].rows = {}
    BY <1>18 DEF LedgerInv, Holding
  <2> QED  BY <2>1, <2>2 DEF Holding
<1>21. \A s \in Requests : req'[s].pc = "commit" =>
         s # r /\ req[s].pc = "commit" /\ req'[s] = req[s] /\ Removing(s)'
  BY <1>18 DEF Removing
<1>22. Receiving'
  <2> SUFFICES ASSUME NEW s \in Requests, Removing(s)', req'[s].rows # {}
               PROVE  cat'[req[s].target] # None /\ ~Removed(req[s].target)'
    BY <1>18 DEF Receiving, Removed
  <2>1. Removing(s) /\ req[s].rows # {}
    BY <1>18
  <2>2. cat[req[s].target] # None /\ ~Removed(req[s].target)
    BY <2>1 DEF LedgerInv, Receiving
  <2>3. req[s].target \in Categories
    BY <2>1 DEF LedgerInv, Sane, Shaped, Matching, Removing, Course
  <2>4. ~Removed(req[s].target)'
    BY <1>18, <1>21, <2>2 DEF Removed
  <2>5. req[s].target # c
    BY <1>11, <2>2
  <2> QED  BY <1>3, <2>2, <2>3, <2>4, <2>5
<1>23. Emptied'
  <2> SUFFICES ASSUME NEW s \in Requests, req'[s].pc = "commit",
                      NEW t \in Transactions, Exists(t)', tx'[t].cat = req'[s].cat
               PROVE  t \in req'[s].rows
    BY DEF Emptied, Filed, Exists
  <2>1. req[s].pc = "commit" /\ req'[s] = req[s] /\ Removed(req[s].cat)
    BY <1>21 DEF Removed
  <2>2. t \notin rows
    BY <1>4, <1>6, <2>1
  <2> QED  BY <1>5, <1>14, <2>1, <2>2 DEF LedgerInv, Emptied, Filed
<1>24. CategoryFits'
  <2> SUFFICES ASSUME NEW t \in Transactions, Exists(t)
               PROVE  /\ cat'[tx'[t].cat] # None
                      /\ t \notin mixed' => KindOf[tx'[t].cat] = tx'[t].type
    BY <1>14 DEF CategoryFits, Exists
  <2>1. /\ tx[t] \in Transaction /\ t \in Filed(tx[t].cat) /\ cat[tx[t].cat] # None
        /\ t \notin mixed => KindOf[tx[t].cat] = tx[t].type
    BY <1>11 DEF LedgerInv, CategoryFits, TypeOK, Filed, Exists
  <2>2. tx[t].cat \in Categories
    BY <2>1 DEF Transaction
  <2>3. CASE t \in rows
    BY <1>2, <1>3, <1>4, <1>6, <1>10, <2>1, <2>3
  <2>4. CASE t \notin rows
    BY <1>3, <1>5, <1>7, <1>10, <2>1, <2>2, <2>4
  <2> QED  BY <2>3, <2>4
<1> QED  BY <1>13, <1>16, <1>17, <1>20, <1>22, <1>23, <1>24 DEF LedgerInv

-----------------------------------------------------------------------------
(* The theorems *)

LEMMA InitLedgerInv == ASSUME Init PROVE LedgerInv
<1>1. /\ tx = [t \in Transactions |-> None] /\ cat \in [Categories -> {"active", None}]
      /\ past = [c \in Categories |-> IF cat[c] = None THEN {} ELSE {cat[c]}]
      /\ req = [r \in Requests |-> Idle] /\ mixed = {}
  BY DEF Init
<1>2. TypeOK
  <2>1. past \in [Categories -> SUBSET States]
    BY <1>1 DEF States
  <2>2. cat \in [Categories -> States \cup {None}]
    BY <1>1 DEF States
  <2> QED  BY <1>1, <2>1, <2>2, IdleFields DEF TypeOK
<1>3. \A r \in Requests : Sane(r)
  BY <1>1, IdleFields DEF Sane, Shaped, Matching, Present, Fitting, Onwards, Course, OfTx
<1>4. \A r \in Requests : req[r].act = "none" /\ req[r].pc = "idle" /\ ~Removing(r)
  BY <1>1, IdleFields DEF Removing
<1>5. Own /\ Holding /\ Receiving /\ Emptied
  BY <1>4 DEF Own, Holding, Receiving, Emptied
<1>6. CategoryFits
  BY <1>1 DEF CategoryFits, Exists
<1> QED  BY <1>2, <1>3, <1>5, <1>6 DEF LedgerInv

LEMMA NextLedgerInv == ASSUME LedgerInv, [Next]_vars PROVE LedgerInv'
<1>1. CASE Next
  <2>1. PICK r \in Requests : OfTransaction(r) \/ OfCategory(r) \/ GiveUp(r)
    BY <1>1 DEF Next
  <2>2. CASE OfTransaction(r)
    BY <2>2, CreateStep, UpdateStep, ConfirmStep, DeleteStep, ResolveStep, CompareStep,
       InsertStep, WriteStep DEF OfTransaction
  <2>3. CASE OfCategory(r)
    BY <2>3, OpenStep, CompareCategoryStep, InsertCategoryStep, WriteCategoryStep, CheckStep,
       EraseRowStep, MergeStep, MoveStep, RemoveRowStep, CommitStep DEF OfCategory
  <2> QED  BY <2>1, <2>2, <2>3, GiveUpStep
<1>2. CASE UNCHANGED vars
  <2>1. /\ tx' = tx /\ cat' = cat /\ past' = past /\ req' = req /\ mixed' = mixed
    BY <1>2 DEF vars
  <2>2. \A s \in Requests : Sane(s)'
    BY <2>1, SaneSame DEF LedgerInv
  <2>3. TypeOK' /\ Own' /\ CategoryFits'
    BY <2>1 DEF LedgerInv, TypeOK, Own, CategoryFits, Exists
  <2>4. Holding' /\ Receiving' /\ Emptied'
    BY <2>1 DEF LedgerInv, Holding, Receiving, Emptied, Removing, Removed, Filed, Exists
  <2> QED  BY <2>2, <2>3, <2>4 DEF LedgerInv
<1> QED  BY <1>1, <1>2

\* The invariant above holds in every reachable state of the ledger.
THEOREM LedgerInductive == Spec => []LedgerInv
<1> QED  BY InitLedgerInv, NextLedgerInv, PTL DEF Spec

\* Type correctness of every reachable state.
THEOREM LedgerTypeOK == Spec => []TypeOK
<1>1. LedgerInv => TypeOK
  BY DEF LedgerInv
<1> QED  BY <1>1, LedgerInductive, PTL

\* A transaction is filed under a category that exists, and under one of its
\* type unless two saves mixed them, whatever merges and deletions run at once.
THEOREM LedgerCategoryFits == Spec => []CategoryFits
<1>1. LedgerInv => CategoryFits
  BY DEF LedgerInv
<1> QED  BY <1>1, LedgerInductive, PTL

\* Only an UPDATE with a copy that was crossed can undo a row.
LEMMA UndoneStep ==
  ASSUME LedgerInv, [Next]_vars, NEW t \in Transactions, Exists(t),
         \/ tx[t].deleted /\ ~tx'[t].deleted
         \/ tx[t].st = "EFFECTIVE" /\ tx'[t].st = "PENDING"
  PROVE  \E r \in Requests : req[r].pc = "write" /\ req[r].tx = t /\ req[r].crossed
<1>1. tx' # tx
  BY DEF LedgerInv, TypeOK, Exists, Transaction
<1>2. PICK r \in Requests : OfTransaction(r) \/ OfCategory(r) \/ GiveUp(r)
  BY <1>1 DEF Next, vars
<1>3. Insert(r) \/ Write(r) \/ Commit(r)
  BY <1>1, <1>2 DEF OfTransaction, OfCategory, GiveUp, Create, Update, Confirm, Delete, Resolve,
     Compare, CreateCategory, Provision, Edit, Archive, Unarchive, Erase, BeginOn,
     CompareCategory, InsertCategory, WriteCategory, Check, EraseRow, Merge, Move, RemoveRow
<1>4. TypeOK /\ Sane(r) /\ tx[t] \in Transaction
  BY DEF LedgerInv, TypeOK, Exists
<1>5. ~Insert(r)
  <2> SUFFICES ASSUME Insert(r) PROVE FALSE
    OBVIOUS
  <2>1. req[r].act = "create" /\ tx' = [tx EXCEPT ![req[r].tx] = req[r].copy]
    BY DEF Insert, At, Stored
  <2>2. req[r].tx # t
    BY <1>4, <2>1 DEF Sane, Present
  <2>3. tx'[t] = tx[t]
    BY <1>4, <2>1, <2>2 DEF TypeOK
  <2> QED  BY <1>4, <2>3 DEF Transaction
<1>6. ~Commit(r)
  <2> SUFFICES ASSUME Commit(r) PROVE FALSE
    OBVIOUS
  <2>1. tx'[t] = tx[t] \/ tx'[t] = [tx[t] EXCEPT !.cat = req[r].target]
    BY DEF Commit
  <2>2. tx'[t].st = tx[t].st /\ tx'[t].deleted = tx[t].deleted
    BY <1>4, <2>1 DEF Transaction
  <2> QED  BY <1>4, <2>2 DEF Transaction
<1>7. Write(r)
  BY <1>3, <1>5, <1>6
<1> DEFINE copy == req[r].copy
           row == Updated(tx[req[r].tx], copy, req[r].write)
<1>8. req[r].pc = "write" /\ req[r].tx # None /\ tx' = [tx EXCEPT ![req[r].tx] = row]
  BY <1>7 DEF Write, OnTransaction, Stored
<1> HIDE DEF row
<1>9. req[r].tx = t
  <2> SUFFICES ASSUME req[r].tx # t PROVE FALSE
    OBVIOUS
  <2>1. tx'[t] = tx[t]
    BY <1>4, <1>8 DEF TypeOK
  <2> QED  BY <1>4, <2>1 DEF Transaction
<1>10. tx'[t] = row
  BY <1>4, <1>8, <1>9 DEF TypeOK
<1>11. req[r].act = "change" /\ copy \in Transaction
  BY <1>4, <1>8 DEF Sane, Shaped, Course, OfTx
<1>12. row.st \in {tx[t].st, copy.st} /\ row.deleted \in {tx[t].deleted, copy.deleted}
  BY <1>4, <1>9, <1>11, UpdatedRow DEF row
<1>13. req[r].crossed
  BY <1>4, <1>9, <1>10, <1>11, <1>12 DEF Sane, Onwards, Transaction
<1> QED  BY <1>8, <1>9, <1>13

\* A confirmation or a deletion is undone only by the save of a copy that was
\* read before it.
THEOREM LedgerUndoneOnlyCrossed == Spec => UndoneOnlyCrossed
<1>1. LedgerInv /\ [Next]_vars =>
        [\A t \in Transactions :
           /\ Exists(t)
           /\ \/ tx[t].deleted /\ ~tx'[t].deleted
              \/ tx[t].st = "EFFECTIVE" /\ tx'[t].st = "PENDING"
           => \E r \in Requests : req[r].pc = "write" /\ req[r].tx = t /\ req[r].crossed]_vars
  BY UndoneStep
<1> QED  BY <1>1, LedgerInductive, PTL DEF Spec, UndoneOnlyCrossed

-----------------------------------------------------------------------------
(* Sums over finite sets *)

\* The element that a sum takes off s first, and the sum of f over S.
Pick(s) == CHOOSE x \in s : TRUE
Total(f, S) == MapThenSumSet(LAMBDA x : f[x], S)

\* g sums f over the subsets of S, one picked element at a time.
Sums(g, f, S) ==
  g = [s \in SUBSET S |-> IF s = {} THEN 0 ELSE f[Pick(s)] + g[s \ {Pick(s)}]]

\* Among finite sets there is one that contains no other: induction over
\* finite sets is by this smallest counterexample.
LEMMA SmallestSet ==
  ASSUME NEW S, IsFiniteSet(S), NEW T, T \subseteq SUBSET S, T # {}
  PROVE  \E B \in T : \A C \in T : C \subseteq B => C = B
<1> DEFINE R == StrictSubsetOrdering(S)
<1>1. IsWellFoundedOn(R, FiniteSubsetsOf(S))
  BY FS_StrictSubsetOrderingWellFounded
<1>2. T \subseteq FiniteSubsetsOf(S)
  BY FS_Subset DEF FiniteSubsetsOf
<1> HIDE DEF R
<1>3. PICK B \in T : \A C \in T : ~(<<C, B>> \in R)
  BY <1>1, <1>2, WFMin
<1>4. ASSUME NEW C \in T, C \subseteq B, C # B PROVE FALSE
  <2>1. <<C, B>> \in R
    BY <1>4 DEF R, StrictSubsetOrdering
  <2> QED  BY <1>3, <2>1
<1> QED  BY <1>3, <1>4

LEMMA PickIn ==
  ASSUME NEW s, s # {}
  PROVE  Pick(s) \in s /\ s \ {Pick(s)} \subseteq s /\ s \ {Pick(s)} # s
BY DEF Pick

LEMMA SumsAt ==
  ASSUME NEW f, NEW S, NEW g, Sums(g, f, S), NEW s \in SUBSET S
  PROVE  g[s] = IF s = {} THEN 0 ELSE f[Pick(s)] + g[s \ {Pick(s)}]
BY DEF Sums

\* Two sums of f agree wherever both are defined.
LEMMA SumsAgree ==
  ASSUME NEW f, NEW S, IsFiniteSet(S), NEW T, NEW g, NEW h, Sums(g, f, S), Sums(h, f, T),
         NEW s, s \subseteq S, s \subseteq T
  PROVE  g[s] = h[s]
<1> DEFINE Bad == {u \in SUBSET s : g[u] # h[u]}
<1>1. SUFFICES ASSUME Bad # {} PROVE FALSE
  OBVIOUS
<1>2. Bad \subseteq SUBSET S
  OBVIOUS
<1>3. PICK u \in Bad : \A v \in Bad : v \subseteq u => v = u
  <2> HIDE DEF Bad
  <2> QED  BY <1>1, <1>2, SmallestSet
<1>4. u \in SUBSET S /\ u \in SUBSET T /\ g[u] # h[u]
  OBVIOUS
<1>5. g[u] = IF u = {} THEN 0 ELSE f[Pick(u)] + g[u \ {Pick(u)}]
  BY <1>4, SumsAt
<1>6. h[u] = IF u = {} THEN 0 ELSE f[Pick(u)] + h[u \ {Pick(u)}]
  BY <1>4, SumsAt
<1>7. u # {}
  BY <1>4, <1>5, <1>6
<1>8. u \ {Pick(u)} \notin Bad
  BY <1>3, <1>7, PickIn
<1>9. g[u \ {Pick(u)}] = h[u \ {Pick(u)}]
  BY <1>8
<1> QED  BY <1>4, <1>5, <1>6, <1>7, <1>9

LEMMA SumsExist ==
  ASSUME NEW f, NEW S, IsFiniteSet(S)
  PROVE  \E g : Sums(g, f, S)
<1> DEFINE Bad == {u \in SUBSET S : ~\E g : Sums(g, f, u)}
<1>1. SUFFICES ASSUME Bad # {} PROVE FALSE
  OBVIOUS
<1>2. PICK u \in Bad : \A v \in Bad : v \subseteq u => v = u
  <2>1. Bad \subseteq SUBSET S
    OBVIOUS
  <2> HIDE DEF Bad
  <2> QED  BY <1>1, <2>1, SmallestSet
<1>3. u \subseteq S /\ ~\E g : Sums(g, f, u)
  OBVIOUS
<1>4. \A v \in SUBSET u : v # u => \E g : Sums(g, f, v)
  BY <1>2
<1> DEFINE of(v) == CHOOSE g : Sums(g, f, v)
<1>5. \A v \in SUBSET u : v # u => Sums(of(v), f, v)
  BY <1>4
<1> HIDE DEF of
<1> DEFINE rest(v) == v \ {Pick(v)}
           g == [v \in SUBSET u |-> IF v = {} THEN 0 ELSE f[Pick(v)] + of(rest(v))[rest(v)]]
<1>6. ASSUME NEW v \in SUBSET u, v # {}, v # u PROVE of(v)[v] = g[v]
  <2>1. Sums(of(v), f, v) /\ Sums(of(rest(v)), f, rest(v))
    BY <1>5, <1>6, PickIn
  <2>2. of(v)[v] = f[Pick(v)] + of(v)[rest(v)]
    BY <1>6, <2>1, SumsAt
  <2>3. IsFiniteSet(v) /\ rest(v) \subseteq v
    BY <1>3, FS_Subset
  <2>4. of(v)[rest(v)] = of(rest(v))[rest(v)]
    <3> DEFINE w == rest(v)
    <3>1. w \subseteq v /\ Sums(of(w), f, w)
      BY <2>1, <2>3
    <3> HIDE DEF w
    <3> QED  BY <2>1, <2>3, <3>1, SumsAgree DEF w
  <2> QED  BY <1>6, <2>2, <2>4
<1>7. ASSUME NEW v \in SUBSET u, v # {} PROVE g[v] = f[Pick(v)] + g[rest(v)]
  <2>1. rest(v) \in SUBSET u /\ rest(v) # u
    BY <1>7, PickIn
  <2>2. of(rest(v))[rest(v)] = g[rest(v)]
    <3>1. CASE rest(v) # {}
      BY <1>6, <2>1, <3>1
    <3>2. CASE rest(v) = {}
      <4>1. Sums(of(rest(v)), f, rest(v))
        BY <1>5, <2>1
      <4> QED  BY <2>1, <3>2, <4>1, SumsAt
    <3> QED  BY <3>1, <3>2
  <2> QED  BY <1>7, <2>2
<1>8. g = [v \in SUBSET u |-> IF v = {} THEN 0 ELSE f[Pick(v)] + g[v \ {Pick(v)}]]
  <2>1. \A v \in SUBSET u : g[v] = IF v = {} THEN 0 ELSE f[Pick(v)] + g[v \ {Pick(v)}]
    BY <1>7
  <2>2. DOMAIN g = SUBSET u /\ g = [v \in DOMAIN g |-> g[v]]
    OBVIOUS
  <2> HIDE DEF g
  <2> QED  BY <2>1, <2>2
<1>9. Sums(g, f, u)
  <2> HIDE DEF g
  <2> QED  BY <1>8 DEF Sums
<1> QED  BY <1>3, <1>9

LEMMA TotalIsSum ==
  ASSUME NEW f, NEW S, IsFiniteSet(S), NEW T, NEW g, Sums(g, f, T), S \subseteq T
  PROVE  Total(f, S) = g[S]
<1> DEFINE iter == CHOOSE h : h = [s \in SUBSET S |-> IF s = {} THEN 0
                                    ELSE f[CHOOSE x \in s : TRUE] + h[s \ {CHOOSE x \in s : TRUE}]]
<1>1. Total(f, S) = iter[S]
  BY DEF Total, MapThenSumSet, MapThenFoldSet
<1>2. iter = CHOOSE h : Sums(h, f, S)
  BY DEF Sums, Pick
<1> HIDE DEF iter
<1>3. Sums(iter, f, S)
  BY <1>2, SumsExist
<1> QED  BY <1>1, <1>3, SumsAgree

LEMMA TotalStep ==
  ASSUME NEW f, NEW S, IsFiniteSet(S)
  PROVE  Total(f, S) = IF S = {} THEN 0 ELSE f[Pick(S)] + Total(f, S \ {Pick(S)})
<1>1. PICK g : Sums(g, f, S)
  BY SumsExist
<1>2. IsFiniteSet(S \ {Pick(S)}) /\ S \ {Pick(S)} \subseteq S
  BY FS_Subset
<1>3. Total(f, S) = g[S] /\ Total(f, S \ {Pick(S)}) = g[S \ {Pick(S)}]
  BY <1>1, <1>2, TotalIsSum
<1>4. g[S] = IF S = {} THEN 0 ELSE f[Pick(S)] + g[S \ {Pick(S)}]
  <2>1. S \in SUBSET S
    OBVIOUS
  <2> QED  BY <1>1, <2>1, SumsAt
<1> QED  BY <1>3, <1>4

\* What MapThenSumSet adds up.
LEMMA TotalInt ==
  ASSUME NEW f, NEW S, IsFiniteSet(S), \A x \in S : f[x] \in Int
  PROVE  Total(f, S) \in Int
<1> DEFINE Bad == {u \in SUBSET S : Total(f, u) \notin Int}
<1>1. SUFFICES ASSUME Bad # {} PROVE FALSE
  OBVIOUS
<1>2. PICK u \in Bad : \A v \in Bad : v \subseteq u => v = u
  <2>1. Bad \subseteq SUBSET S
    OBVIOUS
  <2> HIDE DEF Bad
  <2> QED  BY <1>1, <2>1, SmallestSet
<1>3. u \subseteq S /\ IsFiniteSet(u) /\ Total(f, u) \notin Int
  BY FS_Subset
<1>4. u # {} /\ Total(f, u) = f[Pick(u)] + Total(f, u \ {Pick(u)})
  BY <1>3, TotalStep
<1>5. Total(f, u \ {Pick(u)}) \in Int
  BY <1>2, <1>4, PickIn
<1>6. Pick(u) \in S
  BY <1>3, <1>4, PickIn
<1> QED  BY <1>3, <1>4, <1>5, <1>6

\* Sums of functions equal on S are equal, and the sum of a sum is the sum of both.
LEMMA TotalAdds ==
  ASSUME NEW f, NEW g, NEW h, NEW S, IsFiniteSet(S),
         \A x \in S : g[x] \in Int /\ h[x] \in Int /\ f[x] = g[x] + h[x]
  PROVE  Total(f, S) = Total(g, S) + Total(h, S)
<1> DEFINE Bad == {u \in SUBSET S : Total(f, u) # Total(g, u) + Total(h, u)}
<1>1. SUFFICES ASSUME Bad # {} PROVE FALSE
  OBVIOUS
<1>2. PICK u \in Bad : \A v \in Bad : v \subseteq u => v = u
  <2>1. Bad \subseteq SUBSET S
    OBVIOUS
  <2> HIDE DEF Bad
  <2> QED  BY <1>1, <2>1, SmallestSet
<1>3. u \subseteq S /\ IsFiniteSet(u) /\ Total(f, u) # Total(g, u) + Total(h, u)
  BY FS_Subset
<1> DEFINE x == Pick(u)
           w == u \ {x}
<1>4. /\ Total(f, u) = IF u = {} THEN 0 ELSE f[x] + Total(f, w)
      /\ Total(g, u) = IF u = {} THEN 0 ELSE g[x] + Total(g, w)
      /\ Total(h, u) = IF u = {} THEN 0 ELSE h[x] + Total(h, w)
  BY <1>3, TotalStep
<1>5. u # {}
  BY <1>3, <1>4
<1>6. x \in S /\ w \notin Bad /\ w \subseteq S /\ IsFiniteSet(w)
  BY <1>2, <1>3, <1>5, PickIn, FS_Subset
<1>7. Total(f, w) = Total(g, w) + Total(h, w)
  BY <1>6
<1>8. Total(g, w) \in Int /\ Total(h, w) \in Int
  <2> HIDE DEF w
  <2> QED  BY <1>6, TotalInt
<1>9. g[x] \in Int /\ h[x] \in Int /\ f[x] = g[x] + h[x]
  BY <1>6
<1> HIDE DEF x, w
<1> QED  BY <1>3, <1>4, <1>5, <1>7, <1>8, <1>9

\* A function that is v at b and 0 elsewhere.
LEMMA TotalOfOne ==
  ASSUME NEW f, NEW S, IsFiniteSet(S), NEW b, NEW v \in Int,
         \A x \in S : f[x] = IF x = b THEN v ELSE 0
  PROVE  Total(f, S) = IF b \in S THEN v ELSE 0
<1> DEFINE Bad == {u \in SUBSET S : Total(f, u) # IF b \in u THEN v ELSE 0}
<1>1. SUFFICES ASSUME Bad # {} PROVE FALSE
  OBVIOUS
<1>2. PICK u \in Bad : \A w \in Bad : w \subseteq u => w = u
  <2>1. Bad \subseteq SUBSET S
    OBVIOUS
  <2> HIDE DEF Bad
  <2> QED  BY <1>1, <2>1, SmallestSet
<1>3. u \subseteq S /\ IsFiniteSet(u) /\ Total(f, u) # IF b \in u THEN v ELSE 0
  BY FS_Subset
<1>4. u # {} /\ Total(f, u) = f[Pick(u)] + Total(f, u \ {Pick(u)})
  BY <1>3, TotalStep
<1>5. Pick(u) \in u /\ u \ {Pick(u)} \notin Bad
  BY <1>2, <1>4, PickIn
<1>6. Total(f, u \ {Pick(u)}) = IF b \in u \ {Pick(u)} THEN v ELSE 0
  BY <1>5, <1>3
<1>7. f[Pick(u)] = IF Pick(u) = b THEN v ELSE 0
  BY <1>3, <1>5
<1> QED  BY <1>3, <1>4, <1>5, <1>6, <1>7

-----------------------------------------------------------------------------
(* Both summaries *)

Rows == {t \in Transactions : Exists(t)}

\* What the CHECKs of the table keep.
Sound == (\A t \in Rows : Accepted(tx[t])) /\ IsFiniteSet(Rows)

LEMMA StoredSound ==
  ASSUME LedgerInv, Sound, NEW r \in Requests, NEW row \in Transaction, Accepted(row),
         Stored(r, row), req[r].act \in OfTx
  PROVE  Sound'
<1>1. /\ tx'[req[r].tx] = row /\ \A t \in Transactions \ {req[r].tx} : tx'[t] = tx[t]
  BY StoredFields
<1>2. \A t \in Rows' : Accepted(tx'[t])
  BY <1>1 DEF Sound, Rows, Exists
<1>3. Rows' \subseteq Rows \cup {req[r].tx}
  BY <1>1 DEF Rows, Exists
<1>4. IsFiniteSet(Rows')
  BY <1>3, FS_AddElement, FS_Subset DEF Sound
<1> QED  BY <1>2, <1>4 DEF Sound

LEMMA NextSound == ASSUME LedgerInv, Sound, [Next]_vars PROVE Sound'
<1>1. CASE UNCHANGED tx
  BY <1>1 DEF Sound, Rows, Exists
<1>2. CASE tx' # tx
  <2>1. PICK r \in Requests : OfTransaction(r) \/ OfCategory(r) \/ GiveUp(r)
    BY <1>2 DEF Next, vars
  <2>2. Insert(r) \/ Write(r) \/ Commit(r)
    BY <1>2, <2>1 DEF OfTransaction, OfCategory, GiveUp, Create, Update, Confirm, Delete, Resolve,
       Compare, CreateCategory, Provision, Edit, Archive, Unarchive, Erase, BeginOn,
       CompareCategory, InsertCategory, WriteCategory, Check, EraseRow, Merge, Move, RemoveRow
  <2>3. TypeOK /\ Sane(r)
    BY DEF LedgerInv
  <2>4. CASE Insert(r)
    <3>1. /\ req[r].act \in OfTx /\ req[r].copy \in Transaction
          /\ Accepted(req[r].copy) /\ Stored(r, req[r].copy)
      BY <2>3, <2>4 DEF Insert, At, Sane, Shaped, OfTx
    <3> QED  BY <3>1, StoredSound
  <2>5. CASE Write(r)
    <3> DEFINE row == Updated(tx[req[r].tx], req[r].copy, req[r].write)
    <3>1. req[r].pc = "write" /\ req[r].tx # None /\ Accepted(row) /\ Stored(r, row)
      BY <2>5 DEF Write, OnTransaction
    <3>2. /\ req[r].act = "change" /\ req[r].act \in OfTx /\ req[r].tx \in Transactions
          /\ req[r].copy \in Transaction /\ Exists(req[r].tx)
      BY <2>3, <3>1, Fields DEF Sane, Shaped, Present, OfTx, Course
    <3>3. tx[req[r].tx] \in Transaction
      BY <2>3, <3>2 DEF TypeOK, Exists
    <3>4. row \in Transaction
      BY <3>2, <3>3, UpdatedRow
    <3> HIDE DEF row
    <3> QED  BY <3>1, <3>2, <3>4, StoredSound
  <2>6. CASE Commit(r)
    <3>1. /\ Removing(r)
          /\ tx' = [t \in Transactions |->
                      IF t \in req[r].rows THEN [tx[t] EXCEPT !.cat = req[r].target] ELSE tx[t]]
      BY <2>6 DEF Commit, At, Removing
    <3>2. \A t \in req[r].rows : Exists(t)
      BY <3>1 DEF LedgerInv, Holding
    <3>3. ASSUME NEW t \in Transactions, tx'[t] # None
          PROVE  Exists(t) /\ Accepted(tx[t]) => Accepted(tx'[t])
      <4>1. CASE t \in req[r].rows
        <5>1. tx'[t] = [tx[t] EXCEPT !.cat = req[r].target] /\ tx[t] \in Transaction
          BY <2>3, <3>1, <3>2, <4>1 DEF TypeOK, Exists
        <5>2. /\ tx'[t].type = tx[t].type /\ tx'[t].dest = tx[t].dest /\ tx'[t].acc = tx[t].acc
              /\ tx'[t].dir = tx[t].dir /\ tx'[t].deleted = tx[t].deleted
          BY <5>1 DEF Transaction
        <5> QED  BY <5>2 DEF Accepted, Valid
      <4>2. CASE t \notin req[r].rows
        BY <3>1, <4>2
      <4> QED  BY <4>1, <4>2
    <3>4. Rows' \subseteq Rows
      BY <3>1, <3>2 DEF Rows, Exists
    <3>5. \A t \in Rows' : Accepted(tx'[t])
      BY <3>3, <3>4 DEF Sound, Rows, Exists
    <3>6. IsFiniteSet(Rows')
      BY <3>4, FS_Subset DEF Sound
    <3> QED  BY <3>5, <3>6 DEF Sound
  <2> QED  BY <2>2, <2>4, <2>5, <2>6
<1> QED  BY <1>1, <1>2

LEMMA InitSound == ASSUME Init PROVE Sound
<1>1. Rows = {}
  BY DEF Init, Rows, Exists
<1> QED  BY <1>1, FS_EmptySet DEF Sound

-----------------------------------------------------------------------------

\* What one account gains by the transactions that count.
Gain(a, sts) == MapThenSumSet(LAMBDA t : Delta(tx[t], a), Counted(sts))

Deltas(a) == [t \in Transactions |-> Delta(tx[t], a)]

LEMMA GainIsTotal ==
  ASSUME NEW a, NEW sts, IsFiniteSet(Counted(sts))
  PROVE  Gain(a, sts) = Total(Deltas(a), Counted(sts))
<1> DEFINE C == Counted(sts)
           iter == CHOOSE h : h = [s \in SUBSET C |-> IF s = {} THEN 0
                                    ELSE Delta(tx[CHOOSE x \in s : TRUE], a)
                                         + h[s \ {CHOOSE x \in s : TRUE}]]
<1>1. Gain(a, sts) = iter[C]
  BY DEF Gain, MapThenSumSet, MapThenFoldSet
<1>2. \A s \in SUBSET C : s # {} => Deltas(a)[Pick(s)] = Delta(tx[Pick(s)], a)
  BY PickIn DEF Deltas, Counted
<1>3. \A h : Sums(h, Deltas(a), C) <=>
        h = [s \in SUBSET C |-> IF s = {} THEN 0
               ELSE Delta(tx[CHOOSE x \in s : TRUE], a) + h[s \ {CHOOSE x \in s : TRUE}]]
  <2> TAKE h
  <2> HIDE DEF C
  <2>1. [s \in SUBSET C |-> IF s = {} THEN 0 ELSE Deltas(a)[Pick(s)] + h[s \ {Pick(s)}]]
      = [s \in SUBSET C |-> IF s = {} THEN 0 ELSE Delta(tx[Pick(s)], a) + h[s \ {Pick(s)}]]
    BY <1>2
  <2> QED  BY <2>1 DEF Sums, Pick
<1>4. IsFiniteSet(C)
  OBVIOUS
<1> DEFINE Def(h) == h = [s \in SUBSET C |-> IF s = {} THEN 0
                            ELSE Delta(tx[CHOOSE x \in s : TRUE], a)
                                 + h[s \ {CHOOSE x \in s : TRUE}]]
<1>5. iter = CHOOSE h : Def(h)
  OBVIOUS
<1>6. Sums(iter, Deltas(a), C)
  <2>1. \A h : Sums(h, Deltas(a), C) <=> Def(h)
    BY <1>3
  <2> HIDE DEF iter, Def, C
  <2> QED  BY <1>4, <1>5, <2>1, SumsExist
<1> HIDE DEF iter, C
<1>7. C \subseteq C
  OBVIOUS
<1>8. Total(Deltas(a), C) = iter[C]
  BY <1>4, <1>6, <1>7, TotalIsSum
<1> QED  BY <1>1, <1>8 DEF C

\* What every account gains by the transactions of C.
Gains(C) == [a \in Accounts |-> Total(Deltas(a), C)]

LEMMA SummaryIsTotal ==
  ASSUME NEW sts, IsFiniteSet(Counted(sts))
  PROVE  UserSummary(Accounts, sts) = Total(Gains(Counted(sts)), Accounts)
<1> DEFINE iter == CHOOSE h : h = [s \in SUBSET Accounts |-> IF s = {} THEN 0
                                    ELSE Gain(CHOOSE x \in s : TRUE, sts)
                                         + h[s \ {CHOOSE x \in s : TRUE}]]
           f == Gains(Counted(sts))
<1>1. UserSummary(Accounts, sts) = iter[Accounts]
  <2>1. UserSummary(Accounts, sts) = MapThenSumSet(LAMBDA a : Gain(a, sts), Accounts)
    BY DEF UserSummary, Gain
  <2>2. MapThenSumSet(LAMBDA a : Gain(a, sts), Accounts) = iter[Accounts]
    BY DEF MapThenSumSet, MapThenFoldSet
  <2> QED  BY <2>1, <2>2
<1>2. \A s \in SUBSET Accounts : s # {} => f[Pick(s)] = Gain(Pick(s), sts)
  BY PickIn, GainIsTotal DEF Gains
<1> HIDE DEF f
<1>3. \A h : Sums(h, f, Accounts) <=>
        h = [s \in SUBSET Accounts |-> IF s = {} THEN 0
               ELSE Gain(CHOOSE x \in s : TRUE, sts) + h[s \ {CHOOSE x \in s : TRUE}]]
  <2> TAKE h
  <2>1. [s \in SUBSET Accounts |-> IF s = {} THEN 0 ELSE f[Pick(s)] + h[s \ {Pick(s)}]]
      = [s \in SUBSET Accounts |-> IF s = {} THEN 0 ELSE Gain(Pick(s), sts) + h[s \ {Pick(s)}]]
    BY <1>2
  <2> QED  BY <2>1 DEF Sums, Pick
<1> DEFINE Def(h) == h = [s \in SUBSET Accounts |-> IF s = {} THEN 0
                            ELSE Gain(CHOOSE x \in s : TRUE, sts)
                                 + h[s \ {CHOOSE x \in s : TRUE}]]
<1>4. iter = CHOOSE h : Def(h)
  OBVIOUS
<1>5. IsFiniteSet(Accounts) /\ Accounts \subseteq Accounts
  BY AccountsAssumption
<1>6. Sums(iter, f, Accounts)
  <2>1. \A h : Sums(h, f, Accounts) <=> Def(h)
    BY <1>3
  <2> HIDE DEF iter, Def
  <2> QED  BY <1>4, <1>5, <2>1, SumsExist
<1> HIDE DEF iter
<1>7. Total(f, Accounts) = iter[Accounts]
  BY <1>5, <1>6, TotalIsSum
<1> QED  BY <1>1, <1>7 DEF f

\* What a row is worth to all accounts together.
Worth(row) ==
  IF row.type = "INCOME" \/ row.dir = "INCREASE" THEN 1
  ELSE IF row.type = "EXPENSE" \/ row.dir = "DECREASE" THEN -1 ELSE 0

LEMMA RowTotal ==
  ASSUME NEW row \in Transaction, Accepted(row), NEW f, \A a \in Accounts : f[a] = Delta(row, a)
  PROVE  Total(f, Accounts) = Worth(row)
<1>1. /\ row.acc \in Accounts /\ row.dest \in Accounts \cup {None} /\ row.type \in Kinds
      /\ row.dir \in Directions \cup {None}
      /\ row.type = "TRANSFER" => row.dest # None
      /\ (row.type = "ADJUSTMENT") <=> (row.dir # None)
      /\ None \notin Accounts /\ None \notin Directions
  BY Constants DEF Transaction, Accepted, Valid
<1> DEFINE v == IF row.type = "INCOME" \/ row.dir = "INCREASE" THEN 1 ELSE -1
           w == IF row.type = "TRANSFER" THEN 1 ELSE 0
           g == [a \in Accounts |-> IF a = row.acc THEN v ELSE 0]
           h == [a \in Accounts |-> IF a = row.dest THEN w ELSE 0]
<1>2. v \in Int /\ w \in Int
  OBVIOUS
<1>3. \A a \in Accounts : f[a] = g[a] + h[a] /\ g[a] \in Int /\ h[a] \in Int
  BY DEF Delta
<1>4. /\ \A a \in Accounts : g[a] = IF a = row.acc THEN v ELSE 0
      /\ \A a \in Accounts : h[a] = IF a = row.dest THEN w ELSE 0
  OBVIOUS
<1>5. v + (IF row.dest \in Accounts THEN w ELSE 0) = Worth(row)
  BY <1>1 DEF Worth, Kinds, Directions
<1> HIDE DEF g, h, v, w
<1>6. IsFiniteSet(Accounts)
  BY AccountsAssumption
<1>7. Total(f, Accounts) = Total(g, Accounts) + Total(h, Accounts)
  BY <1>3, <1>6, TotalAdds
<1>8. Total(g, Accounts) = v
  BY <1>1, <1>2, <1>4, <1>6, TotalOfOne
<1>9. Total(h, Accounts) = IF row.dest \in Accounts THEN w ELSE 0
  BY <1>2, <1>4, <1>6, TotalOfOne
<1> QED  BY <1>5, <1>7, <1>8, <1>9

\* The rows of C of one type, and of one direction.
Typed(C, type) == {t \in C : tx[t].type = type}
Directed(C, dir) == {t \in C : tx[t].dir = dir}

Net(C) ==
  Cardinality(Typed(C, "INCOME")) - Cardinality(Typed(C, "EXPENSE"))
    + Cardinality(Directed(C, "INCREASE")) - Cardinality(Directed(C, "DECREASE"))

One(b) == IF b THEN 1 ELSE 0

LEMMA CountStep ==
  ASSUME NEW C, IsFiniteSet(C), NEW x \in C, NEW k
  PROVE  /\ Cardinality(Typed(C, k)) = Cardinality(Typed(C \ {x}, k)) + One(tx[x].type = k)
         /\ Cardinality(Directed(C, k)) = Cardinality(Directed(C \ {x}, k)) + One(tx[x].dir = k)
         /\ Cardinality(Typed(C \ {x}, k)) \in Nat /\ Cardinality(Directed(C \ {x}, k)) \in Nat
<1> DEFINE T == Typed(C \ {x}, k)
           D == Directed(C \ {x}, k)
<1>1. IsFiniteSet(T) /\ IsFiniteSet(D) /\ x \notin T /\ x \notin D
  BY FS_Subset DEF Typed, Directed
<1>2. Typed(C, k) = IF tx[x].type = k THEN T \cup {x} ELSE T
  BY DEF Typed
<1>3. Directed(C, k) = IF tx[x].dir = k THEN D \cup {x} ELSE D
  BY DEF Directed
<1> HIDE DEF T, D
<1>4. Cardinality(T) \in Nat /\ Cardinality(D) \in Nat
  BY <1>1, FS_CardinalityType
<1>5. Cardinality(T \cup {x}) = Cardinality(T) + 1 /\ Cardinality(D \cup {x}) = Cardinality(D) + 1
  BY <1>1, FS_AddElement
<1> QED  BY <1>2, <1>3, <1>4, <1>5 DEF One, T, D

\* Taking one row off takes its worth off.
LEMMA NetStep ==
  ASSUME NEW C, IsFiniteSet(C), NEW x \in C, tx[x] \in Transaction, Accepted(tx[x])
  PROVE  Net(C) = Net(C \ {x}) + Worth(tx[x]) /\ Net(C \ {x}) \in Int
<1> DEFINE row == tx[x]
           B == C \ {x}
<1>1. ASSUME NEW k
      PROVE  /\ Cardinality(Typed(C, k)) = Cardinality(Typed(B, k)) + One(row.type = k)
             /\ Cardinality(Directed(C, k)) = Cardinality(Directed(B, k)) + One(row.dir = k)
             /\ Cardinality(Typed(B, k)) \in Nat /\ Cardinality(Directed(B, k)) \in Nat
  BY CountStep
<1> HIDE DEF B
<1>2. /\ Cardinality(Typed(C, "INCOME")) = Cardinality(Typed(B, "INCOME")) + One(row.type = "INCOME")
      /\ Cardinality(Typed(C, "EXPENSE")) = Cardinality(Typed(B, "EXPENSE")) + One(row.type = "EXPENSE")
      /\ Cardinality(Directed(C, "INCREASE"))
           = Cardinality(Directed(B, "INCREASE")) + One(row.dir = "INCREASE")
      /\ Cardinality(Directed(C, "DECREASE"))
           = Cardinality(Directed(B, "DECREASE")) + One(row.dir = "DECREASE")
      /\ Cardinality(Typed(B, "INCOME")) \in Nat /\ Cardinality(Typed(B, "EXPENSE")) \in Nat
      /\ Cardinality(Directed(B, "INCREASE")) \in Nat /\ Cardinality(Directed(B, "DECREASE")) \in Nat
  BY <1>1
<1>3. /\ row.type \in Kinds /\ row.dir \in Directions \cup {None} /\ None \notin Directions
      /\ (row.type = "ADJUSTMENT") <=> (row.dir # None)
  BY Constants DEF Transaction, Accepted, Valid
<1>4. Worth(row) = One(row.type = "INCOME") - One(row.type = "EXPENSE")
                   + One(row.dir = "INCREASE") - One(row.dir = "DECREASE")
  BY <1>3 DEF Worth, One, Kinds, Directions
<1>5. \A b \in BOOLEAN : One(b) \in Int
  BY DEF One
<1> DEFINE i == One(row.type = "INCOME")
           e == One(row.type = "EXPENSE")
           u == One(row.dir = "INCREASE")
           d == One(row.dir = "DECREASE")
<1>6. i \in Int /\ e \in Int /\ u \in Int /\ d \in Int
  BY <1>5
<1> HIDE DEF i, e, u, d, row
<1>7. Net(C) = Net(B) + Worth(row) /\ Net(B) \in Int
  BY <1>2, <1>4, <1>6 DEF Net, i, e, u, d
<1> QED  BY <1>7 DEF B, row

LEMMA NetOfNone == Net({}) = 0
<1>1. \A k : Typed({}, k) = {} /\ Directed({}, k) = {}
  BY DEF Typed, Directed
<1> QED  BY <1>1, FS_EmptySet DEF Net

\* The accounts together gain what the rows are worth.
LEMMA GainsAreNet ==
  ASSUME TypeOK, Sound, NEW C, C \subseteq Rows
  PROVE  Total(Gains(C), Accounts) = Net(C)
<1>0. IsFiniteSet(Accounts) /\ IsFiniteSet(Rows)
  BY AccountsAssumption DEF Sound
<1> DEFINE Bad == {u \in SUBSET Rows : Total(Gains(u), Accounts) # Net(u)}
<1>1. SUFFICES ASSUME Bad # {} PROVE FALSE
  OBVIOUS
<1>2. PICK u \in Bad : \A w \in Bad : w \subseteq u => w = u
  <2>1. Bad \subseteq SUBSET Rows
    OBVIOUS
  <2> HIDE DEF Bad
  <2> QED  BY <1>0, <1>1, <2>1, SmallestSet
<1>3. u \subseteq Rows /\ IsFiniteSet(u) /\ Total(Gains(u), Accounts) # Net(u)
  BY <1>0, FS_Subset
<1>4. u # {}
  <2> SUFFICES ASSUME u = {} PROVE FALSE
    OBVIOUS
  <2>1. \A a \in Accounts : Gains(u)[a] = IF a = None THEN 0 ELSE 0
    BY <1>3, TotalStep DEF Gains
  <2>2. Total(Gains(u), Accounts) = IF None \in Accounts THEN 0 ELSE 0
    BY <1>0, <2>1, TotalOfOne
  <2> QED  BY <1>3, <2>2, NetOfNone
<1> DEFINE x == Pick(u)
           w == u \ {x}
           row == tx[x]
           f == [a \in Accounts |-> Delta(row, a)]
<1>5. x \in u /\ x \in Rows /\ x \in Transactions /\ w \subseteq Rows /\ w \notin Bad /\ IsFiniteSet(w)
  BY <1>2, <1>3, <1>4, PickIn, FS_Subset DEF Rows
<1>6. row \in Transaction /\ Accepted(row)
  BY <1>5 DEF TypeOK, Rows, Exists, Sound
<1>7. Total(Gains(w), Accounts) = Net(w)
  BY <1>5
<1>8. \A a : \A t \in Transactions : Deltas(a)[t] = Delta(tx[t], a) /\ Delta(tx[t], a) \in Int
  BY DEF Deltas, Delta
<1>9. \A a : Total(Deltas(a), w) \in Int
  <2> HIDE DEF w
  <2>1. \A t \in w : t \in Transactions
    BY <1>5 DEF Rows
  <2> QED  BY <1>5, <1>8, <2>1, TotalInt
<1>10. \A a : Total(Deltas(a), u) = Deltas(a)[x] + Total(Deltas(a), w)
  BY <1>3, <1>4, TotalStep
<1>11. \A a \in Accounts :
         Gains(w)[a] \in Int /\ f[a] \in Int /\ Gains(u)[a] = f[a] + Gains(w)[a]
  BY <1>5, <1>8, <1>9, <1>10 DEF Gains
<1>12. \A a \in Accounts : f[a] = Delta(row, a)
  OBVIOUS
<1> HIDE DEF f, w
<1>13. Total(Gains(u), Accounts) = Total(f, Accounts) + Total(Gains(w), Accounts)
  BY <1>0, <1>11, TotalAdds
<1> HIDE DEF row
<1>14. Total(f, Accounts) = Worth(row)
  BY <1>6, <1>12, RowTotal
<1>15. Net(u) = Net(w) + Worth(row) /\ Net(w) \in Int
  BY <1>3, <1>5, <1>6, NetStep DEF w, row
<1>16. Worth(row) \in Int
  BY DEF Worth
<1> QED  BY <1>3, <1>7, <1>13, <1>14, <1>15, <1>16

LEMMA SummariesOfSound == ASSUME TypeOK, Sound PROVE SummariesAgree
<1> SUFFICES ASSUME NEW sts \in Horizons
             PROVE  UserSummary(Accounts, sts)
                      = TypeSummary("INCOME", sts) - TypeSummary("EXPENSE", sts)
                        + Adjusted("INCREASE", sts) - Adjusted("DECREASE", sts)
  BY DEF SummariesAgree
<1> DEFINE C == Counted(sts)
<1>1. C \subseteq Rows /\ IsFiniteSet(C)
  BY FS_Subset DEF Counted, Rows, Sound
<1>2. UserSummary(Accounts, sts) = Total(Gains(C), Accounts)
  BY <1>1, SummaryIsTotal
<1>3. Total(Gains(C), Accounts) = Net(C)
  <2> HIDE DEF C
  <2> QED  BY <1>1, GainsAreNet
<1>4. Net(C) = TypeSummary("INCOME", sts) - TypeSummary("EXPENSE", sts)
               + Adjusted("INCREASE", sts) - Adjusted("DECREASE", sts)
  BY DEF Net, Typed, Directed, TypeSummary, Adjusted
<1> QED  BY <1>2, <1>3, <1>4

\* The total over all accounts is income less expense, corrected by the
\* adjustments, for any number of accounts and transactions.
THEOREM LedgerSummariesAgree == Spec => []SummariesAgree
<1>1. Init => Sound
  BY InitSound
<1>2. LedgerInv /\ Sound /\ [Next]_vars => Sound'
  BY NextSound
<1>3. LedgerInv /\ Sound => SummariesAgree
  BY SummariesOfSound DEF LedgerInv
<1> QED  BY <1>1, <1>2, <1>3, LedgerInductive, PTL DEF Spec

-----------------------------------------------------------------------------
(* Part two: the accounts.                                                 *)

\* The request works on an account it has read.
Bound(x) ==
  \/ x.pc \in {"fill", "decide", "others", "unset", "clearUnset", "save",
               "write", "put"}
  \/ x.pc = "clear" /\ x.act \in {"setDefault", "archive", "unarchive"}
  \/ x.pc = "fillList" /\ x.act = "archive"

\* An account that was read exists and is never saved as absent; a set-default
\* saves the account as the default; an insertion that does not make the default
\* has seen another account.
HeldBy(x) ==
  /\ Bound(x) => x.acc \in Accounts /\ Acc!Exists(x.acc) /\ x.copy.st # "absent"
  /\ x.pc = "fillList" => x.rows \in [Accounts -> Acc!Row]
  /\ x.pc = "others" => x.act = "archive"
  /\ x.pc \in {"unset", "clearUnset"} => x.act = "setDefault"
  /\ (x.act = "setDefault" /\ x.pc \in {"unset", "clearUnset", "save", "write"})
       => x.copy.def
  /\ x.pc = "insert" => /\ x.acc \in Accounts
                        /\ x.copy.st = "active"
                        /\ x.copy.def \/ \E a \in Accounts : Acc!Exists(a)

Held == \A r \in Requests : HeldBy(serving[r])

CachedExist ==
  \A a \in Accounts : entry[a] # NoEntry => entry[a].st # "absent"

\* A copy that is not stale, and an entry that is not old, knows the default.
CurrentOf(x) ==
  ~x.stale =>
    /\ Bound(x) => (account[x.acc].def => x.copy.def)
    /\ x.pc = "fillList" => \A a \in Accounts : account[a].def => x.rows[a].def

Current == \A r \in Requests : CurrentOf(serving[r])

CachedCurrent ==
  \A a \in Accounts : entry[a] # NoEntry /\ a \notin old => (account[a].def => entry[a].def)

AccountsInv ==
  /\ Acc!TypeOK /\ Held /\ CachedExist /\ Acc!DefaultKept
  /\ Current /\ CachedCurrent

\* A request between unsetting the old default and writing the new one.
MidwayOf(x) ==
  /\ x.act = "setDefault"
  /\ \/ x.pc \in {"clearUnset", "save"}
     \/ x.pc = "write" /\ "def" \in x.write

-----------------------------------------------------------------------------
LEMMA IdleIsRequest ==
  /\ Acc!Idle \in Acc!Request /\ HeldBy(Acc!Idle) /\ CurrentOf(Acc!Idle)
  /\ ~MidwayOf(Acc!Idle)
  BY DEF Acc!Idle, Acc!Absent, Acc!Request, Acc!Row, Acc!Acts, HeldBy, Bound, CurrentOf, MidwayOf

LEMMA InitAccountsInv == Acc!Init => AccountsInv
<1> SUFFICES ASSUME Acc!Init PROVE AccountsInv
  OBVIOUS
<1>1. Acc!TypeOK
  <2>1. account \in [Accounts -> Acc!Row] /\ entry \in [Accounts -> Acc!Row \cup {NoEntry}]
    BY DEF Acc!Init, Acc!Absent, Acc!Row
  <2>2. serving \in [Requests -> Acc!Request]
    BY IdleIsRequest DEF Acc!Init
  <2> QED  BY <2>1, <2>2 DEF Acc!Init, Acc!TypeOK
<1>2. Held /\ CachedExist /\ Current /\ CachedCurrent
  BY IdleIsRequest DEF Acc!Init, Held, CachedExist, Current, CachedCurrent
<1>3. Acc!DefaultKept
  BY DEF Acc!Init, Acc!DefaultKept, Acc!Defaults, Acc!Exists, Acc!Absent
<1> QED  BY <1>1, <1>2, <1>3 DEF AccountsInv

\* A step of one request that leaves the table alone.
LEMMA QuietStep ==
  ASSUME AccountsInv, NEW r \in Requests, NEW x \in Acc!Request,
         serving' = [serving EXCEPT ![r] = x], account' = account,
         HeldBy(x), CurrentOf(x), torn' \in BOOLEAN, torn => torn',
         MidwayOf(serving[r]) => MidwayOf(x) \/ torn' \/ Acc!Defaults # {},
         entry' \in [Accounts -> Acc!Row \cup {NoEntry}], CachedExist', CachedCurrent',
         list' \in (SUBSET Accounts) \cup {NoEntry}, old' \subseteq Accounts
  PROVE  AccountsInv'
<1>1. Acc!TypeOK'
  BY DEF AccountsInv, Acc!TypeOK
<1>2. \A q \in Requests : serving'[q] = IF q = r THEN x ELSE serving[q]
  BY DEF AccountsInv, Acc!TypeOK
<1>3. Held'
  BY <1>2 DEF AccountsInv, Held, HeldBy, Bound, Acc!Exists
<1>4. \A q \in Requests : /\ Acc!Midway(q) <=> MidwayOf(serving[q])
                          /\ Acc!Midway(q)' <=> MidwayOf(serving'[q])
  BY DEF Acc!Midway, MidwayOf
<1>5. Acc!DefaultKept'
  BY <1>2, <1>4 DEF AccountsInv, Acc!DefaultKept, Acc!Defaults, Acc!Exists
<1>6. Current'
  BY <1>2 DEF AccountsInv, Current, CurrentOf, Bound
<1> QED  BY <1>1, <1>3, <1>5, <1>6 DEF AccountsInv

\* What TypeOK and Held say of one request.
LEMMA OfRequest ==
  ASSUME AccountsInv, NEW r \in Requests
  PROVE  /\ serving[r] \in Acc!Request /\ HeldBy(serving[r]) /\ CurrentOf(serving[r])
         /\ serving[r].act \in Acc!Acts /\ serving[r].acc \in Accounts \cup {NoAccount}
         /\ serving[r].copy \in Acc!Row
         /\ serving[r].copy = [st |-> serving[r].copy.st, def |-> serving[r].copy.def]
         /\ serving[r].write \in SUBSET {"st", "def"}
         /\ serving[r] = [act |-> serving[r].act, acc |-> serving[r].acc, copy |-> serving[r].copy,
                      pc |-> serving[r].pc, write |-> serving[r].write, rows |-> serving[r].rows,
                      stale |-> serving[r].stale]
         /\ serving[r].rows \in [Accounts -> Acc!Row] \cup {NoRows}
<1>1. serving[r] \in Acc!Request /\ HeldBy(serving[r]) /\ CurrentOf(serving[r])
  BY DEF AccountsInv, Acc!TypeOK, Held, Current
<1>2. serving[r].copy \in Acc!Row
  BY <1>1 DEF Acc!Request
<1> QED  BY <1>1, <1>2 DEF Acc!Request, Acc!Row

\* A request that ends.
LEMMA FinishStep ==
  ASSUME AccountsInv, NEW r \in Requests, Acc!Finish(r), account' = account, torn' \in BOOLEAN,
         torn => torn', MidwayOf(serving[r]) => torn' \/ Acc!Defaults # {},
         entry' \in [Accounts -> Acc!Row \cup {NoEntry}], CachedExist', CachedCurrent',
         list' \in (SUBSET Accounts) \cup {NoEntry}, old' \subseteq Accounts
  PROVE  AccountsInv'
  BY IdleIsRequest, QuietStep DEF Acc!Finish

\* What the quiet steps keep of the cache.
LEMMA SameCache ==
  ASSUME AccountsInv, UNCHANGED <<account, Acc!cache, torn>>
  PROVE  /\ torn' \in BOOLEAN /\ (torn => torn')
         /\ entry' \in [Accounts -> Acc!Row \cup {NoEntry}] /\ CachedExist' /\ CachedCurrent'
         /\ list' \in (SUBSET Accounts) \cup {NoEntry} /\ old' \subseteq Accounts
  BY DEF AccountsInv, Acc!TypeOK, CachedExist, CachedCurrent, Acc!cache

LEMMA ReadAccountsInv ==
  ASSUME AccountsInv, NEW r \in Requests, Acc!Read(r)
  PROVE  AccountsInv'
<1>1. PICK act \in {"setDefault", "archive", "unarchive"}, a \in Accounts :
        /\ Acc!Exists(a)
        /\ serving' = [serving EXCEPT ![r] =
             [Acc!Idle EXCEPT !.act = act, !.acc = a,
                          !.copy = IF entry[a] = NoEntry THEN account[a] ELSE entry[a],
                          !.pc = IF entry[a] = NoEntry THEN "fill" ELSE "decide",
                          !.stale = a \in old]]
  BY DEF Acc!Read
<1>2. PICK c, p, b : /\ c = IF entry[a] = NoEntry THEN account[a] ELSE entry[a]
                     /\ p = IF entry[a] = NoEntry THEN "fill" ELSE "decide"
                     /\ b = (a \in old)
  OBVIOUS
<1> DEFINE x == [Acc!Idle EXCEPT !.act = act, !.acc = a, !.copy = c, !.pc = p, !.stale = b]
<1>3. c \in Acc!Row /\ c.st # "absent" /\ (~b => (account[a].def => c.def))
  BY <1>1, <1>2 DEF AccountsInv, Acc!TypeOK, CachedExist, CachedCurrent, Acc!Exists
<1>4. x.act = act /\ x.acc = a /\ x.copy = c /\ x.pc = p /\ x.stale = b
  BY DEF Acc!Idle
<1>5. b \in BOOLEAN /\ p \in {"fill", "decide"}
  BY <1>2
<1>6. serving[r].pc = "idle"
  BY DEF Acc!Read
<1>7. UNCHANGED <<account, Acc!cache, torn>> /\ serving' = [serving EXCEPT ![r] = x]
  BY <1>1, <1>2 DEF Acc!Read
<1>8. x \in Acc!Request
  BY <1>3, <1>5 DEF Acc!Idle, Acc!Request, Acc!Acts
<1> HIDE DEF x
<1>9. HeldBy(x) /\ CurrentOf(x)
  BY <1>1, <1>3, <1>4, <1>5 DEF HeldBy, Bound, CurrentOf
<1> QED  BY <1>6, <1>7, <1>8, <1>9, SameCache, QuietStep DEF MidwayOf

\* A copy that is put in the cache is as old as the request says.
LEMMA PutCached ==
  ASSUME AccountsInv, NEW r \in Requests, Bound(serving[r]), account' = account,
         entry' = [entry EXCEPT ![serving[r].acc] = serving[r].copy],
         old' = Acc!Aged(r, {serving[r].acc})
  PROVE  /\ entry' \in [Accounts -> Acc!Row \cup {NoEntry}] /\ old' \subseteq Accounts
         /\ CachedExist' /\ CachedCurrent'
<1>1. /\ HeldBy(serving[r]) /\ CurrentOf(serving[r]) /\ serving[r].copy \in Acc!Row
      /\ serving[r].acc \in Accounts /\ serving[r].copy.st # "absent"
  BY OfRequest DEF HeldBy
<1>2. /\ entry' \in [Accounts -> Acc!Row \cup {NoEntry}] /\ CachedExist'
      /\ \A a \in Accounts : entry'[a] = IF a = serving[r].acc THEN serving[r].copy ELSE entry[a]
      /\ old' \subseteq Accounts
  BY <1>1 DEF AccountsInv, Acc!TypeOK, CachedExist, Acc!Aged
<1>3. CachedCurrent'
  BY <1>1, <1>2 DEF AccountsInv, CachedCurrent, CurrentOf, Acc!Aged
<1> QED  BY <1>2, <1>3

LEMMA FillAccountsInv ==
  ASSUME AccountsInv, NEW r \in Requests, Acc!Fill(r)
  PROVE  AccountsInv'
<1> DEFINE x == [serving[r] EXCEPT !.pc = "decide"]
<1>1. serving' = [serving EXCEPT ![r] = x] /\ serving[r].pc = "fill"
  BY OfRequest DEF Acc!Fill, Acc!Goto
<1>2. x \in Acc!Request /\ HeldBy(x) /\ CurrentOf(x)
  <2>1. serving[r] \in Acc!Request /\ HeldBy(serving[r]) /\ CurrentOf(serving[r])
    BY OfRequest
  <2>2. /\ x \in Acc!Request /\ x.act = serving[r].act /\ x.acc = serving[r].acc
        /\ x.copy = serving[r].copy /\ x.stale = serving[r].stale /\ x.pc = "decide"
    BY <2>1 DEF Acc!Request
  <2> HIDE DEF x
  <2> QED  BY <1>1, <2>1, <2>2 DEF HeldBy, Bound, CurrentOf
<1>3. /\ entry' \in [Accounts -> Acc!Row \cup {NoEntry}] /\ old' \subseteq Accounts
      /\ CachedExist' /\ CachedCurrent'
  BY <1>1, PutCached DEF Acc!Fill, Bound
<1>4. ~MidwayOf(serving[r])
  BY <1>1 DEF MidwayOf
<1> HIDE DEF x
<1> QED  BY <1>1, <1>2, <1>3, <1>4, QuietStep DEF Acc!Fill, AccountsInv, Acc!TypeOK

LEMMA ReadListAccountsInv ==
  ASSUME AccountsInv, NEW r \in Requests, Acc!ReadList(r)
  PROVE  AccountsInv'
<1>1. PICK all \in BOOLEAN :
        serving' = [serving EXCEPT ![r] =
            [Acc!Idle EXCEPT !.act = "list", !.pc = "fillList",
                         !.write = IF all THEN {"st"} ELSE {}, !.rows = account]]
  BY DEF Acc!ReadList
<1> DEFINE x == [Acc!Idle EXCEPT !.act = "list", !.pc = "fillList",
                         !.write = IF all THEN {"st"} ELSE {}, !.rows = account]
<1>2. x \in Acc!Request /\ HeldBy(x) /\ CurrentOf(x)
  BY DEF Acc!Idle, Acc!Absent, Acc!Row, Acc!Request, Acc!Acts, HeldBy, Bound, CurrentOf,
         AccountsInv, Acc!TypeOK
<1>3. ~MidwayOf(serving[r])
  BY DEF Acc!ReadList, MidwayOf
<1> HIDE DEF x
<1> QED  BY <1>1, <1>2, <1>3, SameCache, QuietStep DEF x, Acc!ReadList

\* A request that goes on with the account changed.
LEMMA ChangedRequest ==
  ASSUME AccountsInv, NEW r \in Requests, NEW st \in {"active", "archived"},
         NEW def \in BOOLEAN, NEW phase \in {"unset", "save", "clear"},
         phase = "unset" => serving[r].act = "setDefault",
         phase = "clear" \/ def \/ serving[r].act # "setDefault",
         ~serving[r].stale => (account[serving[r].acc].def => def),
         Acc!Exists(serving[r].acc), serving[r].acc \in Accounts, Acc!Changed(r, st, def, phase)
  PROVE  \E x \in Acc!Request :
           /\ serving' = [serving EXCEPT ![r] = x] /\ HeldBy(x) /\ CurrentOf(x)
           /\ x.act = serving[r].act /\ x.acc = serving[r].acc /\ x.pc = phase
           /\ x.write = {}
<1> DEFINE x == [act |-> serving[r].act, acc |-> serving[r].acc,
                 copy |-> [st |-> st, def |-> def],
                 pc |-> phase, write |-> {}, rows |-> NoRows, stale |-> serving[r].stale]
<1>1. x = [act |-> serving[r].act, acc |-> serving[r].acc, copy |-> [st |-> st, def |-> def],
           pc |-> phase, write |-> {}, rows |-> NoRows, stale |-> serving[r].stale]
  OBVIOUS
<1>2. serving' = [serving EXCEPT ![r] = x]
  BY DEF Acc!Changed
<1>3. x \in Acc!Request
  BY OfRequest DEF Acc!Request, Acc!Row
<1>4. HeldBy(x) /\ CurrentOf(x)
  BY DEF HeldBy, CurrentOf
<1> HIDE DEF x
<1> QED  BY <1>1, <1>2, <1>3, <1>4

LEMMA FillListAccountsInv ==
  ASSUME AccountsInv, NEW r \in Requests, Acc!FillList(r)
  PROVE  AccountsInv'
<1> DEFINE rows == serving[r].rows
           listed == IF serving[r].write # {} THEN {a \in Accounts : rows[a].st # "absent"}
                     ELSE Acc!Active(rows)
<1>1. serving[r].pc = "fillList" /\ rows \in [Accounts -> Acc!Row]
  BY OfRequest DEF Acc!FillList, HeldBy
<1>2. /\ list' = IF serving[r].write # {} THEN list ELSE listed
      /\ entry' = [a \in Accounts |-> IF a \in listed THEN rows[a] ELSE entry[a]]
      /\ old' = Acc!Aged(r, listed)
  BY DEF Acc!FillList
<1>3. /\ \A a \in listed : rows[a].st # "absent"
      /\ listed \in SUBSET Accounts
  BY DEF Acc!Active
<1>4. entry' \in [Accounts -> Acc!Row \cup {NoEntry}]
  BY <1>1, <1>2 DEF AccountsInv, Acc!TypeOK
<1>5. list' \in (SUBSET Accounts) \cup {NoEntry}
  BY <1>2, <1>3 DEF AccountsInv, Acc!TypeOK
<1>6. CachedExist' /\ CachedCurrent' /\ old' \subseteq Accounts
  <2>1. CurrentOf(serving[r]) /\ account' = account
    BY OfRequest DEF Acc!FillList
  <2>2. CachedCurrent'
    BY <1>1, <1>2, <1>3, <2>1 DEF AccountsInv, CachedCurrent, CurrentOf, Acc!Aged
  <2> QED  BY <1>2, <1>3, <2>2 DEF AccountsInv, CachedExist, Acc!Aged, Acc!TypeOK
<1>7. ~MidwayOf(serving[r])
  BY <1>1 DEF MidwayOf
<1>8. account' = account /\ torn' = torn /\ torn' \in BOOLEAN
  BY DEF Acc!FillList, AccountsInv, Acc!TypeOK
<1>9. CASE Acc!Finish(r)
  BY <1>4, <1>5, <1>6, <1>7, <1>8, <1>9, FinishStep
<1>10. CASE serving[r].act = "archive" /\ Acc!Changed(r, "archived", serving[r].copy.def, "save")
  <2>1. HeldBy(serving[r]) /\ CurrentOf(serving[r]) /\ serving[r].copy.def \in BOOLEAN
    BY OfRequest DEF Acc!Row
  <2>2. /\ serving[r].acc \in Accounts /\ Acc!Exists(serving[r].acc)
        /\ ~serving[r].stale => (account[serving[r].acc].def => serving[r].copy.def)
    BY <1>1, <1>10, <2>1 DEF HeldBy, Bound, CurrentOf
  <2> QED
    BY <1>10, <2>1, <2>2, <1>4, <1>5, <1>6, <1>7, <1>8, ChangedRequest, QuietStep
<1> HIDE DEF rows, listed
<1> QED  BY <1>9, <1>10 DEF Acc!FillList

LEMMA DecideAccountsInv ==
  ASSUME AccountsInv, NEW r \in Requests,
         Acc!DecideDefault(r) \/ Acc!DecideArchive(r) \/ Acc!CountOthers(r) \/ Acc!DecideUnarchive(r)
  PROVE  AccountsInv'
<1>1. /\ serving[r].pc \in {"decide", "others"}
      /\ UNCHANGED <<account, Acc!cache, torn>>
  BY DEF Acc!DecideDefault, Acc!DecideArchive, Acc!CountOthers, Acc!DecideUnarchive
<1>2. /\ HeldBy(serving[r]) /\ serving[r].copy \in Acc!Row /\ serving[r] \in Acc!Request
      /\ serving[r].copy.def \in BOOLEAN /\ serving[r].copy.st \in {"active", "archived"}
      /\ serving[r].pc = "others" => serving[r].act = "archive"
      /\ serving[r].acc \in Accounts /\ Acc!Exists(serving[r].acc) /\ serving[r].copy.st # "absent"
      /\ ~MidwayOf(serving[r])
      /\ ~serving[r].stale => (account[serving[r].acc].def => serving[r].copy.def)
  BY <1>1, OfRequest DEF Acc!Row, HeldBy, Bound, CurrentOf, MidwayOf
<1>3. CASE Acc!Finish(r)
  BY <1>1, <1>2, <1>3, SameCache, FinishStep
<1>4. CASE \E st \in {"active", "archived"}, def \in BOOLEAN, phase \in {"unset", "save"} :
             /\ Acc!Changed(r, st, def, phase)
             /\ def \/ serving[r].act # "setDefault"
             /\ serving[r].copy.def => def
             /\ phase = "unset" => serving[r].act = "setDefault"
  BY <1>1, <1>2, <1>4, SameCache, ChangedRequest, QuietStep
<1>5. CASE Acc!Goto(r, "others") /\ serving[r].act = "archive"
  <2> DEFINE x == [serving[r] EXCEPT !.pc = "others"]
  <2>1. x \in Acc!Request /\ HeldBy(x) /\ CurrentOf(x)
    BY <1>2, <1>5 DEF Acc!Request, HeldBy, Bound, CurrentOf
  <2>2. serving' = [serving EXCEPT ![r] = x]
    BY <1>5 DEF Acc!Goto
  <2> HIDE DEF x
  <2> QED  BY <2>1, <2>2, <1>1, <1>2, SameCache, QuietStep
<1>6. CASE serving' = [serving EXCEPT ![r] =
             [serving[r] EXCEPT !.pc = "fillList", !.rows = account]]
  <2> DEFINE x == [serving[r] EXCEPT !.pc = "fillList", !.rows = account]
  <2>1. x \in Acc!Request /\ HeldBy(x) /\ CurrentOf(x)
    BY <1>2 DEF Acc!Request, HeldBy, Bound, CurrentOf, AccountsInv, Acc!TypeOK
  <2>2. serving' = [serving EXCEPT ![r] = x]
    BY <1>6
  <2> HIDE DEF x
  <2> QED  BY <2>1, <2>2, <1>1, <1>2, SameCache, QuietStep
<1> QED
  <2>1. CASE Acc!DecideDefault(r)
    BY <2>1, <1>2, <1>3, <1>4 DEF Acc!DecideDefault
  <2>2. CASE Acc!DecideArchive(r)
    BY <2>2, <1>3, <1>5 DEF Acc!DecideArchive
  <2>3. CASE Acc!CountOthers(r)
    BY <2>3, <1>2, <1>3, <1>4, <1>6 DEF Acc!CountOthers
  <2>4. CASE Acc!DecideUnarchive(r)
    BY <2>4, <1>2, <1>3, <1>4 DEF Acc!DecideUnarchive
  <2> QED  BY <2>1, <2>2, <2>3, <2>4

LEMMA ReadForUpdateAccountsInv ==
  ASSUME AccountsInv, NEW r \in Requests, Acc!ReadForUpdate(r)
  PROVE  AccountsInv'
<1>1. PICK a \in Accounts :
        /\ account[a].st = "active"
        /\ serving' = [serving EXCEPT ![r] =
             [Acc!Idle EXCEPT !.act = "update", !.acc = a, !.copy = account[a], !.pc = "save"]]
  BY DEF Acc!ReadForUpdate
<1> DEFINE x == [Acc!Idle EXCEPT !.act = "update", !.acc = a, !.copy = account[a], !.pc = "save"]
<1>2. x \in Acc!Request /\ HeldBy(x) /\ CurrentOf(x)
  BY <1>1 DEF Acc!Idle, Acc!Request, Acc!Acts, HeldBy, Bound, CurrentOf, Acc!Exists,
              AccountsInv, Acc!TypeOK
<1>3. ~MidwayOf(serving[r])
  BY DEF Acc!ReadForUpdate, MidwayOf
<1> HIDE DEF x
<1> QED  BY <1>1, <1>2, <1>3, SameCache, QuietStep DEF x, Acc!ReadForUpdate

\* When nothing differs from a set-default, a default exists.
LEMMA CompareAccountsInv ==
  ASSUME AccountsInv, NEW r \in Requests, Acc!Compare(r)
  PROVE  AccountsInv'
<1> DEFINE now == account[serving[r].acc]
           copy == serving[r].copy
           w == {c \in {"st", "def"} : \/ (c = "st" /\ copy.st # now.st)
                                      \/ (c = "def" /\ copy.def # now.def)}
           x == [serving[r] EXCEPT !.pc = "write", !.write = w]
<1>1. /\ serving[r].pc = "save" /\ serving' = [serving EXCEPT ![r] = x]
      /\ UNCHANGED <<account, Acc!cache, torn>>
  BY DEF Acc!Compare
<1>2. HeldBy(serving[r]) /\ CurrentOf(serving[r]) /\ serving[r] \in Acc!Request
  BY OfRequest
<1>3. /\ x \in Acc!Request /\ HeldBy(x) /\ CurrentOf(x)
      /\ x.act = serving[r].act /\ x.pc = "write" /\ x.write = w
  BY <1>1, <1>2 DEF Acc!Request, HeldBy, Bound, CurrentOf
<1>4. serving[r].acc \in Accounts /\ serving[r].copy.def \in BOOLEAN /\ now.def \in BOOLEAN
  BY <1>1, <1>2 DEF HeldBy, Bound, Acc!Request, Acc!Row, AccountsInv, Acc!TypeOK
<1>5. MidwayOf(serving[r]) => MidwayOf(x) \/ Acc!Defaults # {}
  <2> SUFFICES ASSUME MidwayOf(serving[r]), ~now.def PROVE MidwayOf(x)
    BY <1>4 DEF Acc!Defaults
  <2>1. serving[r].act = "setDefault" /\ serving[r].copy.def
    BY <1>1, <1>2 DEF MidwayOf, HeldBy
  <2>2. "def" \in w
    BY <2>1
  <2> QED  BY <1>3, <2>1, <2>2 DEF MidwayOf
<1> HIDE DEF x
<1> QED  BY <1>1, <1>3, <1>5, SameCache, QuietStep

LEMMA ClearAccountsInv ==
  ASSUME AccountsInv, NEW r \in Requests, Acc!Clear(r)
  PROVE  AccountsInv'
<1>1. /\ entry' \in [Accounts -> Acc!Row \cup {NoEntry}] /\ CachedExist' /\ CachedCurrent'
      /\ list' \in (SUBSET Accounts) \cup {NoEntry} /\ old' \subseteq Accounts
      /\ account' = account /\ torn' = torn /\ torn' \in BOOLEAN
      /\ serving[r].pc \in {"clearUnset", "clear"}
  BY DEF Acc!Clear, Acc!Cleared, CachedExist, CachedCurrent, AccountsInv, Acc!TypeOK
<1>2. HeldBy(serving[r]) /\ CurrentOf(serving[r]) /\ serving[r] \in Acc!Request
  BY OfRequest
<1>3. ASSUME NEW phase \in {"save", "put"}, Acc!Goto(r, phase),
             \/ (phase = "save" /\ serving[r].pc = "clearUnset")
             \/ (phase = "put" /\ serving[r].pc = "clear"
                 /\ serving[r].act \in {"setDefault", "archive", "unarchive"})
      PROVE  AccountsInv'
  <2> DEFINE x == [serving[r] EXCEPT !.pc = phase]
  <2>1. x \in Acc!Request /\ HeldBy(x) /\ CurrentOf(x)
    BY <1>2, <1>3 DEF Acc!Request, HeldBy, Bound, CurrentOf
  <2>2. MidwayOf(serving[r]) => MidwayOf(x)
    BY <1>2, <1>3 DEF MidwayOf, Acc!Request
  <2>3. serving' = [serving EXCEPT ![r] = x]
    BY <1>3 DEF Acc!Goto
  <2> HIDE DEF x
  <2> QED  BY <1>1, <2>1, <2>2, <2>3, QuietStep
<1>4. CASE Acc!Finish(r) /\ serving[r].pc = "clear"
  BY <1>1, <1>4, FinishStep DEF MidwayOf
<1>5. CASE serving[r].pc = "clearUnset"
  BY <1>3, <1>5 DEF Acc!Clear
<1>6. CASE serving[r].pc # "clearUnset"
  BY <1>1, <1>3, <1>4, <1>6 DEF Acc!Clear
<1> QED  BY <1>5, <1>6

LEMMA PutAccountsInv ==
  ASSUME AccountsInv, NEW r \in Requests, Acc!Put(r)
  PROVE  AccountsInv'
<1>1. serving[r].pc = "put" /\ Bound(serving[r]) /\ ~MidwayOf(serving[r])
  BY DEF Acc!Put, Bound, MidwayOf
<1>2. /\ entry' \in [Accounts -> Acc!Row \cup {NoEntry}] /\ old' \subseteq Accounts
      /\ CachedExist' /\ CachedCurrent'
  BY <1>1, PutCached DEF Acc!Put
<1> QED  BY <1>1, <1>2, FinishStep DEF Acc!Put, AccountsInv, Acc!TypeOK

LEMMA GiveUpAccountsInv ==
  ASSUME AccountsInv, NEW r \in Requests, Acc!GiveUp(r)
  PROVE  AccountsInv'
<1>1. Acc!Midway(r) <=> MidwayOf(serving[r])
  BY DEF Acc!Midway, MidwayOf
<1>2. /\ torn' \in BOOLEAN /\ (torn => torn')
      /\ MidwayOf(serving[r]) => torn' \/ Acc!Defaults # {}
      /\ account' = account /\ UNCHANGED Acc!cache /\ Acc!Finish(r)
  BY <1>1 DEF Acc!GiveUp, Acc!Midway, AccountsInv, Acc!TypeOK
<1>3. /\ entry' \in [Accounts -> Acc!Row \cup {NoEntry}] /\ CachedExist' /\ CachedCurrent'
      /\ list' \in (SUBSET Accounts) \cup {NoEntry} /\ old' \subseteq Accounts
  BY <1>2 DEF AccountsInv, Acc!TypeOK, CachedExist, CachedCurrent, Acc!cache
<1> QED  BY <1>2, <1>3, FinishStep

LEMMA ExpireAccountsInv ==
  ASSUME AccountsInv, (\E a \in Accounts : Acc!EntryExpires(a)) \/ Acc!ListExpires
  PROVE  AccountsInv'
<1>1. Acc!TypeOK' /\ CachedExist' /\ account' = account /\ serving' = serving /\ torn' = torn
  BY DEF AccountsInv, Acc!TypeOK, CachedExist, Acc!EntryExpires, Acc!ListExpires
<1>2. Held' /\ Current'
  BY <1>1 DEF AccountsInv, Held, HeldBy, Current, CurrentOf, Acc!Exists
<1>3. CachedCurrent'
  <2>1. CASE Acc!ListExpires
    BY <2>1 DEF AccountsInv, CachedCurrent, Acc!ListExpires
  <2>2. ASSUME NEW a \in Accounts, Acc!EntryExpires(a) PROVE CachedCurrent'
    <3>1. \A b \in Accounts : entry'[b] = IF b = a THEN NoEntry ELSE entry[b]
      BY <2>2 DEF AccountsInv, Acc!TypeOK, Acc!EntryExpires
    <3> QED  BY <1>1, <2>2, <3>1 DEF AccountsInv, CachedCurrent, Acc!EntryExpires
  <2> QED  BY <2>1, <2>2
<1>4. Acc!DefaultKept'
  BY <1>1 DEF AccountsInv, Acc!DefaultKept, Acc!Defaults, Acc!Exists, Acc!Midway
<1> QED  BY <1>1, <1>2, <1>3, <1>4 DEF AccountsInv

-----------------------------------------------------------------------------
(* Steps that write the table *)

\* A step of r may mark the other requests, and leaves them as they are.
Marked(q) == \/ serving'[q] = serving[q]
             \/ serving'[q] = [serving[q] EXCEPT !.stale = TRUE]

LEMMA MarkedFields ==
  ASSUME AccountsInv, NEW q \in Requests, Marked(q)
  PROVE  /\ serving'[q].act = serving[q].act /\ serving'[q].acc = serving[q].acc
         /\ serving'[q].copy = serving[q].copy /\ serving'[q].pc = serving[q].pc
         /\ serving'[q].write = serving[q].write /\ serving'[q].rows = serving[q].rows
         /\ serving'[q] \in Acc!Request
<1>1. serving[q] \in Acc!Request
  BY OfRequest
<1> QED  BY <1>1 DEF Marked, Acc!Request

\* When a becomes the default, all that is older is marked.
LEMMA OvertakenStep ==
  ASSUME AccountsInv, NEW r \in Requests, NEW x \in Acc!Request, NEW a \in Accounts,
         NEW won \in BOOLEAN, UNCHANGED <<entry, list>>,
         serving' = [IF won THEN Acc!Overtake(a) ELSE serving EXCEPT ![r] = x],
         old' = IF won THEN Acc!Outdated(a) ELSE old,
         \A b \in Accounts : account'[b].def => account[b].def \/ (won /\ b = a),
         CurrentOf(x)'
  PROVE  /\ serving' \in [Requests -> Acc!Request] /\ serving'[r] = x
         /\ \A q \in Requests : q # r => Marked(q)
         /\ Current' /\ CachedCurrent' /\ old' \subseteq Accounts
<1> DEFINE f == IF won THEN Acc!Overtake(a) ELSE serving
<1>1. \A q \in Requests :
        f[q] = IF won /\ (serving[q].acc = a \/ serving[q].pc = "fillList")
               THEN [serving[q] EXCEPT !.stale = TRUE] ELSE serving[q]
  BY DEF Acc!Overtake
<1>2. f = [q \in Requests |-> f[q]]
  BY DEF Acc!Overtake, AccountsInv, Acc!TypeOK
<1>3. serving' = [f EXCEPT ![r] = x]
  OBVIOUS
<1> HIDE DEF f
<1>4. \A q \in Requests : serving'[q] = IF q = r THEN x ELSE f[q]
  BY <1>2, <1>3
<1>5. \A q \in Requests : q # r => Marked(q)
  BY <1>1, <1>4 DEF Marked
<1>6. serving' = [q \in Requests |-> serving'[q]]
  BY <1>2, <1>3
<1>7. \A q \in Requests : serving'[q] \in Acc!Request
  BY <1>4, <1>5, MarkedFields
<1>8. ASSUME NEW q \in Requests, q # r PROVE CurrentOf(serving[q])'
  <2>1. serving[q] \in Acc!Request /\ CurrentOf(serving[q]) /\ HeldBy(serving[q])
    BY OfRequest
  <2>2. CASE won /\ (serving[q].acc = a \/ serving[q].pc = "fillList")
    <3>1. serving'[q] = [serving[q] EXCEPT !.stale = TRUE]
      BY <1>1, <1>4, <1>8, <2>2
    <3>2. [serving[q] EXCEPT !.stale = TRUE].stale = TRUE
      BY <2>1 DEF Acc!Request
    <3>3. serving'[q].stale
      BY <3>1, <3>2
    <3> QED  BY <3>3 DEF CurrentOf
  <2>3. CASE ~(won /\ (serving[q].acc = a \/ serving[q].pc = "fillList"))
    <3>1. serving'[q] = serving[q]
      BY <1>1, <1>4, <1>8, <2>3
    <3>2. Bound(serving[q]) => serving[q].acc \in Accounts
      BY <2>1 DEF HeldBy
    <3> QED  BY <2>1, <2>3, <3>1, <3>2 DEF CurrentOf, Bound
  <2> QED  BY <2>2, <2>3
<1>9. Current'
  BY <1>4, <1>8 DEF Current
<1>10. CachedCurrent' /\ old' \subseteq Accounts
  BY DEF AccountsInv, Acc!TypeOK, CachedCurrent, Acc!Outdated
<1> QED  BY <1>4, <1>5, <1>6, <1>7, <1>9, <1>10

\* Accounts do not disappear, so what the other requests hold stays true.
LEMMA WriteAccountStep ==
  ASSUME AccountsInv, NEW r \in Requests, NEW x \in Acc!Request,
         serving' \in [Requests -> Acc!Request], serving'[r] = x,
         \A q \in Requests : q # r => Marked(q),
         Current', CachedCurrent', old' \subseteq Accounts,
         UNCHANGED <<entry, list>>, torn' \in BOOLEAN, account' \in [Accounts -> Acc!Row],
         \A a \in Accounts : Acc!Exists(a) => Acc!Exists(a)',
         HeldBy(x)', Acc!DefaultKept'
  PROVE  AccountsInv'
<1>1. Acc!TypeOK' /\ CachedExist'
  BY DEF AccountsInv, Acc!TypeOK, CachedExist
<1>2. ASSUME NEW q \in Requests PROVE HeldBy(serving[q])'
  <2>1. CASE q = r
    BY <2>1
  <2>2. CASE q # r
    <3>1. HeldBy(serving[q])
      BY DEF AccountsInv, Held
    <3>2. /\ serving'[q].act = serving[q].act /\ serving'[q].acc = serving[q].acc
          /\ serving'[q].copy = serving[q].copy /\ serving'[q].pc = serving[q].pc
          /\ serving'[q].rows = serving[q].rows
      BY <2>2, MarkedFields
    <3>3. Bound(serving[q])' <=> Bound(serving[q])
      BY <3>2 DEF Bound
    <3> QED  BY <3>1, <3>2, <3>3 DEF HeldBy
  <2> QED  BY <2>1, <2>2
<1> QED  BY <1>1, <1>2 DEF AccountsInv, Held

LEMMA UnsetDefaultAccountsInv ==
  ASSUME AccountsInv, NEW r \in Requests, Acc!UnsetDefault(r)
  PROVE  AccountsInv'
<1>0. PICK x : x = [serving[r] EXCEPT !.pc = "clearUnset"]
  OBVIOUS
<1>1. /\ serving[r].pc = "unset" /\ serving' = [serving EXCEPT ![r] = x] 
      /\ UNCHANGED <<entry, list, old, torn>>
      /\ account' = [a \in Accounts |-> [account[a] EXCEPT !.def = FALSE]]
  BY <1>0 DEF Acc!UnsetDefault, Acc!Goto, Acc!cache
<1>2. HeldBy(serving[r]) /\ serving[r] \in Acc!Request
  BY OfRequest
<1>3. x \in Acc!Request /\ x.act = "setDefault" /\ x.pc = "clearUnset"
  BY <1>0, <1>1, <1>2 DEF Acc!Request, HeldBy
<1>4. /\ account' \in [Accounts -> Acc!Row]
      /\ \A a \in Accounts : account'[a].st = account[a].st /\ account'[a].def = FALSE
  BY <1>1 DEF AccountsInv, Acc!TypeOK, Acc!Row
<1>5. HeldBy(x)'
  <2>1. x.acc = serving[r].acc /\ x.copy = serving[r].copy
    BY <1>0, <1>2 DEF Acc!Request
  <2> QED  BY <1>1, <1>2, <1>3, <1>4, <2>1 DEF HeldBy, Bound, Acc!Exists
<1>6. serving'[r] = x
  BY <1>1 DEF AccountsInv, Acc!TypeOK
<1>7. Acc!Midway(r)'
  BY <1>3, <1>6 DEF Acc!Midway
<1>8. Acc!DefaultKept'
  BY <1>4, <1>7 DEF Acc!DefaultKept, Acc!Defaults
<1>9. CurrentOf(x)'
  BY <1>3, <1>4, <1>5 DEF CurrentOf, HeldBy
<1>10. serving[r].acc \in Accounts
  BY <1>1, <1>2 DEF HeldBy, Bound
<1>11. /\ serving' \in [Requests -> Acc!Request]
       /\ \A q \in Requests : q # r => Marked(q)
       /\ Current' /\ CachedCurrent' /\ old' \subseteq Accounts
  BY <1>1, <1>3, <1>4, <1>9, <1>10, OvertakenStep
<1>12. torn' \in BOOLEAN /\ \A a \in Accounts : Acc!Exists(a) => Acc!Exists(a)'
  BY <1>1, <1>4 DEF Acc!Exists, AccountsInv, Acc!TypeOK
<1> QED  BY <1>1, <1>3, <1>4, <1>5, <1>6, <1>8, <1>11, <1>12, WriteAccountStep

LEMMA UpdateAccountsInv ==
  ASSUME AccountsInv, NEW r \in Requests, Acc!Update(r)
  PROVE  AccountsInv'
<1>0. PICK a, new, won, x :
        /\ a = serving[r].acc /\ new = Acc!Saved(r)
        /\ won = (Acc!Saved(r).def /\ ~account[serving[r].acc].def)
        /\ x = [serving[r] EXCEPT !.copy = Acc!Saved(r), !.write = {}, !.pc = "clear",
                                  !.stale = FALSE]
  OBVIOUS
<1>1. /\ serving[r].pc = "write" /\ Acc!Legal(a, new) /\ account' = [account EXCEPT ![a] = new]
      /\ torn' = IF new.def THEN FALSE ELSE torn \/ (account[a].def /\ serving[r].stale)
      /\ UNCHANGED <<entry, list>>
      /\ serving' = [IF won THEN Acc!Overtake(a) ELSE serving EXCEPT ![r] = x]
      /\ old' = IF won THEN Acc!Outdated(a) ELSE old
  BY <1>0 DEF Acc!Update
<1>2. /\ HeldBy(serving[r]) /\ serving[r].copy \in Acc!Row /\ a \in Accounts /\ Acc!Exists(a)
      /\ serving[r].copy.st # "absent" /\ account[a] \in Acc!Row /\ serving[r] \in Acc!Request
      /\ ~serving[r].stale => (account[a].def => serving[r].copy.def)
  BY <1>0, <1>1, OfRequest DEF HeldBy, Bound, CurrentOf, AccountsInv, Acc!TypeOK
<1>3. new \in Acc!Row /\ new.st \in {"active", "archived"} /\ new.def \in BOOLEAN
  BY <1>0, <1>2 DEF Acc!Saved, Acc!Row, Acc!Exists
<1>4. /\ x \in Acc!Request /\ x.act = serving[r].act /\ x.acc = a /\ x.pc = "clear"
      /\ x.copy = new
  BY <1>0, <1>2, <1>3 DEF Acc!Request
<1>5. /\ account' \in [Accounts -> Acc!Row] /\ torn' \in BOOLEAN
      /\ account'[a] = new /\ \A b \in Accounts : b # a => account'[b] = account[b]
  BY <1>1, <1>2, <1>3 DEF AccountsInv, Acc!TypeOK, Acc!Request
<1>6. \A b \in Accounts : Acc!Exists(b) => Acc!Exists(b)'
  BY <1>2, <1>3, <1>5 DEF Acc!Exists
<1>7. HeldBy(x)' /\ CurrentOf(x)'
  BY <1>2, <1>3, <1>4, <1>5, <1>6 DEF HeldBy, Bound, CurrentOf
<1>8. /\ serving' \in [Requests -> Acc!Request] /\ serving'[r] = x
      /\ \A q \in Requests : q # r => Marked(q)
      /\ Current' /\ CachedCurrent' /\ old' \subseteq Accounts
  <2>1. won \in BOOLEAN /\ won = (new.def /\ ~account[a].def)
    BY <1>0, <1>2, <1>3 DEF Acc!Row
  <2>2. \A b \in Accounts : account'[b].def => account[b].def \/ (won /\ b = a)
    BY <1>5, <2>1
  <2> QED  BY <1>1, <1>2, <1>4, <1>7, <2>1, <2>2, OvertakenStep
<1>9. Acc!DefaultKept'
  <2>1. CASE new.def
    BY <2>1, <1>1, <1>2, <1>5 DEF Acc!Legal, Acc!DefaultKept, Acc!Defaults
  <2>2. CASE ~new.def /\ account[a].def
    <3>1. serving[r].stale
      BY <1>0, <1>2, <2>2 DEF Acc!Saved
    <3> QED  BY <2>2, <3>1, <1>1, <1>2, <1>5 DEF Acc!DefaultKept, Acc!Defaults, AccountsInv
  <2>3. CASE ~new.def /\ ~account[a].def
    <3>1. Acc!Defaults' = Acc!Defaults /\ (torn => torn')
      BY <2>3, <1>1, <1>2, <1>5 DEF Acc!Defaults
    <3>2. Acc!Defaults # {} \/ torn \/ \E q \in Requests : Acc!Midway(q)
      BY <1>2 DEF AccountsInv, Acc!DefaultKept
    <3>3. ~Acc!Midway(r)
      <4> SUFFICES ASSUME Acc!Midway(r) PROVE FALSE
        OBVIOUS
      <4>1. "def" \in serving[r].write /\ serving[r].copy.def
        BY <1>1, <1>2 DEF Acc!Midway, HeldBy
      <4> QED  BY <4>1, <1>0, <2>3 DEF Acc!Saved
    <3>4. \A q \in Requests : Acc!Midway(q) => Acc!Midway(q)'
      <4> TAKE q \in Requests
      <4>1. CASE q = r
        BY <3>3, <4>1
      <4>2. CASE q # r
        BY <4>2, <1>8, MarkedFields DEF Acc!Midway
      <4> QED  BY <4>1, <4>2
    <3>5. \A b \in Acc!Defaults : account[b].st = "active" /\ b # a
      BY <2>3 DEF AccountsInv, Acc!DefaultKept, Acc!Defaults
    <3> QED
      BY <3>1, <3>2, <3>4, <3>5, <1>5 DEF AccountsInv, Acc!DefaultKept, Acc!Defaults
  <2> QED  BY <2>1, <2>2, <2>3, <1>3
<1> QED  BY <1>1, <1>4, <1>5, <1>6, <1>7, <1>8, <1>9, WriteAccountStep

LEMMA ReadForCreateAccountsInv ==
  ASSUME AccountsInv, NEW r \in Requests, Acc!ReadForCreate(r)
  PROVE  AccountsInv'
<1>1. PICK a \in Accounts, asked \in BOOLEAN :
        serving' = [serving EXCEPT ![r] =
            [Acc!Idle EXCEPT !.act = "create", !.acc = a, !.pc = "insert",
                         !.copy = [st |-> "active", def |-> Acc!BecomesDefault(asked)]]]
  BY DEF Acc!ReadForCreate
<1> DEFINE x == [Acc!Idle EXCEPT !.act = "create", !.acc = a, !.pc = "insert",
                         !.copy = [st |-> "active", def |-> Acc!BecomesDefault(asked)]]
<1>2. Acc!BecomesDefault(asked) \in BOOLEAN
  BY DEF Acc!BecomesDefault
<1>3. Acc!BecomesDefault(asked) \/ \E b \in Accounts : Acc!Exists(b)
  BY DEF Acc!BecomesDefault, AccountsInv, Acc!DefaultKept, Acc!Defaults, Acc!Exists
<1>4. x \in Acc!Request /\ HeldBy(x) /\ CurrentOf(x)
  BY <1>2, <1>3 DEF Acc!Idle, Acc!Request, Acc!Acts, Acc!Row, HeldBy, Bound, CurrentOf
<1>5. ~MidwayOf(serving[r])
  BY DEF Acc!ReadForCreate, MidwayOf
<1> HIDE DEF x
<1> QED  BY <1>1, <1>4, <1>5, SameCache, QuietStep DEF x, Acc!ReadForCreate

LEMMA CreateAccountsInv ==
  ASSUME AccountsInv, NEW r \in Requests, Acc!Create(r)
  PROVE  AccountsInv'
<1>0. PICK a, def, x : /\ a = serving[r].acc /\ def = serving[r].copy.def
                       /\ x = [serving[r] EXCEPT !.pc = "clear"]
  OBVIOUS
<1>1. /\ serving[r].pc = "insert" /\ ~Acc!Exists(a)
      /\ account' = [b \in Accounts |-> IF b = a THEN serving[r].copy
                                    ELSE [account[b] EXCEPT !.def = @ /\ ~def]]
      /\ torn' = (torn /\ ~def) /\ UNCHANGED <<entry, list>>
      /\ serving' = [IF def THEN Acc!Overtake(a) ELSE serving EXCEPT ![r] = x]
      /\ old' = IF def THEN Acc!Outdated(a) ELSE old
  BY <1>0 DEF Acc!Create
<1>2. /\ HeldBy(serving[r]) /\ serving[r] \in Acc!Request /\ serving[r].copy \in Acc!Row
      /\ a \in Accounts /\ serving[r].copy.st = "active"
      /\ def \/ \E b \in Accounts : Acc!Exists(b)
  BY <1>0, <1>1, OfRequest DEF HeldBy
<1>3. /\ account' \in [Accounts -> Acc!Row] /\ torn' \in BOOLEAN /\ def \in BOOLEAN
      /\ account'[a].st = "active" /\ account'[a].def = def
      /\ \A b \in Accounts : b # a => /\ account'[b].st = account[b].st
                                     /\ account'[b].def = (account[b].def /\ ~def)
  BY <1>0, <1>1, <1>2 DEF AccountsInv, Acc!TypeOK, Acc!Row
<1>4. \A b \in Accounts : Acc!Exists(b) => Acc!Exists(b)'
  BY <1>1, <1>2, <1>3 DEF Acc!Exists
<1>5. /\ x \in Acc!Request /\ x.pc = "clear" /\ x.act = serving[r].act /\ x.acc = a
      /\ x.copy = serving[r].copy
  BY <1>0, <1>2 DEF Acc!Request
<1>6. Acc!Exists(a)'
  BY <1>3 DEF Acc!Exists
<1>7. HeldBy(x)' /\ CurrentOf(x)'
  BY <1>0, <1>2, <1>3, <1>4, <1>5, <1>6 DEF HeldBy, Bound, CurrentOf
<1>8. /\ serving' \in [Requests -> Acc!Request] /\ serving'[r] = x
      /\ \A q \in Requests : q # r => Marked(q)
      /\ Current' /\ CachedCurrent' /\ old' \subseteq Accounts
  <2>1. \A b \in Accounts : account'[b].def => account[b].def \/ (def /\ b = a)
    BY <1>3
  <2> QED  BY <1>1, <1>2, <1>3, <1>5, <1>7, <2>1, OvertakenStep
<1>9. Acc!DefaultKept'
  <2>1. CASE def
    BY <2>1, <1>2, <1>3 DEF Acc!DefaultKept, Acc!Defaults
  <2>2. CASE ~def
    <3>1. ~account[a].def
      BY <1>1, <1>2 DEF AccountsInv, Acc!DefaultKept, Acc!Defaults, Acc!Exists
    <3>2. Acc!Defaults' = Acc!Defaults /\ (torn => torn')
      BY <2>2, <3>1, <1>1, <1>2, <1>3 DEF Acc!Defaults, AccountsInv, Acc!TypeOK, Acc!Row
    <3>3. \A q \in Requests : Acc!Midway(q) => Acc!Midway(q)'
      <4> TAKE q \in Requests
      <4>1. CASE q = r
        BY <1>1, <4>1 DEF Acc!Midway
      <4>2. CASE q # r
        BY <4>2, <1>8, MarkedFields DEF Acc!Midway
      <4> QED  BY <4>1, <4>2
    <3>4. Acc!Defaults # {} \/ torn \/ \E q \in Requests : Acc!Midway(q)
      BY <2>2, <1>2 DEF AccountsInv, Acc!DefaultKept
    <3>5. \A b \in Acc!Defaults : account'[b].st = "active"
      BY <3>1, <1>3 DEF AccountsInv, Acc!DefaultKept, Acc!Defaults
    <3> QED  BY <3>2, <3>3, <3>4, <3>5 DEF AccountsInv, Acc!DefaultKept
  <2> QED  BY <2>1, <2>2, <1>3
<1> QED  BY <1>1, <1>3, <1>4, <1>5, <1>7, <1>8, <1>9, WriteAccountStep

LEMMA ProvisionAccountsInv ==
  ASSUME Cash \in Accounts, AccountsInv, NEW r \in Requests, Acc!Provision(r)
  PROVE  AccountsInv'
<1> DEFINE x == [Acc!Idle EXCEPT !.act = "provision", !.acc = Cash, !.pc = "clear"]
<1>1. /\ serving[r].pc = "idle" /\ Acc!Defaults = {} /\ torn' = FALSE
      /\ UNCHANGED <<entry, list>> /\ old' = Acc!Outdated(Cash)
      /\ account' = [account EXCEPT ![Cash] = [st |-> "active", def |-> TRUE]]
      /\ serving' = [Acc!Overtake(Cash) EXCEPT ![r] = x]
  BY DEF Acc!Provision
<1>2. x \in Acc!Request /\ HeldBy(x)' /\ CurrentOf(x)'
  BY DEF Acc!Idle, Acc!Absent, Acc!Row, Acc!Request, Acc!Acts, HeldBy, Bound, CurrentOf
<1>3. /\ account' \in [Accounts -> Acc!Row]
      /\ \A b \in Accounts : account'[b] = IF b = Cash THEN [st |-> "active", def |-> TRUE]
                                       ELSE account[b]
  BY <1>1 DEF AccountsInv, Acc!TypeOK, Acc!Row
<1>4. \A b \in Accounts : Acc!Exists(b) => Acc!Exists(b)'
  BY <1>3 DEF Acc!Exists
<1>5. Acc!DefaultKept'
  BY <1>1, <1>3 DEF Acc!DefaultKept, Acc!Defaults
<1> HIDE DEF x
<1>6. /\ serving' \in [Requests -> Acc!Request] /\ serving'[r] = x
      /\ \A q \in Requests : q # r => Marked(q)
      /\ Current' /\ CachedCurrent' /\ old' \subseteq Accounts
  <2>1. \A b \in Accounts : account'[b].def => account[b].def \/ (TRUE /\ b = Cash)
    BY <1>3
  <2>2. /\ serving' = [IF TRUE THEN Acc!Overtake(Cash) ELSE serving EXCEPT ![r] = x]
        /\ old' = IF TRUE THEN Acc!Outdated(Cash) ELSE old
    BY <1>1
  <2> QED  BY <1>1, <1>2, <2>1, <2>2, OvertakenStep
<1> QED  BY <1>1, <1>2, <1>3, <1>4, <1>5, <1>6, WriteAccountStep

-----------------------------------------------------------------------------
LEMMA NextAccountsInv ==
  ASSUME Cash \in Accounts, AccountsInv, [Acc!Next]_Acc!vars
  PROVE  AccountsInv'
<1>1. CASE UNCHANGED Acc!vars
  BY <1>1 DEF Acc!vars, Acc!cache, AccountsInv, Acc!TypeOK, Held, HeldBy, CachedExist,
              Acc!DefaultKept, Acc!Defaults, Acc!Exists, Acc!Midway, Current, CurrentOf,
              CachedCurrent
<1>2. ASSUME NEW r \in Requests,
             \/ Acc!Reading(r) \/ Acc!SetDefault(r) \/ Acc!Archive(r) \/ Acc!DecideUnarchive(r)
             \/ Acc!ReadForUpdate(r) \/ Acc!Save(r) \/ Acc!ReadForCreate(r) \/ Acc!Create(r)
             \/ Acc!Provision(r) \/ Acc!GiveUp(r)
      PROVE  AccountsInv'
  BY <1>2, ReadAccountsInv, FillAccountsInv, ReadListAccountsInv, FillListAccountsInv,
     DecideAccountsInv, ReadForUpdateAccountsInv, CompareAccountsInv, ClearAccountsInv,
     PutAccountsInv, GiveUpAccountsInv, UnsetDefaultAccountsInv, UpdateAccountsInv,
     ReadForCreateAccountsInv, CreateAccountsInv, ProvisionAccountsInv
  DEF Acc!Reading, Acc!SetDefault, Acc!Archive, Acc!Save
<1> QED  BY <1>1, <1>2, ExpireAccountsInv DEF Acc!Next

\* The invariant above holds in every reachable state of the accounts.
THEOREM AccountsInductive ==
  ASSUME Cash \in Accounts
  PROVE  Acc!Spec => []AccountsInv
<1>1. AccountsInv /\ [Acc!Next]_Acc!vars => AccountsInv'
  BY NextAccountsInv
<1> QED  BY <1>1, InitAccountsInv, PTL DEF Acc!Spec

(* Type correctness of every reachable state.                              *)
THEOREM AccountsTypeOK ==
  ASSUME Cash \in Accounts
  PROVE  Acc!Spec => []Acc!TypeOK
<1>1. AccountsInv => Acc!TypeOK
  BY DEF AccountsInv
<1> QED  BY <1>1, AccountsInductive, PTL

(* The default account is unique and active.  Only a set-default cut in two *)
(* leaves the user without one, or the save of an account as it had been   *)
(* before it became the default, by an archiving too.                      *)
THEOREM AccountsDefaultKept ==
  ASSUME Cash \in Accounts
  PROVE  Acc!Spec => []Acc!DefaultKept
<1>1. AccountsInv => Acc!DefaultKept
  BY DEF AccountsInv
<1> QED  BY <1>1, AccountsInductive, PTL
=============================================================================
