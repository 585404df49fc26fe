------------------------------- MODULE Ledger -------------------------------
(***************************************************************************)
(* The transactions of one user and the categories they are filed under.   *)
(* A use case reads a transaction or a category, decides on that copy and  *)
(* saves it whole; save reads the row again and then inserts it or writes  *)
(* the columns in which the copy differs, without a lock in between.  Only *)
(* deleting a category by merging it into another runs in a database       *)
(* transaction.  CHECKs and foreign keys are the last line of defence.     *)
(*                                                                         *)
(* A category is read through Redis.  A cached category or list can be     *)
(* older than the row, so what the cache answers is any state the row has  *)
(* been in (past), and the entries themselves are left out.  Names are     *)
(* left out too: a name in use is one of the refusals of GiveUp, and so is *)
(* an account the reference validator does not accept.  Amount, date and   *)
(* description travel like the other columns and are left out; an amount   *)
(* is 1 where balances are computed.  effective_at goes with the status.   *)
(***************************************************************************)
EXTENDS Integers, FiniteSets, FiniteSetsExt

CONSTANTS
  Categories,    \* categories that may come to exist
  KindOf,        \* the type of each category
  Transactions,  \* transactions that may come to exist
  Accounts,      \* accounts of the user
  Requests,      \* concurrent requests
  Drafts,        \* transactions that clients create
  Patches,       \* changes that clients ask for
  None           \* an absent value

Kinds == {"INCOME", "EXPENSE", "TRANSFER", "ADJUSTMENT"}
Technical == {"TRANSFER", "ADJUSTMENT"}
Directions == {"INCREASE", "DECREASE"}

Columns == {"st", "type", "cat", "acc", "dest", "dir", "deleted"}

Transaction ==
  [st : {"PENDING", "EFFECTIVE"}, type : Kinds, cat : Categories, acc : Accounts,
   dest : Accounts \cup {None}, dir : Directions \cup {None}, deleted : BOOLEAN]

Patch ==
  [type : Kinds \cup {None}, cat : Categories \cup {None}, acc : Accounts \cup {None},
   dest : Accounts \cup {None}, dir : Directions \cup {None}]

ASSUME KindAssumption == KindOf \in [Categories -> Kinds]
ASSUME InputAssumption ==
  Drafts \subseteq {d \in Transaction : ~d.deleted} /\ Patches \subseteq Patch
ASSUME NoneAssumption ==
  None \notin UNION {Categories, Transactions, Accounts, Kinds, Directions,
                     {"active", "archived"}, Transaction}
ASSUME AccountsAssumption == IsFiniteSet(Accounts)

VARIABLES
  tx,     \* the table transactions
  cat,    \* the table categories
  past,   \* the states each category has been in
  req,    \* the requests
  mixed   \* history: transactions whose type and category come from two saves

vars == <<tx, cat, past, req, mixed>>

States == {"active", "archived"}

\* What a request is about, the copy it will save and where it stands.
\* crossed: the transaction was confirmed or deleted since the request read it.
Request ==
  [act : {"none", "create", "change", "save", "erase", "merge"},
   tx : Transactions \cup {None}, copy : Transaction \cup {None},
   cat : Categories \cup {None}, target : Categories \cup {None},
   st : States \cup {None},
   pc : {"idle", "resolve", "decide", "save", "insert", "write", "check",
         "move", "remove", "commit"},
   write : SUBSET Columns, rows : SUBSET Transactions, crossed : BOOLEAN]

TypeOK ==
  /\ tx \in [Transactions -> Transaction \cup {None}]
  /\ cat \in [Categories -> States \cup {None}]
  /\ past \in [Categories -> SUBSET States]
  /\ req \in [Requests -> Request]
  /\ mixed \subseteq Transactions

Idle ==
  [act |-> "none", tx |-> None, copy |-> None, cat |-> None, target |-> None,
   st |-> None, pc |-> "idle", write |-> {}, rows |-> {}, crossed |-> FALSE]

\* The technical categories have been provisioned, the user's may be missing.
Init ==
  /\ tx = [t \in Transactions |-> None]
  /\ cat \in [Categories -> {"active", None}]
  /\ \A c \in Categories : KindOf[c] \in Technical => cat[c] = "active"
  /\ past = [c \in Categories |-> IF cat[c] = None THEN {} ELSE {cat[c]}]
  /\ req = [r \in Requests |-> Idle]
  /\ mixed = {}

-----------------------------------------------------------------------------
At(r, act, pc) == req[r].act \in act /\ req[r].pc = pc
Finish(r) == req' = [req EXCEPT ![r] = Idle]
Goto(r, pc) == req' = [req EXCEPT ![r].pc = pc]

Exists(t) == tx[t] # None

\* What CachedCategoryRepository may answer.
Cached(c) == past[c]

Or(v, w) == IF v = None THEN w ELSE v

(* Rows of transactions *)

\* Transaction.validate and the CHECKs that repeat it.
Valid(row) ==
  /\ row.type = "TRANSFER" => row.dest # None /\ row.dest # row.acc
  /\ row.type # "TRANSFER" => row.dest = None
  /\ (row.type = "ADJUSTMENT") <=> (row.dir # None)

\* The CHECKs of the table.
Accepted(row) == Valid(row) /\ (row.type = "TRANSFER" => ~row.deleted)

\* Mutant: a transaction that was changed has to be confirmed again.
Patched_Mutant(row, p) ==
  LET type == Or(p.type, row.type)
  IN [row EXCEPT !.type = type, !.cat = Or(p.cat, row.cat), !.acc = Or(p.acc, row.acc),
                 !.dest = IF type = "TRANSFER" THEN Or(p.dest, row.dest) ELSE None,
                 !.dir = IF type = "ADJUSTMENT" THEN Or(p.dir, row.dir) ELSE None,
                 !.st = "PENDING"]

\* Transaction.applyPatch.
Patched(row, p) ==
  LET type == Or(p.type, row.type)
  IN [row EXCEPT !.type = type, !.cat = Or(p.cat, row.cat), !.acc = Or(p.acc, row.acc),
                 !.dest = IF type = "TRANSFER" THEN Or(p.dest, row.dest) ELSE None,
                 !.dir = IF type = "ADJUSTMENT" THEN Or(p.dir, row.dir) ELSE None]

-----------------------------------------------------------------------------
(* Transactions *)

\* A transaction not deleted is read and the request goes on with copy.
Begin(r, act, t, copy, pc) ==
  /\ req[r] = Idle
  /\ req' = [req EXCEPT ![r] = [Idle EXCEPT !.act = act, !.tx = t, !.copy = copy, !.pc = pc]]

Create(r) ==
  /\ \E t \in Transactions, draft \in Drafts :
       /\ ~Exists(t) /\ \A q \in Requests : req[q].tx # t
       /\ Begin(r, "create", t, draft, "resolve")
  /\ UNCHANGED <<tx, cat, past, mixed>>

Update(r) ==
  /\ \E t \in Transactions, p \in Patches :
       /\ Exists(t) /\ ~tx[t].deleted
       /\ Begin(r, "change", t, Patched(tx[t], p), "resolve")
  /\ UNCHANGED <<tx, cat, past, mixed>>

\* An effective transaction is refused; the rest of the patch is optional.
Confirm(r) ==
  /\ \E t \in Transactions, p \in Patches :
       /\ Exists(t) /\ ~tx[t].deleted /\ tx[t].st = "PENDING"
       /\ Begin(r, "change", t, [Patched(tx[t], p) EXCEPT !.st = "EFFECTIVE"], "resolve")
  /\ UNCHANGED <<tx, cat, past, mixed>>

\* A transfer is refused.
Delete(r) ==
  /\ \E t \in Transactions :
       /\ Exists(t) /\ ~tx[t].deleted /\ tx[t].type # "TRANSFER"
       /\ Begin(r, "change", t, [tx[t] EXCEPT !.deleted = TRUE], "save")
  /\ UNCHANGED <<tx, cat, past, mixed>>

\* Mutant: a user's category is not compared with the type.
Resolved_Mutant(type, c) ==
  IF type \in Technical
  THEN {d \in Categories : KindOf[d] = type /\ Cached(d) # {}}
  ELSE {d \in {c} : "active" \in Cached(d) /\ KindOf[d] \notin Technical}

\* TransactionReferenceValidator.resolveCategory: a technical type has its own
\* category, whatever the client asked for.
Resolved(type, c) ==
  IF type \in Technical
  THEN {d \in Categories : KindOf[d] = type /\ Cached(d) # {}}
  ELSE {d \in {c} : "active" \in Cached(d) /\ KindOf[d] = type}

Resolve(r) ==
  /\ req[r].pc = "resolve"
  /\ LET copy == req[r].copy
     IN \E c \in Resolved(copy.type, copy.cat) :
          /\ Valid(copy)
          /\ req' = [req EXCEPT ![r] =
                       [req[r] EXCEPT !.copy = [copy EXCEPT !.cat = c], !.pc = "save"]]
  /\ UNCHANGED <<tx, cat, past, mixed>>

OnTransaction(r) == req[r].tx # None

\* save: the row is read and compared.
Compare(r) ==
  /\ req[r].pc = "save" /\ OnTransaction(r)
  /\ LET copy == req[r].copy
         row == tx[req[r].tx]
     IN IF row = None THEN Goto(r, "insert")
        ELSE req' = [req EXCEPT ![r] =
               [req[r] EXCEPT !.pc = "write",
                              !.write = {k \in Columns : copy[k] # row[k]}]]
  /\ UNCHANGED <<tx, cat, past, mixed>>

\* Rows that a merge has updated and not yet committed.
Locked(t) == \E q \in Requests : req[q].pc \in {"remove", "commit"} /\ t \in req[q].rows

\* A category whose row an uncommitted merge has deleted.
Removed(c) == \E q \in Requests : req[q].pc = "commit" /\ req[q].cat = c

\* The row is stored; requests that have read an older state are crossed.
Stored(r, row) ==
  LET t == req[r].tx
      turned == tx[t] # None /\ (tx[t].st # row.st \/ tx[t].deleted # row.deleted)
  IN /\ tx' = [tx EXCEPT ![t] = row]
     /\ req' = [q \in Requests |->
          IF q = r THEN Idle
          ELSE [req[q] EXCEPT !.crossed = @ \/ (turned /\ req[q].tx = t)]]
     /\ mixed' = IF row.type = req[r].copy.type /\ row.cat = req[r].copy.cat
                 THEN mixed ELSE mixed \cup {t}

\* The foreign key on the category is checked when the column is written; a
\* transaction that a constraint refuses is left to GiveUp.
Insert(r) ==
  /\ At(r, {"create"}, "insert")
  /\ LET row == req[r].copy
     IN Accepted(row) /\ cat[row.cat] # None /\ ~Removed(row.cat) /\ Stored(r, row)
  /\ UNCHANGED <<cat, past>>

\* The row after an UPDATE of some columns.
Updated(row, copy, columns) ==
  LET Col(k) == IF k \in columns THEN copy[k] ELSE row[k]
  IN [st |-> Col("st"), type |-> Col("type"), cat |-> Col("cat"), acc |-> Col("acc"),
      dest |-> Col("dest"), dir |-> Col("dir"), deleted |-> Col("deleted")]

Write(r) ==
  /\ req[r].pc = "write" /\ OnTransaction(r) /\ ~Locked(req[r].tx)
  /\ LET row == Updated(tx[req[r].tx], req[r].copy, req[r].write)
     IN /\ Accepted(row)
        /\ "cat" \in req[r].write => cat[row.cat] # None /\ ~Removed(row.cat)
        /\ Stored(r, row)
  /\ UNCHANGED <<cat, past>>

-----------------------------------------------------------------------------
(* Categories *)

Managed(c) == KindOf[c] \notin Technical

BeginOn(r, act, c, st, pc) ==
  /\ req[r] = Idle
  /\ req' = [req EXCEPT ![r] = [Idle EXCEPT !.act = act, !.cat = c, !.st = st, !.pc = pc]]
  /\ UNCHANGED <<tx, cat, past, mixed>>

\* isEditable, which every changer asks for.
Editable(c) == Managed(c) /\ "active" \in Cached(c)

\* Category.create: a new id each time.
New(c) == past[c] = {} /\ \A q \in Requests : req[q].cat # c

CreateCategory(r) ==
  \E c \in Categories :
    Managed(c) /\ New(c) /\ BeginOn(r, "save", c, "active", "save")

\* A default the user lacks, one save each.
Provision(r) ==
  \E c \in Categories : New(c) /\ BeginOn(r, "save", c, "active", "save")

\* Name, description, colour and the rest are left out: the status goes along.
Edit(r) ==
  \E c \in Categories : Editable(c) /\ BeginOn(r, "save", c, "active", "save")

Archive(r) ==
  \E c \in Categories :
    Managed(c) /\ Cached(c) # {} /\ BeginOn(r, "save", c, "archived", "save")

Unarchive(r) ==
  \E c \in Categories :
    Managed(c) /\ Cached(c) # {} /\ BeginOn(r, "save", c, "active", "save")

\* save: absent rows are inserted, also when the category was deleted since.
CompareCategory(r) ==
  /\ req[r].pc = "save" /\ ~OnTransaction(r)
  /\ LET row == cat[req[r].cat]
     IN IF row = None THEN Goto(r, "insert")
        ELSE req' = [req EXCEPT ![r] =
               [req[r] EXCEPT !.pc = "write",
                              !.write = IF row = req[r].st THEN {} ELSE {"st"}]]
  /\ UNCHANGED <<tx, cat, past, mixed>>

SetCategory(c, st) ==
  /\ cat' = [cat EXCEPT ![c] = st]
  /\ past' = [past EXCEPT ![c] = IF st = None THEN @ ELSE @ \cup {st}]

InsertCategory(r) ==
  /\ req[r].pc = "insert" /\ ~OnTransaction(r) /\ cat[req[r].cat] = None
  /\ SetCategory(req[r].cat, req[r].st)
  /\ Finish(r)
  /\ UNCHANGED <<tx, mixed>>

\* A row that is gone is not written, and save fails when it reads it again.
WriteCategory(r) ==
  /\ req[r].pc = "write" /\ ~OnTransaction(r) /\ ~Removed(req[r].cat)
  /\ IF cat[req[r].cat] # None /\ req[r].write # {}
     THEN SetCategory(req[r].cat, req[r].st)
     ELSE UNCHANGED <<cat, past>>
  /\ Finish(r)
  /\ UNCHANGED <<tx, mixed>>

Filed(c) == {t \in Transactions : Exists(t) /\ tx[t].cat = c}

\* DeleteCategoryUseCase: a category with transactions is refused.
Erase(r) ==
  \E c \in Categories :
    Managed(c) /\ Cached(c) # {} /\ BeginOn(r, "erase", c, None, "check")

Check(r) ==
  /\ At(r, {"erase"}, "check")
  /\ Filed(req[r].cat) = {}
  /\ Goto(r, "remove")
  /\ UNCHANGED <<tx, cat, past, mixed>>

\* The foreign key refuses while a transaction is filed under the category, and
\* the row is locked while an uncommitted merge moves transactions to it.
Removable(r) ==
  /\ Filed(req[r].cat) \subseteq req[r].rows
  /\ ~Removed(req[r].cat)
  /\ \A q \in Requests :
       req[q].pc \in {"remove", "commit"} => req[q].target # req[r].cat \/ req[q].rows = {}

EraseRow(r) ==
  /\ At(r, {"erase"}, "remove") /\ Removable(r)
  /\ SetCategory(req[r].cat, None)
  /\ Finish(r)
  /\ UNCHANGED <<tx, mixed>>

\* DeleteCategoryWithMergeUseCase: read from the rows, in the transaction.
Mergeable(c, d) ==
  /\ c # d /\ Managed(c) /\ Managed(d) /\ KindOf[c] = KindOf[d]
  /\ cat[c] # None /\ cat[d] = "active"

Merge(r) ==
  /\ req[r] = Idle
  /\ \E c, d \in Categories :
       /\ Mergeable(c, d)
       /\ req' = [req EXCEPT ![r] =
            [Idle EXCEPT !.act = "merge", !.cat = c, !.target = d, !.pc = "move"]]
  /\ UNCHANGED <<tx, cat, past, mixed>>

\* moveTransactionsToCategory, deleted transactions too; the new foreign key
\* needs the target.
Move(r) ==
  /\ At(r, {"merge"}, "move")
  /\ LET rows == Filed(req[r].cat)
     IN /\ \A t \in rows : ~Locked(t)
        /\ rows # {} => cat[req[r].target] # None /\ ~Removed(req[r].target)
        /\ req' = [req EXCEPT ![r] = [req[r] EXCEPT !.rows = rows, !.pc = "remove"]]
  /\ UNCHANGED <<tx, cat, past, mixed>>

RemoveRow(r) ==
  /\ At(r, {"merge"}, "remove") /\ Removable(r)
  /\ Goto(r, "commit")
  /\ UNCHANGED <<tx, cat, past, mixed>>

Commit(r) ==
  /\ At(r, {"merge"}, "commit")
  /\ tx' = [t \in Transactions |->
              IF t \in req[r].rows THEN [tx[t] EXCEPT !.cat = req[r].target] ELSE tx[t]]
  /\ SetCategory(req[r].cat, None)
  /\ Finish(r)
  /\ UNCHANGED mixed

-----------------------------------------------------------------------------
\* A refused reference, a name in use, a constraint or a deadlock the database
\* reports, a crash: the request ends, and a merge is rolled back.
GiveUp(r) ==
  /\ req[r] # Idle
  /\ Finish(r)
  /\ UNCHANGED <<tx, cat, past, mixed>>

OfTransaction(r) ==
  Create(r) \/ Update(r) \/ Confirm(r) \/ Delete(r) \/ Resolve(r)
    \/ Compare(r) \/ Insert(r) \/ Write(r)

OfCategory(r) ==
  CreateCategory(r) \/ Provision(r) \/ Edit(r) \/ Archive(r) \/ Unarchive(r) \/ CompareCategory(r)
    \/ InsertCategory(r) \/ WriteCategory(r) \/ Erase(r) \/ Check(r) \/ EraseRow(r)
    \/ Merge(r) \/ Move(r) \/ RemoveRow(r) \/ Commit(r)

Next == \E r \in Requests : OfTransaction(r) \/ OfCategory(r) \/ GiveUp(r)

Spec == Init /\ [][Next]_vars

-----------------------------------------------------------------------------
(* Balances: the part that transactions add to the initial balance. *)

\* Mutant: the account a transfer goes to is left out.
Delta_Mutant(row, a) ==
  IF row.acc # a THEN 0
  ELSE IF row.type = "INCOME" \/ row.dir = "INCREASE" THEN 1 ELSE -1

\* The two branches of movement_deltas.
Delta(row, a) ==
  (IF row.acc # a THEN 0
   ELSE IF row.type = "INCOME" \/ row.dir = "INCREASE" THEN 1 ELSE -1)
  + (IF row.type = "TRANSFER" /\ row.dest = a THEN 1 ELSE 0)

\* Current balances count EFFECTIVE rows, projected ones PENDING rows too.
Horizons == {{"EFFECTIVE"}, {"EFFECTIVE", "PENDING"}}

Counted(sts) == {t \in Transactions : Exists(t) /\ ~tx[t].deleted /\ tx[t].st \in sts}

\* getUserSummary.
UserSummary(accounts, sts) ==
  MapThenSumSet(LAMBDA a : MapThenSumSet(LAMBDA t : Delta(tx[t], a), Counted(sts)), accounts)

\* getGroupedSummary and getTypeSummary: the sum over one type.
TypeSummary(type, sts) == Cardinality({t \in Counted(sts) : tx[t].type = type})

Adjusted(dir, sts) == Cardinality({t \in Counted(sts) : tx[t].dir = dir})

-----------------------------------------------------------------------------
(* Properties *)

\* A transaction is filed under a category that exists, and under one of its
\* type unless type and category come from two saves, whatever merges, deletions
\* and changes of type run at once (TransactionReferenceValidator, the merge
\* and the foreign key).
CategoryFits ==
  \A t \in Transactions : Exists(t) =>
    /\ cat[tx[t].cat] # None
    /\ t \notin mixed => KindOf[tx[t].cat] = tx[t].type

\* A deleted transaction comes back, and an effective one turns pending, only
\* when a request saves a copy it has read before the deletion or the
\* confirmation (save writes the whole copy, applyPatch and confirm).
UndoneOnlyCrossed ==
  [][\A t \in Transactions :
       /\ Exists(t)
       /\ \/ tx[t].deleted /\ ~tx'[t].deleted
          \/ tx[t].st = "EFFECTIVE" /\ tx'[t].st = "PENDING"
       => \E r \in Requests : req[r].pc = "write" /\ req[r].tx = t /\ req[r].crossed]_vars

\* The two summaries the API gives agree: what all accounts together have
\* gained is income less expense, corrected by the adjustments, so a transfer
\* moves money and makes none (getUserSummary against getGroupedSummary).
SummariesAgree ==
  \A sts \in Horizons :
    UserSummary(Accounts, sts)
      = TypeSummary("INCOME", sts) - TypeSummary("EXPENSE", sts)
        + Adjusted("INCREASE", sts) - Adjusted("DECREASE", sts)

\* docs/transactions/reference/invariants.md: every transaction uses a category
\* compatible with its type.
CategoryAlwaysFits ==
  \A t \in Transactions : Exists(t) => KindOf[tx[t].cat] = tx[t].type
=============================================================================
