-------------------------- MODULE AccountTemplates --------------------------
(***************************************************************************)
(* The visual identity of the accounts of one user.  An account points to  *)
(* an institutional template or to a custom one and still carries the      *)
(* colour and icon the v0.3 image reads and writes: a projection of the    *)
(* template.  Accounts are created, updated, and saved whole by use cases  *)
(* that do not know the template; the v0.3 image creates accounts without  *)
(* one; the commands seed, curate and reconcile run beside them, and an    *)
(* operator switches templates off and uploads objects.                    *)
(*                                                                         *)
(* Transactions are READ COMMITTED: reads take no lock, an UPDATE holds    *)
(* its row until the commit.  Colour and icon are one look.  A copy from   *)
(* the account cache is one the request read long ago.                     *)
(***************************************************************************)
EXTENDS Naturals, FiniteSets, FiniteSetsExt

CONSTANTS
  Accounts,       \* accounts that may come to exist
  Institutional,  \* entries of the catalogue
  Customs,        \* custom templates that may come to exist
  Looks,          \* colours and icons
  NoLook,         \* NULL
  Sanitized,      \* a look without a colour the application does not know
  Projection,     \* the look an institutional template shows to v0.3
  NoTemplate,     \* NULL
  NoRow,          \* no such row
  Processes,      \* each serves a request or runs a command at a time
  BatchSize       \* of the reconciliation

ASSUME ProjectionAssumption == Projection \in [Institutional -> Looks]
\* isColorToken(color) ? color : null keeps NULL and the colours of the application,
\* to which a projection leads.
ASSUME SanitizedAssumption ==
  /\ Sanitized \in [Looks \cup {NoLook} -> Looks \cup {NoLook}]
  /\ \A l \in Looks \cup {NoLook} : Sanitized[Sanitized[l]] = Sanitized[l]
  /\ Sanitized[NoLook] = NoLook
  /\ \A i \in Institutional : Sanitized[Projection[i]] = Projection[i]
ASSUME BatchAssumption == BatchSize \in Nat \ {0}
ASSUME AccountsAssumption == IsFiniteSet(Accounts)
ASSUME TemplatesAssumption ==
  Customs \cap Institutional = {} /\ NoTemplate \notin Institutional \cup Customs

VARIABLES
  row,        \* template and look of the table accounts
  custom,     \* look of the custom rows of account_templates
  catalogue,  \* institutional rows: seeded, and is_active
  object,     \* the logo published for a catalogue entry
  req,        \* the request a process serves
  cmd,        \* the command a process runs
  disturbed   \* history: accounts v0.3 or an overtaken save wrote last

templates == <<custom, catalogue>>
vars == <<row, custom, catalogue, object, req, cmd, disturbed>>

AnyLook == Looks \cup {NoLook}

\* The looks the application writes: validateCustom and the DTOs of create and
\* update refuse another colour.  An account of v0.3 may have any.
AppLooks == {look \in AnyLook : Sanitized[look] = look}

Row == [tpl : Institutional \cup Customs \cup {NoTemplate}, look : AnyLook]

ASSUME NoRowAssumption == NoRow \notin Row \cup AnyLook

Objects == {"none", "reviewed", "damaged", "unreviewed"}

\* patch.template, patch.color and patch.icon; "none" changes the type or the
\* balance's part in the total, "rename" the name, "keep" asks for a custom
\* template without saying its look.
Patches == {"none", "rename", "legacy", "custom", "keep", "institutional"}

\* saved is the custom template the transaction holds; write the columns in
\* which its copy differed; stale says that somebody wrote the account since
\* it was read.
Request ==
  [pc : {"idle", "resolve", "save", "compare", "write"}, acc : Accounts \cup {NoRow},
   patch : Patches \cup {"other"}, copy : Row, look : AppLooks,
   saved : Customs \cup {NoTemplate}, write : SUBSET {"tpl", "look"}, stale : BOOLEAN]

\* batch is locked; left are accounts without a template that were locked
\* at the last query or lost theirs since; touched are entries somebody else
\* wrote since the command looked.
Command ==
  [pc : {"idle", "seed", "inspect", "publish", "batch", "next", "returned"},
   active : SUBSET Institutional, entry : Institutional \cup {NoRow},
   batch : SUBSET Accounts, left : SUBSET Accounts, touched : SUBSET Institutional]

TypeOK ==
  /\ row \in [Accounts -> Row \cup {NoRow}]
  /\ custom \in [Customs -> AppLooks \cup {NoRow}]
  /\ catalogue \in [Institutional -> {"absent", "active", "inactive"}]
  /\ object \in [Institutional -> Objects]
  /\ req \in [Processes -> Request]
  /\ cmd \in [Processes -> Command]
  /\ disturbed \subseteq Accounts

Bare == [tpl |-> NoTemplate, look |-> NoLook]

Idle == [pc |-> "idle", acc |-> NoRow, patch |-> "none", copy |-> Bare,
         look |-> NoLook, saved |-> NoTemplate, write |-> {}, stale |-> FALSE]

Resting == [pc |-> "idle", active |-> {}, entry |-> NoRow, batch |-> {},
            left |-> {}, touched |-> {}]

Init ==
  /\ row = [a \in Accounts |-> NoRow]
  /\ custom = [t \in Customs |-> NoRow]
  /\ catalogue = [i \in Institutional |-> "absent"]
  /\ object = [i \in Institutional |-> "none"]
  /\ req = [r \in Processes |-> Idle]
  /\ cmd = [c \in Processes |-> Resting]
  /\ disturbed = {}

-----------------------------------------------------------------------------
Free(p) == req[p].pc = "idle" /\ cmd[p].pc = "idle"

Live == {a \in Accounts : row[a] # NoRow}
Bereft == {a \in Live : row[a].tpl = NoTemplate}
Active == {i \in Institutional : catalogue[i] = "active"}

\* randomUUID: a template no row and no open transaction has.
Fresh == {t \in Customs : custom[t] = NoRow /\ \A r \in Processes : req[r].saved # t}

\* projectAccountTemplateToLegacyVisual, of the template read now.
Shown(t) == IF t \in Customs THEN custom[t]
            ELSE IF t \in Institutional THEN Projection[t] ELSE NoLook

\* SELECT ... FOR UPDATE of a reconciliation.
Locked(a) == \E c \in Processes : a \in cmd[c].batch

\* Everybody else who works on a has read it before this write.
Overtake(a, mine) ==
  [r \in Processes |-> IF mine[r].acc = a THEN [mine[r] EXCEPT !.stale = TRUE] ELSE mine[r]]

\* a loses its template, or comes without one, while commands run.
Leave(a) ==
  cmd' = [c \in Processes |->
            IF cmd[c].pc \notin {"batch", "returned"} THEN cmd[c]
            ELSE [cmd[c] EXCEPT !.left = @ \cup {a}]]

\* The commands under way, told that entries S are written.
Touched(S) ==
  [c \in Processes |->
     IF cmd[c].pc \in {"seed", "publish"} THEN [cmd[c] EXCEPT !.touched = @ \cup S]
     ELSE cmd[c]]

-----------------------------------------------------------------------------
(* Creating *)

\* Mutant: a look is remembered instead of a template of its own.
CustomFor_Mutant(look) == {t \in Customs : custom[t] \in {look, NoRow}}

\* createCustom: every account gets a template of its own.
CustomFor(look) == Fresh

\* CreateAccountUseCase and, with NoLook, the cash account of a new user.
CreateAccount(a) ==
  /\ row[a] = NoRow
  /\ \/ \E i \in Active :
          /\ row' = [row EXCEPT ![a] = [tpl |-> i, look |-> Projection[i]]]
          /\ UNCHANGED custom
     \/ \E look \in AppLooks : \E t \in CustomFor(look) :
          /\ custom' = [custom EXCEPT ![t] = look]
          /\ row' = [row EXCEPT ![a] = [tpl |-> t, look |-> look]]
  /\ UNCHANGED <<catalogue, object, req, cmd, disturbed>>

\* The v0.3 image knows no template.
LegacyCreate(a) ==
  /\ row[a] = NoRow
  /\ \E look \in AnyLook : row' = [row EXCEPT ![a] = [tpl |-> NoTemplate, look |-> look]]
  /\ Leave(a)
  /\ UNCHANGED <<templates, object, req, disturbed>>

LegacyWrite(a) ==
  /\ a \in Live /\ ~Locked(a)
  /\ \E look \in AnyLook \ {row[a].look} : row' = [row EXCEPT ![a].look = look]
  /\ req' = Overtake(a, req)
  /\ disturbed' = disturbed \cup {a}
  /\ UNCHANGED <<templates, object, cmd>>

-----------------------------------------------------------------------------
(* Updating *)

\* "other" are setDefault, archive and unarchive, which save the copy as it is.
\* They may find a cache entry of v0.3, which knows no template
\* (templateId: cached.templateId ?? null).
Copies(a, patch) ==
  {row[a]} \cup IF patch = "other" THEN {[row[a] EXCEPT !.tpl = NoTemplate]} ELSE {}

\* UpdateAccountUseCase reads the account in its transaction.
Read(r) ==
  /\ Free(r)
  /\ \E a \in Live, patch \in Patches \cup {"other"} : \E copy \in Copies(a, patch) :
       req' = [req EXCEPT ![r] =
         [Idle EXCEPT !.pc = IF patch = "other" THEN "compare" ELSE "resolve",
                      !.acc = a, !.patch = patch, !.copy = copy]]
  /\ UNCHANGED <<row, templates, object, cmd, disturbed>>

\* findActiveInstitutionalById; without such a template the request fails.
ChooseInstitutional(r) ==
  /\ req[r].pc = "resolve" /\ req[r].patch = "institutional"
  /\ \E i \in Active :
       req' = [req EXCEPT ![r] = [req[r] EXCEPT !.copy = [tpl |-> i, look |-> Shown(i)],
                                                !.pc = "compare", !.patch = "none"]]
  /\ UNCHANGED <<row, templates, object, cmd, disturbed>>

\* Mutant: what v0.3 wrote over the projection goes unnoticed.
Diverged_Mutant(copy) == FALSE

\* legacyDiverged: v0.3 wrote a look the template does not show.
Diverged(copy) == copy.tpl # NoTemplate /\ copy.look # Shown(copy.tpl)

\* No visual patch, and the template shows what the account does.  A new name
\* goes to a custom template too.
KeepsTemplate(r) ==
  LET copy == req[r].copy
  IN /\ copy.tpl # NoTemplate /\ ~Diverged(copy)
     /\ \/ req[r].patch = "none"
        \/ req[r].patch = "rename" /\ copy.tpl \notin Customs

\* The looks resolveVisualTemplate and applyCustomTemplateInput may arrive at.
Wanted(r) ==
  LET copy == req[r].copy
  IN IF req[r].patch \in {"legacy", "custom"} THEN AppLooks
     ELSE IF req[r].patch = "keep"
          THEN {IF copy.tpl \in Customs THEN custom[copy.tpl] ELSE NoLook}
          ELSE {Sanitized[copy.look]}

Resolve(r) ==
  /\ req[r].pc = "resolve" /\ req[r].patch # "institutional"
  /\ IF KeepsTemplate(r)
     THEN req' = [req EXCEPT ![r] = [req[r] EXCEPT !.pc = "compare", !.patch = "none"]]
     ELSE \E look \in Wanted(r) :
            req' = [req EXCEPT ![r] = [req[r] EXCEPT !.look = look, !.pc = "save",
                                                      !.patch = "none"]]
  /\ UNCHANGED <<row, templates, object, cmd, disturbed>>

\* saveCustomTemplate: the account's own custom template, or a new one.  The
\* UPDATE waits for another transaction that holds it.
SaveTemplate(r) ==
  /\ req[r].pc = "save"
  /\ LET look == req[r].look
         own == req[r].copy.tpl
     IN \E t \in IF own \in Customs THEN {own} ELSE CustomFor(look) :
          /\ \A s \in Processes : req[s].saved # t
          /\ req' = [req EXCEPT ![r] =
               [req[r] EXCEPT !.saved = t, !.copy = [tpl |-> t, look |-> look],
                              !.pc = "compare"]]
  /\ UNCHANGED <<row, templates, object, cmd, disturbed>>

\* save reads the row and keeps the columns in which the copy differs.
Compare(r) ==
  /\ req[r].pc = "compare"
  /\ req' = [req EXCEPT ![r] =
       [req[r] EXCEPT !.pc = "write",
                      !.write = {f \in {"tpl", "look"} :
                                   req[r].copy[f] # row[req[r].acc][f]}]]
  /\ UNCHANGED <<row, templates, object, cmd, disturbed>>

Merged(r) ==
  LET now == row[req[r].acc]
  IN [tpl |-> IF "tpl" \in req[r].write THEN req[r].copy.tpl ELSE now.tpl,
      look |-> IF "look" \in req[r].write THEN req[r].copy.look ELSE now.look]

\* updateCustomVisualIdentity, or the row of a new template.
Repainted(r) ==
  IF req[r].saved = NoTemplate THEN custom
  ELSE [custom EXCEPT ![req[r].saved] = req[r].look]

\* The UPDATE, which waits for a reconciliation, and the commit.
Write(r) ==
  LET a == req[r].acc
      new == Merged(r)
  IN /\ req[r].pc = "write" /\ ~Locked(a)
     /\ row' = [row EXCEPT ![a] = new]
     /\ custom' = Repainted(r)
     /\ IF new.tpl = NoTemplate THEN Leave(a) ELSE UNCHANGED cmd
     /\ disturbed' = IF req[r].stale THEN disturbed \cup {a}
                     ELSE IF req[r].patch = "other" THEN disturbed ELSE disturbed \ {a}
     /\ req' = Overtake(a, [req EXCEPT ![r] = Idle])
     /\ UNCHANGED <<catalogue, object>>

\* The account is archived, there is no such template, or the transaction
\* is rolled back.
GiveUp(r) ==
  /\ req[r].pc # "idle"
  /\ req' = [req EXCEPT ![r] = Idle]
  /\ UNCHANGED <<row, templates, object, cmd, disturbed>>

-----------------------------------------------------------------------------
(* The commands *)

\* Mutant: a full batch ends the run.
LastBatch_Mutant(S) == Cardinality(S) <= BatchSize

\* processed < batchSize.
LastBatch(S) == Cardinality(S) < BatchSize

\* findWithoutTemplateForUpdate: SKIP LOCKED passes over the batches of other
\* runs and over the rows of updates that are about to commit.
NextBatch(c) ==
  /\ Free(c) \/ cmd[c].pc = "next"
  /\ \E skipped \in SUBSET {a \in Bereft : \E r \in Processes :
                                             req[r].acc = a /\ req[r].pc = "write"} :
       LET free == {a \in Bereft : ~Locked(a)} \ skipped
           size == IF Cardinality(free) < BatchSize THEN Cardinality(free) ELSE BatchSize
       IN \E S \in kSubset(size, free) :
            cmd' = [cmd EXCEPT ![c] =
              [Resting EXCEPT !.pc = "batch", !.batch = S, !.left = Bereft \ free]]
  /\ UNCHANGED <<row, templates, object, req, disturbed>>

\* The custom templates a batch is given.
Assigned(S) == {f \in [S -> Fresh] : \A a, b \in S : f[a] = f[b] => a = b}

\* reconcileBatch, and the commit that frees the rows.  The template loses a
\* colour it may not have; associateTemplateForMigration leaves the account's.
ReconcileBatch(c) ==
  LET S == cmd[c].batch
  IN /\ cmd[c].pc = "batch"
     /\ \E f \in Assigned(S) :
          /\ row' = [a \in Accounts |-> IF a \in S THEN [row[a] EXCEPT !.tpl = f[a]] ELSE row[a]]
          /\ custom' = [t \in Customs |->
                          IF \E a \in S : f[a] = t
                          THEN Sanitized[row[CHOOSE a \in S : f[a] = t].look] ELSE custom[t]]
     /\ req' = [r \in Processes |->
                  IF req[r].acc \in S THEN [req[r] EXCEPT !.stale = TRUE] ELSE req[r]]
     /\ disturbed' = disturbed \ S
     /\ cmd' = [cmd EXCEPT ![c] =
          IF LastBatch(S) THEN [cmd[c] EXCEPT !.batch = {}, !.pc = "returned"]
          ELSE [Resting EXCEPT !.pc = "next"]]
     /\ UNCHANGED <<catalogue, object>>

\* Seeding reads every entry of the catalogue.
Seed(c) ==
  /\ Free(c)
  /\ cmd' = [cmd EXCEPT ![c] = [Resting EXCEPT !.pc = "seed", !.active =
                                  {i \in Institutional : catalogue[i] # "inactive"}]]
  /\ UNCHANGED <<row, templates, object, req, disturbed>>

\* Mutant: seeding activates what it writes.
StaysActive_Mutant(c, i) == TRUE

\* existing?.isActive ?? true
StaysActive(c, i) == i \in cmd[c].active

CommitSeed(c) ==
  /\ cmd[c].pc = "seed"
  /\ catalogue' = [i \in Institutional |->
                     IF StaysActive(c, i) THEN "active" ELSE "inactive"]
  /\ LET others == Touched({i \in Institutional : catalogue'[i] # catalogue[i]})
     IN cmd' = [others EXCEPT ![c] = Resting]
  /\ UNCHANGED <<row, custom, object, req, disturbed>>

\* The record of BrasilAPI and the reviewed checksum of the logo agree with
\* the entry, or the command fails.
Curate(c) ==
  /\ Free(c)
  /\ \E i \in Institutional :
       cmd' = [cmd EXCEPT ![c] = [Resting EXCEPT !.pc = "inspect", !.entry = i]]
  /\ UNCHANGED <<row, templates, object, req, disturbed>>

\* Nothing, or the reviewed logo with another length or content type.
Replaceable == {"none", "damaged"}

\* headObject: what nobody reviewed is refused, what is published stays.
Inspect(c) ==
  /\ cmd[c].pc = "inspect"
  /\ LET i == cmd[c].entry
     IN cmd' = [cmd EXCEPT ![c] =
          IF object[i] \in Replaceable THEN [Resting EXCEPT !.pc = "publish", !.entry = i]
          ELSE Resting]
  /\ UNCHANGED <<row, templates, object, req, disturbed>>

\* putObject; the verification that follows only reports.
Publish(c) ==
  /\ cmd[c].pc = "publish"
  /\ object' = [object EXCEPT ![cmd[c].entry] = "reviewed"]
  /\ LET others == Touched({cmd[c].entry}) IN cmd' = [others EXCEPT ![c] = Resting]
  /\ UNCHANGED <<row, templates, req, disturbed>>

\* The command fails, and with it its transaction, or has returned.
End(c) ==
  /\ cmd[c].pc # "idle"
  /\ cmd' = [cmd EXCEPT ![c] = Resting]
  /\ UNCHANGED <<row, templates, object, req, disturbed>>

\* Somebody switches a template off or on, or uploads or removes an object.
Operate(i) ==
  /\ \/ /\ catalogue[i] # "absent"
        /\ catalogue' = [catalogue EXCEPT ![i] = IF @ = "active" THEN "inactive" ELSE "active"]
        /\ UNCHANGED object
     \/ /\ \E o \in Objects \ {"reviewed"} : object' = [object EXCEPT ![i] = o]
        /\ UNCHANGED catalogue
  /\ cmd' = Touched({i})
  /\ UNCHANGED <<row, custom, req, disturbed>>

-----------------------------------------------------------------------------
Next ==
  \/ \E a \in Accounts : CreateAccount(a) \/ LegacyCreate(a) \/ LegacyWrite(a)
  \/ \E r \in Processes :
       \/ Read(r) \/ ChooseInstitutional(r) \/ Resolve(r) \/ SaveTemplate(r)
       \/ Compare(r) \/ Write(r) \/ GiveUp(r)
  \/ \E c \in Processes :
       \/ NextBatch(c) \/ ReconcileBatch(c) \/ Seed(c) \/ CommitSeed(c)
       \/ Curate(c) \/ Inspect(c) \/ Publish(c) \/ End(c)
  \/ \E i \in Institutional : Operate(i)

Spec == Init /\ [][Next]_vars

-----------------------------------------------------------------------------
(* Properties *)

\* A custom template belongs to one account, whatever requests and
\* reconciliations run at once (DEC-011; saveCustomTemplate, reconcileBatch).
CustomIsPrivate ==
  \A a, b \in Live : row[a].tpl = row[b].tpl /\ row[a].tpl \in Customs => a = b

\* The look v0.3 sees is the one the template shows, unless v0.3 wrote last or
\* a save did whose account somebody wrote after it was read: an update that
\* nobody overtakes also mends what v0.3 left (resolveVisualTemplate).  The one
\* difference is a colour the application does not know, which a reconciliation
\* leaves on the account and keeps from the template.
VisualAgrees ==
  \A a \in Live \ disturbed :
    row[a].tpl # NoTemplate => Sanitized[row[a].look] = Shown(row[a].tpl)

\* When a reconciliation returns, an account still has no template only
\* because it was locked at the last query or came or lost its template since.
ReconcileCovers == \A c \in Processes : cmd[c].pc = "returned" => Bereft \subseteq cmd[c].left

\* A command undoes what an operator did only if that was done after the
\* command looked: a template switched off stays off, and an object nobody
\* reviewed is not replaced (seed, publish).
OperatorPrevails ==
  [][\A c \in Processes, i \in Institutional :
       /\ cmd'[c] # cmd[c] /\ i \notin cmd[c].touched /\ i \notin cmd'[c].touched
       => /\ catalogue[i] = "inactive" => catalogue'[i] = "inactive"
          /\ object[i] = "unreviewed" => object'[i] = "unreviewed"]_vars
=============================================================================
