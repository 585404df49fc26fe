----------------------- MODULE AccountTemplatesProofs -----------------------
(***************************************************************************)
(* Whatever requests, reconciliations, seeds and curations run at once: a  *)
(* custom template belongs to one account, the look v0.3 sees agrees with  *)
(* the template, a reconciliation covers what it can, and an operator's    *)
(* decisions prevail.                                                      *)
(***************************************************************************)
EXTENDS AccountTemplates, FiniteSetTheorems, TLAPS

-----------------------------------------------------------------------------
(* Types, and what exists *)

\* A request works on an account that exists, and on a custom template that
\* exists or that its own transaction holds; one that saves a template has
\* applied its patch.
Sound(q) ==
  /\ q \in Request
  /\ q.pc # "idle" => q.acc \in Live
  /\ q.saved # NoTemplate =>
       q.pc \in {"compare", "write"} /\ q.copy.tpl = q.saved /\ q.copy.look = q.look
  /\ q.pc = "save" \/ q.saved # NoTemplate => q.patch = "none"
  /\ q.copy.tpl \in Customs => custom[q.copy.tpl] # NoRow \/ q.saved = q.copy.tpl

\* A command holds rows that exist, and publishes for an entry.
Armed(d) ==
  /\ d \in Command
  /\ d.batch \subseteq Live
  /\ d.pc \in {"inspect", "publish"} => d.entry \in Institutional

Types ==
  /\ TypeOK
  /\ \A a \in Live : row[a].tpl \in Customs => custom[row[a].tpl] # NoRow
  /\ \A r \in Processes : Sound(req[r])
  /\ \A c \in Processes : Armed(cmd[c])

LEMMA ConstantTypes == Idle \in Request /\ Resting \in Command /\ NoTemplate \notin Customs
BY TemplatesAssumption, SanitizedAssumption
DEF Idle, Request, Bare, Row, Patches, AnyLook, AppLooks, Resting, Command

\* What the application writes; a sanitized look is one of these.
LEMMA SanitizedLooks ==
  /\ AppLooks \subseteq AnyLook /\ NoLook \in AppLooks /\ NoRow \notin AppLooks
  /\ \A i \in Institutional : Projection[i] \in AppLooks
  /\ \A look \in AnyLook : Sanitized[look] \in AppLooks
  /\ \A look \in AppLooks : Sanitized[look] = look
BY SanitizedAssumption, ProjectionAssumption, NoRowAssumption DEF AppLooks, AnyLook

\* What a later moment makes of q: the same but for the mark.
Same(now, q) ==
  /\ now \in Request
  /\ now.pc = q.pc /\ now.acc = q.acc /\ now.patch = q.patch /\ now.copy = q.copy
  /\ now.look = q.look /\ now.saved = q.saved /\ now.write = q.write

\* Overtake only marks the requests that work on a.
LEMMA OvertakeMarks ==
  ASSUME NEW a \in Accounts, NEW mine \in [Processes -> Request]
  PROVE  /\ Overtake(a, mine) \in [Processes -> Request]
         /\ \A r \in Processes :
              /\ Same(Overtake(a, mine)[r], mine[r])
              /\ ~Overtake(a, mine)[r].stale => ~mine[r].stale /\ mine[r].acc # a
<1>1. ASSUME NEW r \in Processes
      PROVE  /\ Same(Overtake(a, mine)[r], mine[r])
             /\ ~Overtake(a, mine)[r].stale => ~mine[r].stale /\ mine[r].acc # a
  <2>1. mine[r] \in Request
    OBVIOUS
  <2>2. CASE mine[r].acc = a
    <3>1. Overtake(a, mine)[r] = [mine[r] EXCEPT !.stale = TRUE]
      BY <2>2 DEF Overtake
    <3>2. Same([mine[r] EXCEPT !.stale = TRUE], mine[r])
      BY <2>1 DEF Same, Request
    <3>3. [mine[r] EXCEPT !.stale = TRUE].stale = TRUE
      BY <2>1 DEF Request
    <3> QED  BY <3>1, <3>2, <3>3
  <2>3. CASE mine[r].acc # a
    <3>1. Overtake(a, mine)[r] = mine[r]
      BY <2>3 DEF Overtake
    <3> QED  BY <2>1, <2>3, <3>1 DEF Same
  <2> QED  BY <2>2, <2>3
<1>2. Overtake(a, mine) \in [Processes -> Request]
  BY <1>1 DEF Overtake, Same
<1> QED  BY <1>1, <1>2

\* Leave tells the reconciliations under way, and changes nothing else.
LEMMA LeaveTells ==
  ASSUME cmd \in [Processes -> Command], NEW a \in Accounts, Leave(a)
  PROVE  /\ cmd' \in [Processes -> Command]
         /\ \A c \in Processes :
              /\ cmd'[c].pc = cmd[c].pc /\ cmd'[c].batch = cmd[c].batch
              /\ cmd'[c].active = cmd[c].active /\ cmd'[c].entry = cmd[c].entry
              /\ cmd'[c].touched = cmd[c].touched
              /\ cmd[c].left \subseteq cmd'[c].left
              /\ cmd[c].pc \in {"batch", "returned"} => a \in cmd'[c].left
<1>1. ASSUME NEW c \in Processes
      PROVE  /\ cmd'[c] \in Command
             /\ cmd'[c].pc = cmd[c].pc /\ cmd'[c].batch = cmd[c].batch
             /\ cmd'[c].active = cmd[c].active /\ cmd'[c].entry = cmd[c].entry
             /\ cmd'[c].touched = cmd[c].touched
             /\ cmd[c].left \subseteq cmd'[c].left
             /\ cmd[c].pc \in {"batch", "returned"} => a \in cmd'[c].left
  <2>1. cmd[c] \in Command
    OBVIOUS
  <2>2. cmd'[c] = IF cmd[c].pc \notin {"batch", "returned"} THEN cmd[c]
                  ELSE [cmd[c] EXCEPT !.left = @ \cup {a}]
    BY DEF Leave
  <2> QED  BY <2>1, <2>2 DEF Command
<1> QED  BY <1>1 DEF Leave

\* Touched tells seeds and publications under way, and changes nothing else.
LEMMA TouchedTells ==
  ASSUME cmd \in [Processes -> Command], NEW S \in SUBSET Institutional
  PROVE  /\ Touched(S) \in [Processes -> Command]
         /\ \A c \in Processes :
              LET now == Touched(S)[c]
              IN /\ now.pc = cmd[c].pc /\ now.batch = cmd[c].batch
                 /\ now.active = cmd[c].active /\ now.entry = cmd[c].entry
                 /\ now.left = cmd[c].left
                 /\ cmd[c].touched \subseteq now.touched
                 /\ cmd[c].pc \in {"seed", "publish"} => S \subseteq now.touched
                 /\ cmd[c].pc \notin {"seed", "publish"} => now = cmd[c]
<1>1. ASSUME NEW c \in Processes
      PROVE  LET now == Touched(S)[c]
             IN /\ now \in Command
                /\ now.pc = cmd[c].pc /\ now.batch = cmd[c].batch
                /\ now.active = cmd[c].active /\ now.entry = cmd[c].entry
                /\ now.left = cmd[c].left
                /\ cmd[c].touched \subseteq now.touched
                /\ cmd[c].pc \in {"seed", "publish"} => S \subseteq now.touched
                /\ cmd[c].pc \notin {"seed", "publish"} => now = cmd[c]
  <2>1. cmd[c] \in Command
    OBVIOUS
  <2>2. Touched(S)[c] = IF cmd[c].pc \in {"seed", "publish"}
                        THEN [cmd[c] EXCEPT !.touched = @ \cup S] ELSE cmd[c]
    BY DEF Touched
  <2> QED  BY <2>1, <2>2 DEF Command
<1>2. Touched(S) \in [Processes -> Command]
  BY <1>1 DEF Touched
<1> QED  BY <1>1, <1>2

LEMMA InitTypes == Init => Types
<1> SUFFICES ASSUME Init PROVE Types
  OBVIOUS
<1>1. TypeOK
  BY ConstantTypes DEF Init, TypeOK, Objects
<1>2. Live = {} /\ \A c \in Processes : Armed(cmd[c])
  BY ConstantTypes DEF Init, Live, Resting, Armed
<1>3. \A r \in Processes : Sound(req[r])
  BY ConstantTypes DEF Init, Sound, Idle, Bare
<1> QED  BY <1>1, <1>2, <1>3 DEF Types

\* A step of one request that commits nothing.
LEMMA RequestMoves ==
  ASSUME Types, NEW r \in Processes, NEW q, Sound(q), req' = [req EXCEPT ![r] = q],
         UNCHANGED <<row, templates, object, cmd, disturbed>>
  PROVE  Types'
<1>1. req' \in [Processes -> Request]
  BY DEF Types, TypeOK, Sound
<1>2. TypeOK'
  BY <1>1 DEF Types, TypeOK, templates
<1>3. \A s \in Processes : Sound(req'[s])
  BY DEF Types, TypeOK
<1>4. Live' = Live /\ custom' = custom
  BY DEF Live, templates
<1>5. \A c \in Processes : Armed(cmd'[c])
  BY DEF Types
<1> QED  BY <1>2, <1>3, <1>4, <1>5 DEF Types, Sound, Live, Armed

\* A step of the commands that writes no account.
LEMMA CommandsMove ==
  ASSUME Types, cmd' \in [Processes -> Command],
         \A c \in Processes : Armed(cmd'[c]),
         catalogue' \in [Institutional -> {"absent", "active", "inactive"}],
         object' \in [Institutional -> Objects],
         UNCHANGED <<row, custom, req, disturbed>>
  PROVE  Types'
<1>1. TypeOK'
  BY DEF Types, TypeOK
<1>2. Live' = Live /\ \A r \in Processes : Sound(req[r])' = Sound(req[r])
  BY DEF Live, Sound
<1> QED  BY <1>1, <1>2 DEF Types, Armed

\* A step that writes accounts or custom templates: what exists remains, and a
\* request is where it was or over.
LEMMA RowsMove ==
  ASSUME Types,
         row' \in [Accounts -> Row \cup {NoRow}], Live \subseteq Live',
         custom' \in [Customs -> AppLooks \cup {NoRow}],
         \A t \in Customs : custom[t] # NoRow => custom'[t] # NoRow,
         \A a \in Live' : row'[a].tpl \in Customs => custom'[row'[a].tpl] # NoRow,
         req' \in [Processes -> Request],
         \A s \in Processes : Same(req'[s], req[s]) \/ Same(req'[s], Idle),
         cmd' \in [Processes -> Command],
         \A c \in Processes :
           /\ cmd'[c].batch \subseteq cmd[c].batch
           /\ cmd'[c].pc \in {"inspect", "publish"} =>
                cmd'[c].pc = cmd[c].pc /\ cmd'[c].entry = cmd[c].entry,
         disturbed' \subseteq Accounts,
         UNCHANGED <<catalogue, object>>
  PROVE  Types'
<1>1. TypeOK'
  BY DEF Types, TypeOK
<1>2. ASSUME NEW s \in Processes PROVE Sound(req[s])'
  <2>1. CASE Same(req'[s], req[s])
    <3>1. Sound(req[s]) /\ req'[s] \in Request
      BY DEF Types
    <3> QED  BY <2>1, <3>1 DEF Same, Sound
  <2>2. CASE Same(req'[s], Idle)
    BY <2>2, ConstantTypes DEF Same, Sound, Idle, Bare
  <2> QED  BY <2>1, <2>2
<1>3. \A c \in Processes : Armed(cmd[c])'
  BY DEF Types, Armed
<1> QED  BY <1>1, <1>2, <1>3 DEF Types

\* A custom template of a new row or request: none has it.
LEMMA FreshIsNew ==
  ASSUME Types, NEW t \in Fresh
  PROVE  /\ t \in Customs /\ custom[t] = NoRow
         /\ \A a \in Live : row[a].tpl # t
         /\ \A r \in Processes : req[r].copy.tpl # t
BY DEF Types, Fresh, Sound

LEMMA CreateAccountTypes ==
  ASSUME Types, NEW a \in Accounts, CreateAccount(a) PROVE Types'
<1>1. ASSUME NEW new \in Row, row' = [row EXCEPT ![a] = new],
             custom' \in [Customs -> AppLooks \cup {NoRow}],
             \A t \in Customs : custom[t] # NoRow => custom'[t] # NoRow,
             new.tpl \in Customs => custom'[new.tpl] # NoRow
      PROVE  Types'
  <2>1. /\ row' \in [Accounts -> Row \cup {NoRow}]
        /\ Live' \subseteq Live \cup {a} /\ Live \subseteq Live'
    BY <1>1, NoRowAssumption DEF Types, TypeOK, Live
  <2>2. \A b \in Live' : row'[b].tpl \in Customs => custom'[row'[b].tpl] # NoRow
    BY <1>1, <2>1 DEF Types, TypeOK, Live
  <2>3. /\ req' = req /\ cmd' = cmd /\ disturbed' = disturbed
        /\ catalogue' = catalogue /\ object' = object
    BY DEF CreateAccount
  <2>4. \A s \in Processes : Same(req'[s], req[s])
    BY <2>3 DEF Types, Sound, Same
  <2> QED  BY <1>1, <2>1, <2>2, <2>3, <2>4, RowsMove DEF Types, TypeOK
<1>2. CASE \E i \in Active : /\ row' = [row EXCEPT ![a] = [tpl |-> i, look |-> Projection[i]]]
                             /\ UNCHANGED custom
  <2>1. PICK i \in Active : row' = [row EXCEPT ![a] = [tpl |-> i, look |-> Projection[i]]]
    BY <1>2
  <2>2. [tpl |-> i, look |-> Projection[i]] \in Row /\ i \notin Customs
    BY ProjectionAssumption, TemplatesAssumption DEF Row, AnyLook, Active
  <2> QED  BY <1>1, <1>2, <2>1, <2>2 DEF Types, TypeOK
<1>3. CASE \E look \in AppLooks : \E t \in CustomFor(look) :
             /\ custom' = [custom EXCEPT ![t] = look]
             /\ row' = [row EXCEPT ![a] = [tpl |-> t, look |-> look]]
  <2>1. PICK look \in AppLooks, t \in Customs :
          /\ custom' = [custom EXCEPT ![t] = look]
          /\ row' = [row EXCEPT ![a] = [tpl |-> t, look |-> look]]
    BY <1>3 DEF CustomFor, Fresh
  <2>2. [tpl |-> t, look |-> look] \in Row
    BY SanitizedLooks DEF Row
  <2>3. /\ custom' \in [Customs -> AppLooks \cup {NoRow}] /\ custom'[t] # NoRow
        /\ \A u \in Customs : custom[u] # NoRow => custom'[u] # NoRow
    BY <2>1, SanitizedLooks DEF Types, TypeOK
  <2> QED  BY <1>1, <2>1, <2>2, <2>3
<1> QED  BY <1>2, <1>3 DEF CreateAccount

LEMMA LegacyCreateTypes ==
  ASSUME Types, NEW a \in Accounts, LegacyCreate(a) PROVE Types'
<1>1. PICK look \in AnyLook : row' = [row EXCEPT ![a] = [tpl |-> NoTemplate, look |-> look]]
  BY DEF LegacyCreate
<1>2. [tpl |-> NoTemplate, look |-> look] \in Row
  BY DEF Row
<1>3. row' \in [Accounts -> Row \cup {NoRow}] /\ Live \subseteq Live' /\ Live' \subseteq Live \cup {a}
  BY <1>1, <1>2, NoRowAssumption DEF Types, TypeOK, Live
<1>4. /\ req' = req /\ custom' = custom /\ disturbed' = disturbed
      /\ catalogue' = catalogue /\ object' = object
  BY DEF LegacyCreate, templates
<1>5. \A b \in Live' : row'[b].tpl \in Customs => custom'[row'[b].tpl] # NoRow
  BY <1>1, <1>3, <1>4, ConstantTypes DEF Types, TypeOK, Live
<1>6. cmd' \in [Processes -> Command] /\ \A c \in Processes :
        cmd'[c].batch = cmd[c].batch /\ cmd'[c].pc = cmd[c].pc /\ cmd'[c].entry = cmd[c].entry
  BY LeaveTells DEF LegacyCreate, Types, TypeOK
<1>7. \A s \in Processes : Same(req'[s], req[s])
  BY <1>4 DEF Types, Sound, Same
<1> QED  BY <1>3, <1>4, <1>5, <1>6, <1>7, RowsMove DEF Types, TypeOK

LEMMA LegacyWriteTypes ==
  ASSUME Types, NEW a \in Accounts, LegacyWrite(a) PROVE Types'
<1>1. PICK look \in AnyLook : row' = [row EXCEPT ![a].look = look]
  BY DEF LegacyWrite
<1>2. row[a] \in Row /\ a \in Live
  BY DEF LegacyWrite, Live, Types, TypeOK
<1>3. row'[a] \in Row /\ row'[a].tpl = row[a].tpl
  BY <1>1, <1>2 DEF Types, TypeOK, Row
<1>4. /\ row' \in [Accounts -> Row \cup {NoRow}] /\ Live' = Live
      /\ \A b \in Accounts \ {a} : row'[b] = row[b]
  BY <1>1, <1>2, <1>3, NoRowAssumption DEF Types, TypeOK, Live
<1>5. /\ cmd' = cmd /\ custom' = custom /\ disturbed' \subseteq Accounts
      /\ catalogue' = catalogue /\ object' = object
  BY DEF LegacyWrite, templates, Types, TypeOK
<1>6. \A b \in Live' : row'[b].tpl \in Customs => custom'[row'[b].tpl] # NoRow
  BY <1>3, <1>4, <1>5 DEF Types, TypeOK, Live
<1>7. req' \in [Processes -> Request] /\ \A s \in Processes : Same(req'[s], req[s])
  BY OvertakeMarks DEF LegacyWrite, Types, TypeOK
<1> QED  BY <1>4, <1>5, <1>6, <1>7, RowsMove DEF Types, TypeOK

\* A copy is the account as it is, or without its template.
LEMMA CopiesTypes ==
  ASSUME Types, NEW a \in Live, NEW patch, NEW copy \in Copies(a, patch)
  PROVE  /\ copy \in Row /\ copy.look = row[a].look
         /\ copy.tpl \in {row[a].tpl, NoTemplate}
         /\ patch # "other" => copy = row[a]
<1>1. row[a] \in Row
  BY DEF Live, Types, TypeOK
<1> QED  BY <1>1 DEF Copies, Row

LEMMA ReadTypes ==
  ASSUME Types, NEW r \in Processes, Read(r) PROVE Types'
<1>0. PICK a \in Live, patch \in Patches \cup {"other"} : \E copy \in Copies(a, patch) :
        req' = [req EXCEPT ![r] =
          [Idle EXCEPT !.pc = IF patch = "other" THEN "compare" ELSE "resolve",
                       !.acc = a, !.patch = patch, !.copy = copy]]
  BY DEF Read
<1>1. PICK copy \in Copies(a, patch) :
        req' = [req EXCEPT ![r] =
          [Idle EXCEPT !.pc = IF patch = "other" THEN "compare" ELSE "resolve",
                       !.acc = a, !.patch = patch, !.copy = copy]]
  BY <1>0
<1> DEFINE q == [Idle EXCEPT !.pc = IF patch = "other" THEN "compare" ELSE "resolve",
                             !.acc = a, !.patch = patch, !.copy = copy]
<1>2. a \in Accounts /\ row[a] \in Row /\ copy \in Row /\ copy.tpl \in {row[a].tpl, NoTemplate}
  BY CopiesTypes DEF Live, Types, TypeOK
<1>3. q \in Request
  BY <1>2, ConstantTypes DEF Idle, Request
<1>4. q.acc = a /\ q.saved = NoTemplate /\ q.copy = copy /\ q.pc \in {"compare", "resolve"}
  BY DEF Idle
<1>5. Sound(q)
  <2>1. copy.tpl \in Customs => custom[copy.tpl] # NoRow
    BY <1>2, ConstantTypes DEF Types
  <2> HIDE DEF q
  <2> QED  BY <1>3, <1>4, <2>1 DEF Sound
<1>6. UNCHANGED <<row, templates, object, cmd, disturbed>>
  BY DEF Read
<1> QED  BY <1>1, <1>5, <1>6, RequestMoves

LEMMA ChooseInstitutionalTypes ==
  ASSUME Types, NEW r \in Processes, ChooseInstitutional(r) PROVE Types'
<1>1. PICK i \in Active : req' = [req EXCEPT ![r] =
        [req[r] EXCEPT !.copy = [tpl |-> i, look |-> Shown(i)],
                       !.pc = "compare", !.patch = "none"]]
  BY DEF ChooseInstitutional
<1> DEFINE q == [req[r] EXCEPT !.copy = [tpl |-> i, look |-> Shown(i)],
                               !.pc = "compare", !.patch = "none"]
<1>2. [tpl |-> i, look |-> Shown(i)] \in Row /\ i \notin Customs
  BY ProjectionAssumption, TemplatesAssumption DEF Active, Shown, Row, AnyLook
<1>3. Sound(req[r]) /\ req[r] \in Request /\ req[r].pc = "resolve"
  BY DEF Types, Sound, ChooseInstitutional
<1>4. /\ q \in Request /\ q.acc = req[r].acc /\ q.saved = req[r].saved
      /\ q.copy = [tpl |-> i, look |-> Shown(i)] /\ q.patch = "none"
  BY <1>2, <1>3 DEF Request, Patches
<1>5. Sound(q)
  BY <1>2, <1>3, <1>4 DEF Sound
<1>6. UNCHANGED <<row, templates, object, cmd, disturbed>>
  BY DEF ChooseInstitutional
<1> QED  BY <1>1, <1>5, <1>6, RequestMoves

\* Before a template is saved the copy shows one that exists, or none.
LEMMA WantedTypes ==
  ASSUME Types, NEW r \in Processes, req[r].pc = "resolve", req[r].patch # "institutional",
         NEW look \in Wanted(r)
  PROVE  look \in AppLooks
<1>1. req[r] \in Request /\ req[r].copy \in Row /\ Sound(req[r])
  BY DEF Types, TypeOK, Request
<1>2. req[r].copy.tpl \in Customs => custom[req[r].copy.tpl] \in AppLooks
  BY <1>1, ConstantTypes DEF Sound, Types, TypeOK
<1>3. CASE req[r].patch \in {"legacy", "custom"}
  BY <1>3 DEF Wanted
<1>4. CASE req[r].patch = "keep"
  BY <1>2, <1>4, SanitizedLooks DEF Wanted
<1>5. CASE req[r].patch \notin {"legacy", "custom", "keep"}
  BY <1>1, <1>5, SanitizedLooks DEF Wanted, Row
<1> QED  BY <1>3, <1>4, <1>5

LEMMA ResolveTypes ==
  ASSUME Types, NEW r \in Processes, Resolve(r) PROVE Types'
<1>1. req[r] \in Request /\ Sound(req[r]) /\ req[r].pc = "resolve"
  BY DEF Types, Sound, Resolve
<1>2. UNCHANGED <<row, templates, object, cmd, disturbed>>
  BY DEF Resolve
<1>3. CASE KeepsTemplate(r)
  <2> DEFINE q == [req[r] EXCEPT !.pc = "compare", !.patch = "none"]
  <2>1. req' = [req EXCEPT ![r] = q]
    BY <1>3 DEF Resolve
  <2>2. /\ q \in Request /\ q.acc = req[r].acc /\ q.saved = req[r].saved /\ q.copy = req[r].copy
        /\ q.patch = "none"
    BY <1>1 DEF Request, Patches
  <2>3. Sound(q)
    BY <1>1, <2>2 DEF Sound
  <2> QED  BY <1>2, <2>1, <2>3, RequestMoves
<1>4. CASE ~KeepsTemplate(r)
  <2>1. PICK look \in Wanted(r) : req' = [req EXCEPT ![r] =
          [req[r] EXCEPT !.look = look, !.pc = "save", !.patch = "none"]]
    BY <1>4 DEF Resolve
  <2> DEFINE q == [req[r] EXCEPT !.look = look, !.pc = "save", !.patch = "none"]
  <2>2. look \in AppLooks
    BY <1>1, WantedTypes DEF Resolve
  <2>3. /\ q \in Request /\ q.acc = req[r].acc /\ q.saved = req[r].saved /\ q.copy = req[r].copy
        /\ q.patch = "none"
    BY <1>1, <2>2 DEF Request, Patches
  <2>4. Sound(q)
    BY <1>1, <2>3 DEF Sound
  <2> QED  BY <1>2, <2>1, <2>4, RequestMoves
<1> QED  BY <1>3, <1>4

LEMMA SaveTemplateTypes ==
  ASSUME Types, NEW r \in Processes, SaveTemplate(r) PROVE Types'
<1>1. PICK t \in Customs : req' = [req EXCEPT ![r] =
        [req[r] EXCEPT !.saved = t, !.copy = [tpl |-> t, look |-> req[r].look],
                       !.pc = "compare"]]
  BY DEF SaveTemplate, CustomFor, Fresh
<1> DEFINE q == [req[r] EXCEPT !.saved = t, !.copy = [tpl |-> t, look |-> req[r].look],
                               !.pc = "compare"]
<1>2. req[r] \in Request /\ Sound(req[r]) /\ req[r].pc = "save"
  BY DEF Types, Sound, SaveTemplate
<1>3. [tpl |-> t, look |-> req[r].look] \in Row
  BY <1>2, SanitizedLooks DEF Row, Request
<1>4. /\ q \in Request /\ q.acc = req[r].acc /\ q.saved = t /\ q.pc = "compare"
      /\ q.copy = [tpl |-> t, look |-> req[r].look] /\ q.look = req[r].look
      /\ q.patch = req[r].patch
  BY <1>2, <1>3 DEF Request
<1>5. Sound(q)
  BY <1>2, <1>4 DEF Sound
<1>6. UNCHANGED <<row, templates, object, cmd, disturbed>>
  BY DEF SaveTemplate
<1> QED  BY <1>1, <1>5, <1>6, RequestMoves

LEMMA CompareTypes ==
  ASSUME Types, NEW r \in Processes, Compare(r) PROVE Types'
<1> DEFINE W == {f \in {"tpl", "look"} : req[r].copy[f] # row[req[r].acc][f]}
           q == [req[r] EXCEPT !.pc = "write", !.write = W]
<1>1. req[r] \in Request /\ Sound(req[r]) /\ req[r].pc = "compare"
  BY DEF Types, Sound, Compare
<1>2. W \subseteq {"tpl", "look"}
  OBVIOUS
<1>3. /\ q \in Request /\ q.acc = req[r].acc /\ q.saved = req[r].saved /\ q.pc = "write"
      /\ q.copy = req[r].copy /\ q.look = req[r].look /\ q.patch = req[r].patch
  <2> HIDE DEF W
  <2> QED  BY <1>1, <1>2 DEF Request
<1>4. Sound(q)
  BY <1>1, <1>3 DEF Sound
<1>5. UNCHANGED <<row, templates, object, cmd, disturbed>> /\ req' = [req EXCEPT ![r] = q]
  BY DEF Compare
<1> QED  BY <1>4, <1>5, RequestMoves

\* What a write leaves: the account's row is its copy's or what was there.
LEMMA MergedTypes ==
  ASSUME Types, NEW r \in Processes, req[r].pc = "write"
  PROVE  /\ req[r].acc \in Live /\ Merged(r) \in Row
         /\ Merged(r).tpl \in {req[r].copy.tpl, row[req[r].acc].tpl}
<1>1. req[r] \in Request /\ req[r].acc \in Live /\ req[r].copy \in Row
  BY DEF Types, Sound, Request
<1>2. row[req[r].acc] \in Row
  BY <1>1 DEF Live, Types, TypeOK
<1> QED  BY <1>1, <1>2 DEF Merged, Row

LEMMA RepaintedTypes ==
  ASSUME Types, NEW r \in Processes, req[r].pc = "write"
  PROVE  /\ Repainted(r) \in [Customs -> AppLooks \cup {NoRow}]
         /\ \A t \in Customs : custom[t] # NoRow => Repainted(r)[t] # NoRow
         /\ \A t \in Customs : t # req[r].saved => Repainted(r)[t] = custom[t]
         /\ req[r].saved \in Customs => Repainted(r)[req[r].saved] = req[r].look
         /\ req[r].copy.tpl \in Customs => Repainted(r)[req[r].copy.tpl] # NoRow
<1>1. /\ req[r].look \in AppLooks /\ req[r].saved \in Customs \cup {NoTemplate}
      /\ custom \in [Customs -> AppLooks \cup {NoRow}] /\ Sound(req[r])
  BY DEF Types, TypeOK, Request
<1>2. req[r].look # NoRow
  BY <1>1, SanitizedLooks
<1> QED  BY <1>1, <1>2, ConstantTypes DEF Repainted, Sound

LEMMA WriteTypes ==
  ASSUME Types, NEW r \in Processes, Write(r) PROVE Types'
<1>1. PICK a : a = req[r].acc
  OBVIOUS
<1>2. PICK new : new = Merged(r)
  OBVIOUS
<1>3. /\ req[r].pc = "write" /\ row' = [row EXCEPT ![a] = new] /\ custom' = Repainted(r)
      /\ (Leave(a) \/ UNCHANGED cmd) /\ UNCHANGED <<catalogue, object>>
      /\ req' = Overtake(a, [req EXCEPT ![r] = Idle])
      /\ disturbed' \subseteq disturbed \cup {a}
  BY <1>1, <1>2 DEF Write
<1>4. a \in Live /\ a \in Accounts /\ new \in Row /\ new.tpl \in {req[r].copy.tpl, row[a].tpl}
  BY <1>1, <1>2, <1>3, MergedTypes DEF Live
<1>5. /\ row' \in [Accounts -> Row \cup {NoRow}] /\ Live' = Live
      /\ row'[a] = new /\ \A b \in Accounts \ {a} : row'[b] = row[b]
  BY <1>3, <1>4, NoRowAssumption DEF Types, TypeOK, Live
<1>6. /\ custom' \in [Customs -> AppLooks \cup {NoRow}]
      /\ \A t \in Customs : custom[t] # NoRow => custom'[t] # NoRow
      /\ req[r].copy.tpl \in Customs => custom'[req[r].copy.tpl] # NoRow
  BY <1>3, RepaintedTypes
<1>7. \A b \in Live' : row'[b].tpl \in Customs => custom'[row'[b].tpl] # NoRow
  <2> SUFFICES ASSUME NEW b \in Live', row'[b].tpl \in Customs
               PROVE  custom'[row'[b].tpl] # NoRow
    OBVIOUS
  <2>1. \A d \in Live : row[d].tpl \in Customs => custom[row[d].tpl] # NoRow
    BY DEF Types
  <2>2. CASE b = a
    BY <1>4, <1>5, <1>6, <2>1, <2>2
  <2>3. CASE b # a
    BY <1>5, <1>6, <2>1, <2>3 DEF Live
  <2> QED  BY <2>2, <2>3
<1>8. [req EXCEPT ![r] = Idle] \in [Processes -> Request]
  BY ConstantTypes DEF Types, TypeOK
<1>9. /\ req' \in [Processes -> Request]
      /\ \A s \in Processes : Same(req'[s], [req EXCEPT ![r] = Idle][s])
  BY <1>3, <1>4, <1>8, OvertakeMarks
<1>10. \A s \in Processes : Same(req'[s], req[s]) \/ Same(req'[s], Idle)
  BY <1>9 DEF Types, TypeOK
<1>11. cmd' \in [Processes -> Command] /\ \A c \in Processes :
         cmd'[c].batch = cmd[c].batch /\ cmd'[c].pc = cmd[c].pc /\ cmd'[c].entry = cmd[c].entry
  BY <1>3, <1>4, LeaveTells DEF Types, TypeOK
<1>12. disturbed' \subseteq Accounts
  BY <1>3, <1>4 DEF Types, TypeOK
<1> QED  BY <1>3, <1>5, <1>6, <1>7, <1>9, <1>10, <1>11, <1>12, RowsMove

LEMMA GiveUpTypes ==
  ASSUME Types, NEW r \in Processes, GiveUp(r) PROVE Types'
<1>1. Sound(Idle)
  BY ConstantTypes DEF Sound, Idle, Bare
<1> QED  BY <1>1, RequestMoves DEF GiveUp

\* The accounts a batch takes, and those it leaves out.
LEMMA NextBatchTakes ==
  ASSUME Types, NEW c \in Processes, NextBatch(c)
  PROVE  \E free \in SUBSET Bereft : \E S \in SUBSET free :
           /\ cmd' = [cmd EXCEPT ![c] = [Resting EXCEPT !.pc = "batch", !.batch = S,
                                                        !.left = Bereft \ free]]
           /\ Cardinality(S) < BatchSize => S = free
<1>1. PICK free \in SUBSET Bereft :
        \E S \in kSubset(IF Cardinality(free) < BatchSize THEN Cardinality(free)
                         ELSE BatchSize, free) :
          cmd' = [cmd EXCEPT ![c] = [Resting EXCEPT !.pc = "batch", !.batch = S,
                                                    !.left = Bereft \ free]]
  BY DEF NextBatch
<1>2. PICK S \in kSubset(IF Cardinality(free) < BatchSize THEN Cardinality(free)
                         ELSE BatchSize, free) :
        cmd' = [cmd EXCEPT ![c] = [Resting EXCEPT !.pc = "batch", !.batch = S,
                                                  !.left = Bereft \ free]]
  BY <1>1
<1>3. S \in SUBSET free
  BY <1>2 DEF kSubset
<1>4. IsFiniteSet(free) /\ Cardinality(free) \in Nat
  BY AccountsAssumption, FS_Subset, FS_CardinalityType DEF Bereft, Live
<1>5. Cardinality(S) < BatchSize => S = free
  <2>1. Cardinality(S) = IF Cardinality(free) < BatchSize THEN Cardinality(free) ELSE BatchSize
    BY DEF kSubset
  <2>2. Cardinality(S) < BatchSize => Cardinality(S) = Cardinality(free)
    BY <1>4, <2>1, BatchAssumption
  <2> QED  BY <1>3, <1>4, <2>2, FS_Subset
<1> QED  BY <1>2, <1>3, <1>5

LEMMA NextBatchTypes ==
  ASSUME Types, NEW c \in Processes, NextBatch(c) PROVE Types'
<1>0. PICK free \in SUBSET Bereft : \E S \in SUBSET free :
        cmd' = [cmd EXCEPT ![c] = [Resting EXCEPT !.pc = "batch", !.batch = S,
                                                  !.left = Bereft \ free]]
  BY NextBatchTakes
<1>1. PICK S \in SUBSET free :
        cmd' = [cmd EXCEPT ![c] = [Resting EXCEPT !.pc = "batch", !.batch = S,
                                                  !.left = Bereft \ free]]
  BY <1>0
<1> DEFINE d == [Resting EXCEPT !.pc = "batch", !.batch = S, !.left = Bereft \ free]
<1>2. Bereft \subseteq Live /\ Live \subseteq Accounts
  BY DEF Bereft, Live
<1>3. Armed(d)
  BY <1>2 DEF Resting, Command, Armed
<1>4. cmd' \in [Processes -> Command] /\ \A e \in Processes : Armed(cmd'[e])
  <2> HIDE DEF d
  <2>1. d \in Command /\ cmd' = [cmd EXCEPT ![c] = d]
    BY <1>1, <1>3 DEF d, Armed
  <2> QED  BY <1>3, <2>1 DEF Types, TypeOK
<1> QED  BY <1>4, CommandsMove DEF NextBatch, Types, TypeOK, templates

\* What the reconciliation of a batch writes, template by template.
LEMMA ReconcileWrites ==
  ASSUME Types, NEW c \in Processes, ReconcileBatch(c)
  PROVE  \E f \in Assigned(cmd[c].batch) :
           /\ row' = [a \in Accounts |-> IF a \in cmd[c].batch
                                         THEN [row[a] EXCEPT !.tpl = f[a]] ELSE row[a]]
           /\ \A a \in cmd[c].batch :
                /\ f[a] \in Fresh /\ custom'[f[a]] = Sanitized[row[a].look]
                /\ row'[a] \in Row /\ row'[a].tpl = f[a] /\ row'[a].look = row[a].look
           /\ \A t \in Customs : (\A a \in cmd[c].batch : f[a] # t) => custom'[t] = custom[t]
           /\ \A a, b \in cmd[c].batch : f[a] = f[b] => a = b
           /\ custom' \in [Customs -> AppLooks \cup {NoRow}]
           /\ \A t \in Customs : custom[t] # NoRow => custom'[t] # NoRow
<1> DEFINE S == cmd[c].batch
<1>1. PICK f \in Assigned(S) :
        /\ row' = [a \in Accounts |-> IF a \in S THEN [row[a] EXCEPT !.tpl = f[a]] ELSE row[a]]
        /\ custom' = [t \in Customs |-> IF \E a \in S : f[a] = t
                                        THEN Sanitized[row[CHOOSE a \in S : f[a] = t].look]
                                        ELSE custom[t]]
  BY DEF ReconcileBatch
<1>2. f \in [S -> Fresh] /\ \A a, b \in S : f[a] = f[b] => a = b
  BY DEF Assigned
<1>3. S \subseteq Live /\ S \subseteq Accounts /\ \A a \in S : row[a] \in Row
  BY DEF Types, TypeOK, Live, Armed
<1>4. Fresh \subseteq Customs /\ \A t \in Fresh : custom[t] = NoRow
  BY DEF Fresh
<1>5. ASSUME NEW a \in S
      PROVE  /\ f[a] \in Fresh /\ custom'[f[a]] = Sanitized[row[a].look]
             /\ row'[a] \in Row /\ row'[a].tpl = f[a] /\ row'[a].look = row[a].look
  <2>1. f[a] \in Customs
    BY <1>2, <1>4
  <2>2. (CHOOSE b \in S : f[b] = f[a]) = a
    BY <1>2
  <2>3. row'[a] = [row[a] EXCEPT !.tpl = f[a]]
    BY <1>1, <1>3
  <2>4. row[a] \in Row
    BY <1>3
  <2>5. row'[a] \in Row /\ row'[a].tpl = f[a] /\ row'[a].look = row[a].look
    BY <2>1, <2>3, <2>4 DEF Row
  <2>6. custom'[f[a]] = Sanitized[row[a].look]
    BY <1>1, <2>1, <2>2
  <2> QED  BY <1>2, <2>5, <2>6
<1>6. \A t \in Customs : (\A a \in S : f[a] # t) => custom'[t] = custom[t]
  BY <1>1
<1>7. \A t \in Customs : /\ custom'[t] \in AppLooks \cup {NoRow}
                         /\ custom[t] # NoRow => custom'[t] # NoRow
  <2> SUFFICES ASSUME NEW t \in Customs
               PROVE  /\ custom'[t] \in AppLooks \cup {NoRow}
                      /\ custom[t] # NoRow => custom'[t] # NoRow
    OBVIOUS
  <2>1. CASE \E a \in S : f[a] = t
    <3>1. PICK a \in S : f[a] = t
      BY <2>1
    <3>2. Sanitized[row[a].look] \in AppLooks
      BY <1>3, SanitizedLooks DEF Row
    <3> QED  BY <1>5, <3>1, <3>2, SanitizedLooks
  <2>2. CASE \A a \in S : f[a] # t
    BY <1>6, <2>2 DEF Types, TypeOK
  <2> QED  BY <2>1, <2>2
<1>8. custom' \in [Customs -> AppLooks \cup {NoRow}]
  <2>1. custom' = [t \in Customs |-> custom'[t]]
    BY <1>1
  <2> QED  BY <1>7, <2>1
<1> QED  BY <1>1, <1>2, <1>5, <1>6, <1>7, <1>8

LEMMA ReconcileBatchTypes ==
  ASSUME Types, NEW c \in Processes, ReconcileBatch(c) PROVE Types'
<1>1. PICK S : S = cmd[c].batch
  OBVIOUS
<1>2. PICK f \in Assigned(S) :
        /\ row' = [a \in Accounts |-> IF a \in S THEN [row[a] EXCEPT !.tpl = f[a]] ELSE row[a]]
        /\ \A a \in S : /\ f[a] \in Fresh /\ custom'[f[a]] = Sanitized[row[a].look]
                        /\ row'[a] \in Row /\ row'[a].tpl = f[a]
        /\ custom' \in [Customs -> AppLooks \cup {NoRow}]
        /\ \A t \in Customs : custom[t] # NoRow => custom'[t] # NoRow
  BY <1>1, ReconcileWrites
<1>3. S \subseteq Live /\ S \subseteq Accounts
  BY <1>1 DEF Types, Live, Armed
<1>4. \A a \in Accounts \ S : row'[a] = row[a]
  BY <1>2
<1>5. row' \in [Accounts -> Row \cup {NoRow}] /\ Live' = Live
  <2>1. \A a \in Accounts : row'[a] \in Row \cup {NoRow} /\ (row'[a] = NoRow <=> row[a] = NoRow)
    BY <1>2, <1>3, <1>4, NoRowAssumption DEF Types, TypeOK, Live
  <2>2. row' = [a \in Accounts |-> row'[a]]
    BY <1>2
  <2> QED  BY <2>1, <2>2 DEF Live
<1>6. \A a \in Live' : row'[a].tpl \in Customs => custom'[row'[a].tpl] # NoRow
  <2> SUFFICES ASSUME NEW a \in Live', row'[a].tpl \in Customs
               PROVE  custom'[row'[a].tpl] # NoRow
    OBVIOUS
  <2>1. CASE a \in S
    <3>1. row[a] \in Row
      BY <1>3, <2>1 DEF Types, TypeOK, Live
    <3>2. Sanitized[row[a].look] # NoRow
      BY <3>1, SanitizedLooks DEF Row
    <3> QED  BY <1>2, <2>1, <3>2
  <2>2. CASE a \notin S
    BY <1>2, <1>4, <1>5, <2>2 DEF Types, TypeOK, Live
  <2> QED  BY <2>1, <2>2
<1>7. /\ req' \in [Processes -> Request]
      /\ \A s \in Processes : Same(req'[s], req[s])
  <2>1. req' = [s \in Processes |->
                  IF req[s].acc \in S THEN [req[s] EXCEPT !.stale = TRUE] ELSE req[s]]
    BY <1>1 DEF ReconcileBatch
  <2>2. ASSUME NEW s \in Processes PROVE Same(req'[s], req[s])
    <3>1. req[s] \in Request
      BY DEF Types, TypeOK
    <3>2. Same([req[s] EXCEPT !.stale = TRUE], req[s]) /\ Same(req[s], req[s])
      BY <3>1 DEF Same, Request
    <3> QED  BY <2>1, <3>2
  <2> QED  BY <2>1, <2>2 DEF Same
<1>8. cmd' \in [Processes -> Command] /\ \A d \in Processes :
        /\ cmd'[d].batch \subseteq cmd[d].batch
        /\ cmd'[d].pc \in {"inspect", "publish"} =>
             cmd'[d].pc = cmd[d].pc /\ cmd'[d].entry = cmd[d].entry
  <2> DEFINE d == IF LastBatch(S) THEN [cmd[c] EXCEPT !.batch = {}, !.pc = "returned"]
                  ELSE [Resting EXCEPT !.pc = "next"]
  <2>1. cmd' = [cmd EXCEPT ![c] = d]
    BY <1>1 DEF ReconcileBatch
  <2>2. d \in Command /\ d.batch = {} /\ d.pc \in {"returned", "next"}
    <3>1. cmd[c] \in Command
      BY DEF Types, TypeOK
    <3> QED  BY <3>1 DEF Command, Resting
  <2> HIDE DEF d
  <2> QED  BY <2>1, <2>2 DEF Types, TypeOK
<1>9. disturbed' \subseteq Accounts /\ UNCHANGED <<catalogue, object>>
  BY DEF ReconcileBatch, Types, TypeOK
<1> QED  BY <1>2, <1>5, <1>6, <1>7, <1>8, <1>9, RowsMove

\* Every other step of the commands and the operator.
LEMMA CommandTypes ==
  ASSUME Types, NEW c \in Processes,
         Seed(c) \/ CommitSeed(c) \/ Curate(c) \/ Inspect(c) \/ Publish(c) \/ End(c)
  PROVE  Types'
<1>1. cmd \in [Processes -> Command] /\ \A d \in Processes : Armed(cmd[d])
  BY DEF Types, TypeOK
<1>2. ASSUME NEW d, Armed(d), cmd' = [cmd EXCEPT ![c] = d]
      PROVE  cmd' \in [Processes -> Command] /\ \A e \in Processes : Armed(cmd'[e])
  <2>1. d \in Command
    BY <1>2 DEF Armed
  <2> QED  BY <1>1, <1>2, <2>1
<1>3. ASSUME NEW S \in SUBSET Institutional, cmd' = [Touched(S) EXCEPT ![c] = Resting]
      PROVE  cmd' \in [Processes -> Command] /\ \A e \in Processes : Armed(cmd'[e])
  <2>1. Touched(S) \in [Processes -> Command] /\ \A e \in Processes : Armed(Touched(S)[e])
    BY <1>1, TouchedTells DEF Armed
  <2>2. Resting \in Command /\ Armed(Resting)
    BY ConstantTypes DEF Resting, Armed
  <2> QED  BY <1>3, <2>1, <2>2
<1>4. CASE Seed(c)
  <2> DEFINE d == [Resting EXCEPT !.pc = "seed", !.active =
                     {i \in Institutional : catalogue[i] # "inactive"}]
  <2>1. Armed(d)
    BY DEF Resting, Command, Armed
  <2> HIDE DEF d
  <2>2. cmd' = [cmd EXCEPT ![c] = d]
    BY <1>4 DEF Seed, d
  <2> QED  BY <1>2, <1>4, <2>1, <2>2, CommandsMove DEF Seed, Types, TypeOK, templates
<1>5. CASE CommitSeed(c)
  <2>1. PICK S \in SUBSET Institutional : cmd' = [Touched(S) EXCEPT ![c] = Resting]
    BY <1>5 DEF CommitSeed
  <2>2. catalogue' \in [Institutional -> {"absent", "active", "inactive"}]
    BY <1>5 DEF CommitSeed
  <2> QED  BY <1>3, <1>5, <2>1, <2>2, CommandsMove DEF CommitSeed, Types, TypeOK
<1>6. CASE Curate(c)
  <2>1. PICK i \in Institutional :
          cmd' = [cmd EXCEPT ![c] = [Resting EXCEPT !.pc = "inspect", !.entry = i]]
    BY <1>6 DEF Curate
  <2>2. Armed([Resting EXCEPT !.pc = "inspect", !.entry = i])
    BY DEF Resting, Command, Armed
  <2> QED  BY <1>2, <1>6, <2>1, <2>2, CommandsMove DEF Curate, Types, TypeOK, templates
<1>7. CASE Inspect(c)
  <2>1. cmd[c].entry \in Institutional
    BY <1>1, <1>7 DEF Inspect, Armed
  <2>2. /\ Armed([Resting EXCEPT !.pc = "publish", !.entry = cmd[c].entry])
        /\ Armed(Resting)
    BY <2>1 DEF Resting, Command, Armed
  <2>3. \E d : Armed(d) /\ cmd' = [cmd EXCEPT ![c] = d]
    BY <1>7, <2>2 DEF Inspect
  <2> QED  BY <1>2, <1>7, <2>3, CommandsMove DEF Inspect, Types, TypeOK, templates
<1>8. CASE Publish(c)
  <2>1. PICK i \in Institutional : i = cmd[c].entry
    BY <1>1, <1>8 DEF Publish, Armed
  <2>2. object' = [object EXCEPT ![i] = "reviewed"] /\ cmd' = [Touched({i}) EXCEPT ![c] = Resting]
    BY <1>8, <2>1 DEF Publish
  <2>3. object' \in [Institutional -> Objects]
    <3>1. object \in [Institutional -> Objects] /\ "reviewed" \in Objects
      BY DEF Types, TypeOK, Objects
    <3> QED  BY <2>2, <3>1
  <2>4. cmd' \in [Processes -> Command] /\ \A e \in Processes : Armed(cmd'[e])
    BY <1>3, <2>1, <2>2
  <2>5. catalogue' \in [Institutional -> {"absent", "active", "inactive"}]
    BY <1>8 DEF Publish, Types, TypeOK, templates
  <2>6. UNCHANGED <<row, custom, req, disturbed>>
    BY <1>8 DEF Publish, templates
  <2> QED  BY <2>3, <2>4, <2>5, <2>6, CommandsMove
<1>9. CASE End(c)
  <2>1. Armed(Resting)
    BY ConstantTypes DEF Resting, Armed
  <2> QED  BY <1>2, <1>9, <2>1, CommandsMove DEF End, Types, TypeOK, templates
<1> QED  BY <1>4, <1>5, <1>6, <1>7, <1>8, <1>9

LEMMA OperateTypes ==
  ASSUME Types, NEW i \in Institutional, Operate(i) PROVE Types'
<1>1. /\ catalogue' \in [Institutional -> {"absent", "active", "inactive"}]
      /\ object' \in [Institutional -> Objects]
  BY DEF Operate, Types, TypeOK, Objects
<1>2. /\ cmd' \in [Processes -> Command]
      /\ \A e \in Processes : Armed(cmd'[e])
  BY TouchedTells DEF Operate, Types, TypeOK, Armed
<1> QED  BY <1>1, <1>2, CommandsMove DEF Operate, Types

LEMMA TypesStep == Types /\ [Next]_vars => Types'
<1> SUFFICES ASSUME Types, [Next]_vars PROVE Types'
  OBVIOUS
<1>1. CASE UNCHANGED vars
  <2>1. cmd' = cmd /\ catalogue' = catalogue /\ object' = object
        /\ UNCHANGED <<row, custom, req, disturbed>>
    BY <1>1 DEF vars
  <2> QED  BY <2>1, CommandsMove DEF Types, TypeOK
<1>2. CASE \E a \in Accounts : CreateAccount(a) \/ LegacyCreate(a) \/ LegacyWrite(a)
  BY <1>2, CreateAccountTypes, LegacyCreateTypes, LegacyWriteTypes
<1>3. CASE \E r \in Processes : \/ Read(r) \/ ChooseInstitutional(r) \/ Resolve(r)
                                \/ SaveTemplate(r) \/ Compare(r) \/ Write(r) \/ GiveUp(r)
  BY <1>3, ReadTypes, ChooseInstitutionalTypes, ResolveTypes, SaveTemplateTypes,
     CompareTypes, WriteTypes, GiveUpTypes
<1>4. CASE \E c \in Processes : NextBatch(c) \/ ReconcileBatch(c)
  BY <1>4, NextBatchTypes, ReconcileBatchTypes
<1>5. CASE \E c \in Processes : \/ Seed(c) \/ CommitSeed(c) \/ Curate(c) \/ Inspect(c)
                                \/ Publish(c) \/ End(c)
  BY <1>5, CommandTypes
<1>6. CASE \E i \in Institutional : Operate(i)
  BY <1>6, OperateTypes
<1> QED  BY <1>1, <1>2, <1>3, <1>4, <1>5, <1>6 DEF Next

LEMMA AlwaysTypes == Spec => []Types
<1> QED  BY InitTypes, TypesStep, PTL DEF Spec

\* Types in every reachable state: what a request, a batch or an account refers
\* to exists, for every set of accounts, templates, looks and processes.
THEOREM TemplatesTypeOK == Spec => []TypeOK
<1>1. Types => TypeOK
  BY DEF Types
<1> QED  BY <1>1, AlwaysTypes, PTL

-----------------------------------------------------------------------------
(* A custom template belongs to one account *)

\* Account a has t, or an open request is about to give it back to a.
Uses(t, a) ==
  \/ a \in Live /\ row[a].tpl = t
  \/ \E r \in Processes : req[r].pc # "idle" /\ req[r].acc = a /\ req[r].copy.tpl = t

OneUser ==
  \A t \in Customs : \A a, b \in Accounts : Uses(t, a) /\ Uses(t, b) => a = b

LEMMA FreshUnused == Types => \A t \in Fresh, a \in Accounts : ~Uses(t, a)
BY FreshIsNew DEF Uses

\* A step in which a template gains no user, or is fresh and gains one.
LEMMA OneUserKept ==
  ASSUME Types, OneUser, NEW owner,
         \A t \in Customs, a \in Accounts :
           Uses(t, a)' => Uses(t, a) \/ (t \in Fresh /\ a = owner[t])
  PROVE  OneUser'
<1> SUFFICES ASSUME NEW t \in Customs, NEW a \in Accounts, NEW b \in Accounts,
                    Uses(t, a)', Uses(t, b)'
             PROVE  a = b
  BY DEF OneUser
<1>1. CASE t \in Fresh
  BY <1>1, FreshUnused
<1>2. CASE t \notin Fresh
  BY <1>2 DEF OneUser
<1> QED  BY <1>1, <1>2

\* A step of one request that writes no row.
LEMMA RequestUses ==
  ASSUME Types, NEW r \in Processes, NEW q, req' = [req EXCEPT ![r] = q], row' = row,
         NEW t \in Customs, NEW a \in Accounts, Uses(t, a)'
  PROVE  Uses(t, a) \/ (q.pc # "idle" /\ q.acc = a /\ q.copy.tpl = t)
BY DEF Uses, Live, Types, TypeOK

\* A step that writes rows and takes requests no further.
LEMMA RowUses ==
  ASSUME Types, \A s \in Processes : Same(req'[s], req[s]) \/ Same(req'[s], Idle),
         NEW t, NEW a \in Accounts, Uses(t, a)'
  PROVE  Uses(t, a) \/ (a \in Live' /\ row'[a].tpl = t)
<1>1. Idle.pc = "idle"
  BY DEF Idle
<1> QED  BY <1>1 DEF Uses, Same

LEMMA InitOneUser == Init => OneUser
<1> SUFFICES ASSUME Init PROVE OneUser
  OBVIOUS
<1>1. Live = {} /\ \A r \in Processes : req[r].pc = "idle"
  BY DEF Init, Live, Idle
<1> QED  BY <1>1 DEF OneUser, Uses

LEMMA CreateAccountOneUser ==
  ASSUME Types, OneUser, NEW a \in Accounts, CreateAccount(a) PROVE OneUser'
<1>1. req' = req /\ \A s \in Processes : Same(req'[s], req[s])
  BY DEF CreateAccount, Types, Sound, Same
<1>2. \A b \in Accounts \ {a} : row'[b] = row[b]
  BY DEF CreateAccount, Types, TypeOK
<1>3. row'[a].tpl \in Customs => row'[a].tpl \in Fresh
  BY TemplatesAssumption DEF CreateAccount, CustomFor, Types, TypeOK, Active
<1>4. ASSUME NEW t \in Customs, NEW b \in Accounts, Uses(t, b)'
      PROVE  Uses(t, b) \/ (t \in Fresh /\ b = [u \in Customs |-> a][t])
  <2>1. Uses(t, b) \/ (b \in Live' /\ row'[b].tpl = t)
    BY <1>1, <1>4, RowUses
  <2>2. CASE b # a
    BY <1>2, <2>1, <2>2 DEF Uses, Live
  <2>3. CASE b = a
    BY <1>3, <2>1, <2>3
  <2> QED  BY <2>2, <2>3
<1> QED  BY <1>4, OneUserKept

\* Steps after which every row's template is one its account used before.
LEMMA RowsKeepUsers ==
  ASSUME Types, OneUser,
         \A s \in Processes : Same(req'[s], req[s]) \/ Same(req'[s], Idle),
         \A a \in Live' : row'[a].tpl \in Customs => Uses(row'[a].tpl, a)
  PROVE  OneUser'
<1>1. \A t \in Customs, a \in Accounts :
        Uses(t, a)' => Uses(t, a) \/ (t \in Fresh /\ a = [u \in Customs |-> u][t])
  BY RowUses DEF Live
<1> QED  BY <1>1, OneUserKept

LEMMA LegacyCreateOneUser ==
  ASSUME Types, OneUser, NEW a \in Accounts, LegacyCreate(a) PROVE OneUser'
<1>1. \A s \in Processes : Same(req'[s], req[s])
  BY DEF LegacyCreate, Types, Sound, Same
<1>2. row'[a].tpl = NoTemplate /\ \A b \in Accounts \ {a} : row'[b] = row[b]
  BY DEF LegacyCreate, Types, TypeOK
<1>3. \A b \in Live' : row'[b].tpl \in Customs => Uses(row'[b].tpl, b)
  BY <1>2, ConstantTypes DEF Uses, Live
<1> QED  BY <1>1, <1>3, RowsKeepUsers

LEMMA LegacyWriteOneUser ==
  ASSUME Types, OneUser, NEW a \in Accounts, LegacyWrite(a) PROVE OneUser'
<1>1. \A s \in Processes : Same(req'[s], req[s])
  BY OvertakeMarks DEF LegacyWrite, Types, TypeOK
<1>2. PICK look \in AnyLook : row' = [row EXCEPT ![a].look = look]
  BY DEF LegacyWrite
<1>3. a \in Live /\ row[a] \in Row
  BY DEF LegacyWrite, Live, Types, TypeOK
<1>4. \A b \in Accounts : row'[b].tpl = row[b].tpl /\ (b # a => row'[b] = row[b])
  BY <1>2, <1>3 DEF Types, TypeOK, Row
<1>5. \A b \in Live' : row'[b].tpl \in Customs => Uses(row'[b].tpl, b)
  BY <1>3, <1>4 DEF Uses, Live
<1> QED  BY <1>1, <1>5, RowsKeepUsers

\* Reading, choosing, resolving, comparing and giving up give no template to
\* a request that its account did not use.
LEMMA RequestOneUser ==
  ASSUME Types, OneUser, NEW r \in Processes,
         Read(r) \/ ChooseInstitutional(r) \/ Resolve(r) \/ Compare(r) \/ GiveUp(r)
  PROVE  OneUser'
<1>1. ASSUME NEW q, req' = [req EXCEPT ![r] = q], row' = row,
             q.pc # "idle" => q.acc \in Accounts /\ (q.copy.tpl \in Customs => Uses(q.copy.tpl, q.acc))
      PROVE  OneUser'
  <2>1. \A t \in Customs, a \in Accounts :
          Uses(t, a)' => Uses(t, a) \/ (t \in Fresh /\ a = [u \in Customs |-> u][t])
    BY <1>1, RequestUses
  <2> QED  BY <2>1, OneUserKept
<1>2. req[r] \in Request /\ (req[r].pc # "idle" => req[r].acc \in Accounts)
  BY DEF Types, TypeOK, Sound, Live
<1>3. CASE Read(r)
  <2>0. PICK a \in Live, patch \in Patches \cup {"other"} : \E copy \in Copies(a, patch) :
          req' = [req EXCEPT ![r] =
            [Idle EXCEPT !.pc = IF patch = "other" THEN "compare" ELSE "resolve",
                         !.acc = a, !.patch = patch, !.copy = copy]]
    BY <1>3 DEF Read
  <2>1. PICK copy \in Copies(a, patch) : req' = [req EXCEPT ![r] =
          [Idle EXCEPT !.pc = IF patch = "other" THEN "compare" ELSE "resolve",
                       !.acc = a, !.patch = patch, !.copy = copy]]
    BY <2>0
  <2> DEFINE q == [Idle EXCEPT !.pc = IF patch = "other" THEN "compare" ELSE "resolve",
                               !.acc = a, !.patch = patch, !.copy = copy]
  <2>2. q.acc = a /\ q.copy = copy
    BY DEF Idle
  <2>3. a \in Accounts /\ (copy.tpl \in Customs => Uses(copy.tpl, a))
    BY CopiesTypes, ConstantTypes DEF Live, Uses
  <2> HIDE DEF q
  <2>4. req' = [req EXCEPT ![r] = q] /\ row' = row
    BY <1>3, <2>1 DEF Read, q
  <2> QED  BY <1>1, <2>2, <2>3, <2>4
<1>4. CASE ChooseInstitutional(r)
  <2>1. PICK i \in Active : req' = [req EXCEPT ![r] =
          [req[r] EXCEPT !.copy = [tpl |-> i, look |-> Shown(i)],
                         !.pc = "compare", !.patch = "none"]]
    BY <1>4 DEF ChooseInstitutional
  <2> DEFINE q == [req[r] EXCEPT !.copy = [tpl |-> i, look |-> Shown(i)],
                                 !.pc = "compare", !.patch = "none"]
  <2>2. q.acc = req[r].acc /\ q.copy.tpl = i /\ i \notin Customs /\ req[r].pc # "idle"
    BY <1>2, <1>4, TemplatesAssumption DEF Request, Active, ChooseInstitutional
  <2> HIDE DEF q
  <2>3. req' = [req EXCEPT ![r] = q] /\ row' = row
    BY <1>4, <2>1 DEF ChooseInstitutional, q
  <2> QED  BY <1>1, <1>2, <2>2, <2>3
<1>5. ASSUME NEW q, req' = [req EXCEPT ![r] = q], row' = row, req[r].pc # "idle",
             q.acc = req[r].acc, q.copy = req[r].copy
      PROVE  OneUser'
  <2>1. Uses(req[r].copy.tpl, req[r].acc)
    BY <1>5 DEF Uses
  <2> QED  BY <1>1, <1>2, <1>5, <2>1
<1>6. CASE Resolve(r)
  <2>1. \/ req' = [req EXCEPT ![r] = [req[r] EXCEPT !.pc = "compare", !.patch = "none"]]
        \/ \E look \in Wanted(r) : req' = [req EXCEPT ![r] =
             [req[r] EXCEPT !.look = look, !.pc = "save", !.patch = "none"]]
    BY <1>6 DEF Resolve
  <2>2. req[r].pc # "idle" /\ row' = row
    BY <1>6 DEF Resolve
  <2>3. \E q : req' = [req EXCEPT ![r] = q] /\ q.acc = req[r].acc /\ q.copy = req[r].copy
    BY <1>2, <2>1 DEF Request
  <2> QED  BY <1>5, <2>2, <2>3
<1>7. CASE Compare(r)
  <2>1. req[r].pc # "idle" /\ row' = row
    BY <1>7 DEF Compare
  <2>2. PICK W : req' = [req EXCEPT ![r] = [req[r] EXCEPT !.pc = "write", !.write = W]]
    BY <1>7 DEF Compare
  <2>3. /\ [req[r] EXCEPT !.pc = "write", !.write = W].acc = req[r].acc
        /\ [req[r] EXCEPT !.pc = "write", !.write = W].copy = req[r].copy
    BY <1>2 DEF Request
  <2> QED  BY <1>5, <2>1, <2>2, <2>3
<1>8. CASE GiveUp(r)
  BY <1>1, <1>8 DEF GiveUp, Idle
<1> QED  BY <1>3, <1>4, <1>6, <1>7, <1>8

\* A saved template is the copy's own or a fresh one.
LEMMA SaveTemplateOneUser ==
  ASSUME Types, OneUser, NEW r \in Processes, SaveTemplate(r) PROVE OneUser'
<1>1. PICK t \in IF req[r].copy.tpl \in Customs THEN {req[r].copy.tpl}
                 ELSE CustomFor(req[r].look) :
        req' = [req EXCEPT ![r] =
          [req[r] EXCEPT !.saved = t, !.copy = [tpl |-> t, look |-> req[r].look],
                         !.pc = "compare"]]
  BY DEF SaveTemplate
<1> DEFINE q == [req[r] EXCEPT !.saved = t, !.copy = [tpl |-> t, look |-> req[r].look],
                               !.pc = "compare"]
<1>2. req[r] \in Request /\ req[r].acc \in Accounts /\ req[r].pc = "save" /\ row' = row
  BY DEF Types, TypeOK, Sound, Live, SaveTemplate
<1>3. q.acc = req[r].acc /\ q.copy.tpl = t
  BY <1>2 DEF Request
<1>4. t \in Fresh \/ Uses(t, req[r].acc)
  BY <1>1, <1>2 DEF CustomFor, Uses
<1> HIDE DEF q
<1>5. req' = [req EXCEPT ![r] = q]
  BY <1>1 DEF q
<1>6. \A u \in Customs, a \in Accounts :
        Uses(u, a)' => Uses(u, a) \/ (u \in Fresh /\ a = [v \in Customs |-> req[r].acc][u])
  BY <1>2, <1>3, <1>4, <1>5, RequestUses
<1> QED  BY <1>6, OneUserKept

LEMMA WriteOneUser ==
  ASSUME Types, OneUser, NEW r \in Processes, Write(r) PROVE OneUser'
<1>1. req[r].pc = "write"
  BY DEF Write
<1>2. PICK a \in Accounts : a = req[r].acc /\ a \in Live
  BY <1>1, MergedTypes DEF Live
<1>3. /\ row' = [row EXCEPT ![a] = Merged(r)]
      /\ req' = Overtake(a, [req EXCEPT ![r] = Idle])
  BY <1>2 DEF Write
<1>4. /\ row'[a].tpl \in {req[r].copy.tpl, row[a].tpl}
      /\ \A b \in Accounts \ {a} : row'[b] = row[b]
  BY <1>1, <1>2, <1>3, MergedTypes DEF Types, TypeOK
<1>5. \A b \in Live' : row'[b].tpl \in Customs => Uses(row'[b].tpl, b)
  BY <1>1, <1>2, <1>4 DEF Uses, Live
<1>6. [req EXCEPT ![r] = Idle] \in [Processes -> Request]
  BY ConstantTypes DEF Types, TypeOK
<1>7. \A s \in Processes : Same(req'[s], [req EXCEPT ![r] = Idle][s])
  BY <1>3, <1>6, OvertakeMarks
<1>8. \A s \in Processes : Same(req'[s], req[s]) \/ Same(req'[s], Idle)
  BY <1>7 DEF Types, TypeOK
<1> QED  BY <1>5, <1>8, RowsKeepUsers

LEMMA ReconcileMarks ==
  ASSUME Types, NEW c \in Processes, ReconcileBatch(c)
  PROVE  \A s \in Processes :
           /\ Same(req'[s], req[s])
           /\ ~req'[s].stale => ~req[s].stale /\ req[s].acc \notin cmd[c].batch
<1>1. req' = [s \in Processes |-> IF req[s].acc \in cmd[c].batch
                                  THEN [req[s] EXCEPT !.stale = TRUE] ELSE req[s]]
  BY DEF ReconcileBatch
<1>2. ASSUME NEW s \in Processes
      PROVE  /\ Same(req'[s], req[s])
             /\ ~req'[s].stale => ~req[s].stale /\ req[s].acc \notin cmd[c].batch
  <2>1. req[s] \in Request
    BY DEF Types, TypeOK
  <2>2. CASE req[s].acc \in cmd[c].batch
    <3>1. req'[s] = [req[s] EXCEPT !.stale = TRUE]
      BY <1>1, <2>2
    <3>2. Same([req[s] EXCEPT !.stale = TRUE], req[s])
      BY <2>1 DEF Same, Request
    <3>3. [req[s] EXCEPT !.stale = TRUE].stale = TRUE
      BY <2>1 DEF Request
    <3> QED  BY <3>1, <3>2, <3>3
  <2>3. CASE req[s].acc \notin cmd[c].batch
    <3>1. req'[s] = req[s]
      BY <1>1, <2>3
    <3> QED  BY <2>1, <2>3, <3>1 DEF Same
  <2> QED  BY <2>2, <2>3
<1> QED  BY <1>2

LEMMA ReconcileBatchOneUser ==
  ASSUME Types, OneUser, NEW c \in Processes, ReconcileBatch(c) PROVE OneUser'
<1>1. PICK S : S = cmd[c].batch
  OBVIOUS
<1>2. PICK f \in Assigned(S) :
        /\ row' = [a \in Accounts |-> IF a \in S THEN [row[a] EXCEPT !.tpl = f[a]] ELSE row[a]]
        /\ \A a \in S : f[a] \in Fresh /\ row'[a].tpl = f[a]
        /\ \A a, b \in S : f[a] = f[b] => a = b
  BY <1>1, ReconcileWrites
<1>3. \A s \in Processes : Same(req'[s], req[s])
  BY ReconcileMarks
<1>4. \A a \in Accounts \ S : row'[a] = row[a]
  BY <1>2
<1> DEFINE owner == [t \in Customs |-> CHOOSE a \in S : f[a] = t]
<1>5. ASSUME NEW t \in Customs, NEW a \in Accounts, Uses(t, a)'
      PROVE  Uses(t, a) \/ (t \in Fresh /\ a = owner[t])
  <2>1. Uses(t, a) \/ (a \in Live' /\ row'[a].tpl = t)
    BY <1>3, <1>5, RowUses
  <2>2. CASE a \in S /\ row'[a].tpl = t
    <3>1. f[a] = t /\ t \in Fresh
      BY <1>2, <2>2
    <3>2. (CHOOSE b \in S : f[b] = t) = a
      BY <1>2, <2>2, <3>1
    <3> QED  BY <3>1, <3>2
  <2>3. CASE a \notin S
    BY <1>4, <2>1, <2>3 DEF Uses, Live
  <2> QED  BY <2>1, <2>2, <2>3
<1> HIDE DEF owner
<1> QED  BY <1>5, OneUserKept

\* Commands other than the commit of a batch write neither rows nor requests.
LEMMA QuietSteps ==
  ASSUME [Next]_vars
  PROVE  \/ \E a \in Accounts : CreateAccount(a) \/ LegacyCreate(a) \/ LegacyWrite(a)
         \/ \E r \in Processes :
              \/ Read(r) \/ ChooseInstitutional(r) \/ Resolve(r) \/ Compare(r) \/ GiveUp(r)
              \/ SaveTemplate(r) \/ Write(r)
         \/ \E c \in Processes : ReconcileBatch(c)
         \/ UNCHANGED <<row, custom, req, disturbed>>
<1>1. CASE \E c \in Processes : \/ NextBatch(c) \/ Seed(c) \/ CommitSeed(c) \/ Curate(c)
                                \/ Inspect(c) \/ Publish(c) \/ End(c)
  BY <1>1 DEF NextBatch, Seed, CommitSeed, Curate, Inspect, Publish, End, templates
<1>2. CASE \E i \in Institutional : Operate(i)
  BY <1>2 DEF Operate
<1>3. CASE UNCHANGED vars
  BY <1>3 DEF vars
<1> QED  BY <1>1, <1>2, <1>3 DEF Next

LEMMA OneUserStep == Types /\ OneUser /\ [Next]_vars => OneUser'
<1> SUFFICES ASSUME Types, OneUser, [Next]_vars PROVE OneUser'
  OBVIOUS
<1>1. CASE UNCHANGED <<row, custom, req, disturbed>>
  BY <1>1 DEF OneUser, Uses, Live
<1> QED
  BY <1>1, QuietSteps, CreateAccountOneUser, LegacyCreateOneUser, LegacyWriteOneUser,
     RequestOneUser, SaveTemplateOneUser, WriteOneUser, ReconcileBatchOneUser

LEMMA AlwaysOneUser == Spec => []OneUser
<1> QED  BY InitOneUser, OneUserStep, AlwaysTypes, PTL DEF Spec

\* A custom template belongs to one account, whatever updates, reconciliations
\* and writes of the v0.3 image interleave: for every set of accounts,
\* templates and processes.
THEOREM TemplatesCustomIsPrivate == Spec => []CustomIsPrivate
<1>1. OneUser => CustomIsPrivate
  BY DEF OneUser, Uses, CustomIsPrivate, Live
<1> QED  BY <1>1, AlwaysOneUser, PTL

-----------------------------------------------------------------------------
(* The look v0.3 sees *)

\* While nobody writes its account, a request's copy agrees with the template:
\* the template it saved or will save, or one that shows this look already;
\* who saves the account as it was read, writes no look.
Agrees(r) ==
  LET q == req[r]
  IN q.pc \in {"compare", "write"} /\ ~q.stale =>
       /\ q.patch = "other" =>
            /\ q.saved = NoTemplate /\ q.copy.look = row[q.acc].look
            /\ q.copy.tpl \in {row[q.acc].tpl, NoTemplate}
       /\ q.patch # "other" =>
            q.copy.tpl # NoTemplate /\ (q.saved = NoTemplate => q.copy.look = Shown(q.copy.tpl))

\* Where the UPDATE leaves a column alone, the copy has what is there.
Covers(r) ==
  LET q == req[r]
  IN q.pc = "write" /\ ~q.stale =>
       /\ "tpl" \notin q.write => q.copy.tpl = row[q.acc].tpl
       /\ "look" \notin q.write => q.copy.look = row[q.acc].look

\* The account looks as its template does.
Shows(a) == row[a].tpl # NoTemplate => Sanitized[row[a].look] = Shown(row[a].tpl)

Looking == VisualAgrees /\ \A r \in Processes : Agrees(r) /\ Covers(r)

LEMMA InitLooking == Init => Looking
<1> SUFFICES ASSUME Init PROVE Looking
  OBVIOUS
<1>1. Live = {} /\ \A r \in Processes : req[r].pc = "idle"
  BY DEF Init, Live, Idle
<1> QED  BY <1>1 DEF Looking, VisualAgrees, Agrees, Covers

\* A step of one request that commits nothing.
LEMMA RequestLooks ==
  ASSUME Types, Looking, NEW r \in Processes, NEW q,
         req' = [req EXCEPT ![r] = q], UNCHANGED <<row, custom, disturbed>>,
         q.pc \in {"compare", "write"} /\ ~q.stale =>
           /\ q.patch = "other" => /\ q.saved = NoTemplate /\ q.copy.look = row[q.acc].look
                                  /\ q.copy.tpl \in {row[q.acc].tpl, NoTemplate}
           /\ q.patch # "other" =>
                q.copy.tpl # NoTemplate /\ (q.saved = NoTemplate => q.copy.look = Shown(q.copy.tpl)),
         q.pc = "write" /\ ~q.stale =>
           /\ "tpl" \notin q.write => q.copy.tpl = row[q.acc].tpl
           /\ "look" \notin q.write => q.copy.look = row[q.acc].look
  PROVE  Looking'
<1>1. req'[r] = q /\ \A s \in Processes \ {r} : req'[s] = req[s]
  BY DEF Types, TypeOK
<1>2. VisualAgrees'
  BY DEF Looking, VisualAgrees, Live, Shown
<1>3. ASSUME NEW s \in Processes PROVE (Agrees(s) /\ Covers(s))'
  <2>1. CASE s = r
    BY <1>1, <2>1 DEF Agrees, Covers, Shown
  <2>2. CASE s # r
    BY <1>1, <2>2 DEF Looking, Agrees, Covers, Shown
  <2> QED  BY <2>1, <2>2
<1> QED  BY <1>2, <1>3 DEF Looking

LEMMA ReadLooks ==
  ASSUME Types, Looking, NEW r \in Processes, Read(r) PROVE Looking'
<1>0. PICK a \in Live, patch \in Patches \cup {"other"} : \E copy \in Copies(a, patch) :
        req' = [req EXCEPT ![r] =
          [Idle EXCEPT !.pc = IF patch = "other" THEN "compare" ELSE "resolve",
                       !.acc = a, !.patch = patch, !.copy = copy]]
  BY DEF Read
<1>1. PICK copy \in Copies(a, patch) :
        req' = [req EXCEPT ![r] =
          [Idle EXCEPT !.pc = IF patch = "other" THEN "compare" ELSE "resolve",
                       !.acc = a, !.patch = patch, !.copy = copy]]
  BY <1>0
<1> DEFINE q == [Idle EXCEPT !.pc = IF patch = "other" THEN "compare" ELSE "resolve",
                             !.acc = a, !.patch = patch, !.copy = copy]
<1>2. /\ q.acc = a /\ q.copy = copy /\ q.saved = NoTemplate /\ q.patch = patch
      /\ q.pc = IF patch = "other" THEN "compare" ELSE "resolve"
  BY DEF Idle
<1>3. UNCHANGED <<row, custom, disturbed>> /\ req' = [req EXCEPT ![r] = q]
  BY <1>1 DEF Read, templates
<1> HIDE DEF q
<1>4. /\ copy.look = row[a].look /\ copy.tpl \in {row[a].tpl, NoTemplate}
      /\ patch # "other" => q.pc = "resolve"
  BY <1>2, CopiesTypes
<1>5. q.pc \in {"compare", "write"} /\ ~q.stale =>
        /\ q.patch = "other" => /\ q.saved = NoTemplate /\ q.copy.look = row[q.acc].look
                               /\ q.copy.tpl \in {row[q.acc].tpl, NoTemplate}
        /\ q.patch # "other" =>
             q.copy.tpl # NoTemplate /\ (q.saved = NoTemplate => q.copy.look = Shown(q.copy.tpl))
  BY <1>2, <1>4
<1>6. q.pc # "write"
  BY <1>2
<1> QED  BY <1>3, <1>5, <1>6, RequestLooks

LEMMA ChooseInstitutionalLooks ==
  ASSUME Types, Looking, NEW r \in Processes, ChooseInstitutional(r) PROVE Looking'
<1>1. PICK i \in Active : req' = [req EXCEPT ![r] =
        [req[r] EXCEPT !.copy = [tpl |-> i, look |-> Shown(i)],
                       !.pc = "compare", !.patch = "none"]]
  BY DEF ChooseInstitutional
<1> DEFINE q == [req[r] EXCEPT !.copy = [tpl |-> i, look |-> Shown(i)],
                               !.pc = "compare", !.patch = "none"]
<1>2. req[r] \in Request /\ i # NoTemplate
  BY TemplatesAssumption DEF Types, TypeOK, Active
<1>3. /\ q.copy.tpl = i /\ q.copy.look = Shown(i) /\ q.patch = "none" /\ q.pc = "compare"
  BY <1>2 DEF Request
<1>4. UNCHANGED <<row, custom, disturbed>> /\ req' = [req EXCEPT ![r] = q]
  BY <1>1 DEF ChooseInstitutional, templates
<1> HIDE DEF q
<1> QED  BY <1>2, <1>3, <1>4, RequestLooks

LEMMA ResolveLooks ==
  ASSUME Types, Looking, NEW r \in Processes, Resolve(r) PROVE Looking'
<1>1. req[r] \in Request
  BY DEF Types, TypeOK
<1>2. UNCHANGED <<row, custom, disturbed>>
  BY DEF Resolve, templates
<1>3. CASE KeepsTemplate(r)
  <2> DEFINE q == [req[r] EXCEPT !.pc = "compare", !.patch = "none"]
  <2>1. req' = [req EXCEPT ![r] = q]
    BY <1>3 DEF Resolve
  <2>2. q.copy = req[r].copy /\ q.patch = "none" /\ q.pc = "compare"
    BY <1>1 DEF Request
  <2>3. req[r].copy.tpl # NoTemplate /\ req[r].copy.look = Shown(req[r].copy.tpl)
    BY <1>3 DEF KeepsTemplate, Diverged
  <2> HIDE DEF q
  <2> QED  BY <1>2, <2>1, <2>2, <2>3, RequestLooks
<1>4. CASE ~KeepsTemplate(r)
  <2>1. PICK look \in Wanted(r) : req' = [req EXCEPT ![r] =
          [req[r] EXCEPT !.look = look, !.pc = "save", !.patch = "none"]]
    BY <1>4 DEF Resolve
  <2>2. [req[r] EXCEPT !.look = look, !.pc = "save", !.patch = "none"].pc = "save"
    BY <1>1 DEF Request
  <2> QED  BY <1>2, <2>1, <2>2, RequestLooks
<1> QED  BY <1>3, <1>4

LEMMA SaveTemplateLooks ==
  ASSUME Types, Looking, NEW r \in Processes, SaveTemplate(r) PROVE Looking'
<1>1. PICK t \in Customs : req' = [req EXCEPT ![r] =
        [req[r] EXCEPT !.saved = t, !.copy = [tpl |-> t, look |-> req[r].look],
                       !.pc = "compare"]]
  BY DEF SaveTemplate, CustomFor, Fresh
<1> DEFINE q == [req[r] EXCEPT !.saved = t, !.copy = [tpl |-> t, look |-> req[r].look],
                               !.pc = "compare"]
<1>2. req[r] \in Request /\ req[r].patch = "none" /\ t # NoTemplate
  BY ConstantTypes DEF Types, TypeOK, Sound, SaveTemplate
<1>3. q.copy.tpl = t /\ q.saved = t /\ q.patch = "none" /\ q.pc = "compare"
  BY <1>2 DEF Request
<1>4. UNCHANGED <<row, custom, disturbed>> /\ req' = [req EXCEPT ![r] = q]
  BY <1>1 DEF SaveTemplate, templates
<1> HIDE DEF q
<1> QED  BY <1>2, <1>3, <1>4, RequestLooks

LEMMA CompareLooks ==
  ASSUME Types, Looking, NEW r \in Processes, Compare(r) PROVE Looking'
<1> DEFINE W == {f \in {"tpl", "look"} : req[r].copy[f] # row[req[r].acc][f]}
           q == [req[r] EXCEPT !.pc = "write", !.write = W]
<1>1. req[r] \in Request /\ req[r].pc = "compare" /\ Agrees(r)
  BY DEF Types, TypeOK, Compare, Looking
<1>2. /\ "tpl" \notin W => req[r].copy.tpl = row[req[r].acc].tpl
      /\ "look" \notin W => req[r].copy.look = row[req[r].acc].look
  OBVIOUS
<1>3. UNCHANGED <<row, custom, disturbed>> /\ req' = [req EXCEPT ![r] = q]
  BY DEF Compare, templates
<1> HIDE DEF W
<1>4. /\ q.pc = "write" /\ q.copy = req[r].copy /\ q.acc = req[r].acc /\ q.write = W
      /\ q.patch = req[r].patch /\ q.saved = req[r].saved
      /\ ~q.stale => ~req[r].stale
  BY <1>1 DEF Request
<1> HIDE DEF q
<1> QED  BY <1>1, <1>2, <1>3, <1>4, RequestLooks DEF Agrees

LEMMA GiveUpLooks ==
  ASSUME Types, Looking, NEW r \in Processes, GiveUp(r) PROVE Looking'
BY RequestLooks DEF GiveUp, Idle, templates

\* A step that writes the rows W and the custom templates of W or fresh ones,
\* and tells whoever works on W.
LEMMA RowsLook ==
  ASSUME Types, OneUser, Looking, NEW W \in SUBSET Accounts,
         \A a \in Accounts \ W : row'[a] = row[a],
         \A t \in Customs : custom'[t] # custom[t] => t \in Fresh \/ \E a \in W : Uses(t, a),
         \A s \in Processes : req'[s].pc # "idle" /\ ~req'[s].stale =>
           Same(req'[s], req[s]) /\ ~req[s].stale /\ req[s].acc \notin W,
         disturbed \ W \subseteq disturbed',
         \A a \in (W \cap Live') \ disturbed' : Shows(a)'
  PROVE  Looking'
<1>1. ASSUME NEW t, NEW a \in Accounts \ W, Uses(t, a) PROVE Shown(t)' = Shown(t)
  <2>1. CASE t \in Customs
    <3>1. t \notin Fresh
      BY <1>1, FreshUnused
    <3>2. \A b \in W : ~Uses(t, b)
      BY <1>1, <2>1 DEF OneUser
    <3> QED  BY <2>1, <3>1, <3>2 DEF Shown
  <2>2. CASE t \notin Customs
    BY <2>2 DEF Shown
  <2> QED  BY <2>1, <2>2
<1>2. VisualAgrees'
  <2> SUFFICES ASSUME NEW a \in Live', a \notin disturbed' PROVE Shows(a)'
    BY DEF VisualAgrees, Shows
  <2>1. a \in Accounts
    BY DEF Live
  <2>2. CASE a \in W
    BY <2>2
  <2>3. CASE a \notin W
    <3>1. a \in Live /\ row'[a] = row[a] /\ a \notin disturbed
      BY <2>1, <2>3 DEF Live
    <3>2. PICK t : t = row[a].tpl
      OBVIOUS
    <3>3. t # NoTemplate => Sanitized[row[a].look] = Shown(t)
      BY <3>1, <3>2 DEF Looking, VisualAgrees
    <3>4. Shown(t)' = Shown(t)
      BY <1>1, <2>1, <2>3, <3>1, <3>2 DEF Uses
    <3>5. Shows(a)' <=> (t # NoTemplate => Sanitized[row[a].look] = Shown(t)')
      BY <3>1, <3>2 DEF Shows, Shown
    <3> QED  BY <3>3, <3>4, <3>5
  <2> QED  BY <2>2, <2>3
<1>3. ASSUME NEW s \in Processes PROVE (Agrees(s) /\ Covers(s))'
  <2> SUFFICES ASSUME req'[s].pc \in {"compare", "write"}, ~req'[s].stale
               PROVE  (Agrees(s) /\ Covers(s))'
    BY DEF Agrees, Covers
  <2>1. Same(req'[s], req[s]) /\ ~req[s].stale /\ req[s].acc \notin W
    OBVIOUS
  <2>2. req[s].acc \in Accounts /\ req[s].pc \in {"compare", "write"}
    BY <2>1 DEF Same, Types, Sound, Live
  <2>3. row'[req[s].acc] = row[req[s].acc] /\ Uses(req[s].copy.tpl, req[s].acc)
    BY <2>1, <2>2 DEF Uses
  <2>4. PICK x : x = req[s].copy.tpl /\ Uses(x, req[s].acc)
    BY <2>3
  <2>5. Shown(x)' = Shown(x)
    BY <1>1, <2>1, <2>2, <2>4
  <2>6. Agrees(s) /\ Covers(s)
    BY DEF Looking
  <2>7. Agrees(s)'
    BY <2>1, <2>2, <2>3, <2>4, <2>5, <2>6 DEF Agrees, Same, Shown
  <2>8. Covers(s)'
    BY <2>1, <2>2, <2>3, <2>6 DEF Covers, Same
  <2> QED  BY <2>7, <2>8
<1> QED  BY <1>2, <1>3 DEF Looking

LEMMA CreateAccountLooks ==
  ASSUME Types, OneUser, Looking, NEW a \in Accounts, CreateAccount(a) PROVE Looking'
<1>1. /\ row[a] = NoRow /\ req' = req /\ disturbed' = disturbed
      /\ \A b \in Accounts \ {a} : row'[b] = row[b]
  BY DEF CreateAccount, Types, TypeOK
<1>2. /\ \A t \in Customs : custom'[t] # custom[t] => t \in Fresh
      /\ Shows(a)'
  <2>1. CASE \E i \in Active : /\ row' = [row EXCEPT ![a] = [tpl |-> i, look |-> Projection[i]]]
                               /\ UNCHANGED custom
    <3>1. PICK i \in Active : row' = [row EXCEPT ![a] = [tpl |-> i, look |-> Projection[i]]]
      BY <2>1
    <3>2. row'[a].tpl = i /\ row'[a].look = Projection[i]
      BY <3>1 DEF Types, TypeOK
    <3> QED  BY <2>1, <3>2, TemplatesAssumption, SanitizedAssumption DEF Shown, Shows, Active
  <2>2. CASE \E look \in AppLooks : \E t \in CustomFor(look) :
               /\ custom' = [custom EXCEPT ![t] = look]
               /\ row' = [row EXCEPT ![a] = [tpl |-> t, look |-> look]]
    <3>1. PICK look \in AppLooks, t \in Fresh :
            /\ custom' = [custom EXCEPT ![t] = look]
            /\ row' = [row EXCEPT ![a] = [tpl |-> t, look |-> look]]
      BY <2>2 DEF CustomFor
    <3>2. t \in Customs /\ custom \in [Customs -> AppLooks \cup {NoRow}]
      BY DEF Fresh, Types, TypeOK
    <3>3. row'[a].tpl = t /\ row'[a].look = look /\ custom'[t] = look
      BY <3>1, <3>2 DEF Types, TypeOK
    <3> QED  BY <3>1, <3>2, <3>3, SanitizedLooks DEF Shown, Shows
  <2> QED  BY <2>1, <2>2 DEF CreateAccount
<1>3. \A s \in Processes : req'[s].pc # "idle" /\ ~req'[s].stale =>
        Same(req'[s], req[s]) /\ ~req[s].stale /\ req[s].acc \notin {a}
  BY <1>1 DEF Types, Sound, Same, Live
<1> QED  BY <1>1, <1>2, <1>3, RowsLook

LEMMA LegacyCreateLooks ==
  ASSUME Types, OneUser, Looking, NEW a \in Accounts, LegacyCreate(a) PROVE Looking'
<1>1. /\ row[a] = NoRow /\ req' = req /\ disturbed' = disturbed /\ custom' = custom
      /\ \A b \in Accounts \ {a} : row'[b] = row[b]
      /\ Shows(a)'
  BY DEF LegacyCreate, Types, TypeOK, templates, Shows
<1>2. \A s \in Processes : req'[s].pc # "idle" /\ ~req'[s].stale =>
        Same(req'[s], req[s]) /\ ~req[s].stale /\ req[s].acc \notin {a}
  BY <1>1 DEF Types, Sound, Same, Live
<1> QED  BY <1>1, <1>2, RowsLook

LEMMA LegacyWriteLooks ==
  ASSUME Types, OneUser, Looking, NEW a \in Accounts, LegacyWrite(a) PROVE Looking'
<1>1. /\ disturbed' = disturbed \cup {a} /\ custom' = custom
      /\ \A b \in Accounts \ {a} : row'[b] = row[b]
  BY DEF LegacyWrite, Types, TypeOK, templates
<1>2. \A s \in Processes : Same(req'[s], req[s]) /\
        (~req'[s].stale => ~req[s].stale /\ req[s].acc # a)
  BY OvertakeMarks DEF LegacyWrite, Types, TypeOK
<1>3. /\ \A s \in Processes : req'[s].pc # "idle" /\ ~req'[s].stale =>
           Same(req'[s], req[s]) /\ ~req[s].stale /\ req[s].acc \notin {a}
      /\ disturbed \ {a} \subseteq disturbed'
      /\ ({a} \cap Live') \ disturbed' = {}
  BY <1>1, <1>2
<1> QED  BY <1>1, <1>3, RowsLook

\* The row a write leaves, when nobody overtook it: what it means to write.
LEMMA MergedLooks ==
  ASSUME Types, Looking, NEW r \in Processes, req[r].pc = "write", ~req[r].stale
  PROVE  Merged(r).tpl = req[r].copy.tpl /\ Merged(r).look = req[r].copy.look
BY DEF Looking, Covers, Merged

\* The template a copy shows has a colour of the application, or none.
LEMMA ShownLooks ==
  ASSUME Types, NEW r \in Processes, Sound(req[r]), req[r].saved = NoTemplate,
         req[r].copy.tpl # NoTemplate
  PROVE  Sanitized[Shown(req[r].copy.tpl)] = Shown(req[r].copy.tpl)
<1> DEFINE t == req[r].copy.tpl
<1>1. t \in Institutional \cup Customs
  BY DEF Sound, Request, Row
<1>2. CASE t \in Customs
  <2>1. custom[t] \in AppLooks
    BY <1>2, ConstantTypes DEF Types, TypeOK, Sound
  <2> QED  BY <1>2, <2>1, SanitizedLooks DEF Shown
<1>3. CASE t \in Institutional /\ t \notin Customs
  BY <1>3, SanitizedLooks DEF Shown
<1> QED  BY <1>1, <1>2, <1>3

LEMMA WriteLooks ==
  ASSUME Types, OneUser, Looking, NEW r \in Processes, Write(r) PROVE Looking'
<1>1. req[r].pc = "write"
  BY DEF Write
<1>2. PICK a \in Accounts : a = req[r].acc /\ a \in Live
  BY <1>1, MergedTypes DEF Live
<1>3. /\ row' = [row EXCEPT ![a] = Merged(r)] /\ custom' = Repainted(r)
      /\ req' = Overtake(a, [req EXCEPT ![r] = Idle])
      /\ disturbed' = IF req[r].stale THEN disturbed \cup {a}
                      ELSE IF req[r].patch = "other" THEN disturbed ELSE disturbed \ {a}
  BY <1>2 DEF Write
<1>4. \A b \in Accounts \ {a} : row'[b] = row[b]
  BY <1>3 DEF Types, TypeOK
<1>5. Sound(req[r]) /\ Agrees(r) /\ Uses(req[r].copy.tpl, a)
  BY <1>1, <1>2 DEF Types, Looking, Uses
<1>6. \A t \in Customs : custom'[t] # custom[t] => \E b \in {a} : Uses(t, b)
  BY <1>1, <1>3, <1>5, RepaintedTypes, ConstantTypes DEF Sound
<1>7. \A s \in Processes : req'[s].pc # "idle" /\ ~req'[s].stale =>
        Same(req'[s], req[s]) /\ ~req[s].stale /\ req[s].acc \notin {a}
  <2>1. [req EXCEPT ![r] = Idle] \in [Processes -> Request]
    BY ConstantTypes DEF Types, TypeOK
  <2>2. \A s \in Processes :
          /\ Same(req'[s], [req EXCEPT ![r] = Idle][s])
          /\ ~req'[s].stale => ~[req EXCEPT ![r] = Idle][s].stale /\ [req EXCEPT ![r] = Idle][s].acc # a
    BY <1>3, <2>1, OvertakeMarks
  <2>3. req'[r].pc = "idle"
    BY <2>2 DEF Same, Idle, Types, TypeOK
  <2> QED  BY <2>2, <2>3 DEF Types, TypeOK
<1>8. a \notin disturbed' => Shows(a)'
  <2> SUFFICES ASSUME a \notin disturbed', row'[a].tpl # NoTemplate PROVE Shows(a)'
    BY DEF Shows
  <2>1. ~req[r].stale
    BY <1>3
  <2>2. row'[a].tpl = req[r].copy.tpl /\ row'[a].look = req[r].copy.look
    BY <1>1, <1>3, <2>1, MergedLooks DEF Types, TypeOK
  <2>3. CASE req[r].patch = "other"
    <3>1. /\ req[r].saved = NoTemplate /\ req[r].copy.look = row[a].look /\ a \notin disturbed
          /\ req[r].copy.tpl \in {row[a].tpl, NoTemplate}
      BY <1>1, <1>2, <1>3, <1>5, <2>1, <2>3 DEF Agrees
    <3>2. custom' = custom
      BY <1>3, <3>1 DEF Repainted
    <3>3. Sanitized[row[a].look] = Shown(row[a].tpl)
      BY <1>2, <2>2, <3>1 DEF Looking, VisualAgrees
    <3> QED  BY <2>2, <3>1, <3>2, <3>3 DEF Shown, Shows
  <2>4. CASE req[r].patch # "other" /\ req[r].saved = NoTemplate
    <3>1. custom' = custom
      BY <1>3, <2>4 DEF Repainted
    <3>2. req[r].copy.look = Shown(req[r].copy.tpl)
      BY <1>1, <1>5, <2>1, <2>4 DEF Agrees
    <3>3. Sanitized[req[r].copy.look] = req[r].copy.look
      BY <1>5, <2>2, <2>4, <3>2, ShownLooks
    <3> QED  BY <2>2, <3>1, <3>2, <3>3 DEF Shown, Shows
  <2>5. CASE req[r].saved # NoTemplate
    <3>1. req[r].saved \in Customs
      BY <2>5 DEF Types, TypeOK, Request
    <3>2. custom'[req[r].saved] = req[r].look
      BY <1>1, <1>3, <3>1, RepaintedTypes
    <3>3. req[r].copy.tpl = req[r].saved /\ req[r].copy.look = req[r].look
      BY <1>5, <2>5 DEF Sound
    <3>4. Sanitized[req[r].look] = req[r].look
      BY SanitizedLooks DEF Types, TypeOK, Request
    <3> QED  BY <2>2, <3>1, <3>2, <3>3, <3>4 DEF Shown, Shows
  <2> QED  BY <2>3, <2>4, <2>5
<1>9. disturbed \ {a} \subseteq disturbed'
  BY <1>3
<1> QED  BY <1>4, <1>6, <1>7, <1>8, <1>9, RowsLook

LEMMA ReconcileBatchLooks ==
  ASSUME Types, OneUser, Looking, NEW c \in Processes, ReconcileBatch(c) PROVE Looking'
<1>1. PICK S : S = cmd[c].batch /\ S \in SUBSET Accounts /\ S \subseteq Live
  BY DEF Types, Armed, Live
<1>2. PICK f \in Assigned(S) :
        /\ row' = [a \in Accounts |-> IF a \in S THEN [row[a] EXCEPT !.tpl = f[a]] ELSE row[a]]
        /\ \A a \in S : /\ f[a] \in Fresh /\ custom'[f[a]] = Sanitized[row[a].look]
                        /\ row'[a].tpl = f[a] /\ row'[a].look = row[a].look
        /\ \A t \in Customs : (\A a \in S : f[a] # t) => custom'[t] = custom[t]
  BY <1>1, ReconcileWrites
<1>3. \A a \in Accounts \ S : row'[a] = row[a]
  BY <1>2
<1>4. \A t \in Customs : custom'[t] # custom[t] => t \in Fresh
  BY <1>2
<1>5. \A s \in Processes : req'[s].pc # "idle" /\ ~req'[s].stale =>
        Same(req'[s], req[s]) /\ ~req[s].stale /\ req[s].acc \notin S
  BY <1>1, ReconcileMarks
<1>6. disturbed \ S \subseteq disturbed'
  BY <1>1 DEF ReconcileBatch
<1>7. \A a \in S : Shows(a)'
  BY <1>2 DEF Shows, Shown, Fresh
<1> QED  BY <1>1, <1>3, <1>4, <1>5, <1>6, <1>7, RowsLook

LEMMA LookingStep == Types /\ OneUser /\ Looking /\ [Next]_vars => Looking'
<1> SUFFICES ASSUME Types, OneUser, Looking, [Next]_vars PROVE Looking'
  OBVIOUS
<1>1. CASE UNCHANGED <<row, custom, req, disturbed>>
  BY <1>1 DEF Looking, VisualAgrees, Agrees, Covers, Live, Shown
<1> QED
  BY <1>1, QuietSteps, CreateAccountLooks, LegacyCreateLooks, LegacyWriteLooks, ReadLooks,
     ChooseInstitutionalLooks, ResolveLooks, SaveTemplateLooks, CompareLooks, WriteLooks,
     GiveUpLooks, ReconcileBatchLooks

LEMMA AlwaysLooking == Spec => []Looking
<1> QED  BY InitLooking, LookingStep, AlwaysTypes, AlwaysOneUser, PTL DEF Spec

\* The look v0.3 reads is the one the template shows, unless v0.3 wrote last or
\* a save that was overtaken: for every set of accounts, templates and looks.
THEOREM TemplatesVisualAgrees == Spec => []VisualAgrees
<1>1. Looking => VisualAgrees
  BY DEF Looking
<1> QED  BY <1>1, AlwaysLooking, PTL

-----------------------------------------------------------------------------
(* What a reconciliation covers *)

\* A batch below its size leaves nobody out that it might have taken.
Covered ==
  \A c \in Processes :
    /\ cmd[c].pc = "returned" => Bereft \subseteq cmd[c].left
    /\ cmd[c].pc = "batch" /\ LastBatch(cmd[c].batch) => Bereft \subseteq cmd[c].left \cup cmd[c].batch

LEMMA InitCovered == Init => Covered
BY DEF Init, Covered, Resting

\* A step after which every account without a template had none before, or is
\* told to the commands under way.
LEMMA CoveredKept ==
  ASSUME Covered, NEW New, Bereft' \subseteq Bereft \cup New,
         \A c \in Processes : cmd'[c].pc \in {"batch", "returned"} =>
           /\ cmd'[c].pc = cmd[c].pc /\ cmd'[c].batch = cmd[c].batch
           /\ cmd[c].left \cup New \subseteq cmd'[c].left
  PROVE  Covered'
BY DEF Covered, LastBatch

LEMMA CoveredStays ==
  ASSUME Covered, Bereft' \subseteq Bereft,
         \A c \in Processes : cmd'[c].pc \in {"batch", "returned"} =>
           /\ cmd'[c].pc = cmd[c].pc /\ cmd'[c].batch = cmd[c].batch
           /\ cmd[c].left \subseteq cmd'[c].left
  PROVE  Covered'
BY DEF Covered, LastBatch

LEMMA NextBatchCovered ==
  ASSUME Types, Covered, NEW c \in Processes, NextBatch(c) PROVE Covered'
<1>1. PICK free \in SUBSET Bereft : \E S \in SUBSET free :
        /\ cmd' = [cmd EXCEPT ![c] = [Resting EXCEPT !.pc = "batch", !.batch = S,
                                                     !.left = Bereft \ free]]
        /\ Cardinality(S) < BatchSize => S = free
  BY NextBatchTakes
<1>2. PICK S \in SUBSET free :
        /\ cmd' = [cmd EXCEPT ![c] = [Resting EXCEPT !.pc = "batch", !.batch = S,
                                                     !.left = Bereft \ free]]
        /\ Cardinality(S) < BatchSize => S = free
  BY <1>1
<1>3. /\ cmd'[c].pc = "batch" /\ cmd'[c].batch = S /\ cmd'[c].left = Bereft \ free
      /\ \A d \in Processes \ {c} : cmd'[d] = cmd[d]
  BY <1>2 DEF Resting, Types, TypeOK
<1>4. Bereft' = Bereft
  BY DEF NextBatch, Bereft, Live
<1>5. Covered => \A d \in Processes \ {c} :
        /\ cmd'[d].pc = "returned" => Bereft \subseteq cmd'[d].left
        /\ cmd'[d].pc = "batch" /\ Cardinality(cmd'[d].batch) < BatchSize =>
             Bereft \subseteq cmd'[d].left \cup cmd'[d].batch
  BY <1>3 DEF Covered, LastBatch
<1> QED  BY <1>2, <1>3, <1>4, <1>5 DEF Covered, LastBatch

LEMMA ReconcileBatchCovered ==
  ASSUME Types, Covered, NEW c \in Processes, ReconcileBatch(c) PROVE Covered'
<1>1. PICK S : S = cmd[c].batch
  OBVIOUS
<1>2. PICK f \in Assigned(S) :
        /\ row' = [a \in Accounts |-> IF a \in S THEN [row[a] EXCEPT !.tpl = f[a]] ELSE row[a]]
        /\ \A a \in S : f[a] \in Fresh /\ row'[a].tpl = f[a]
  BY <1>1, ReconcileWrites
<1>3. Bereft' \subseteq Bereft \ S
  <2>1. \A a \in S : row'[a].tpl # NoTemplate
    BY <1>2, ConstantTypes DEF Fresh
  <2>2. \A a \in Accounts \ S : row'[a] = row[a]
    BY <1>2
  <2> QED  BY <2>1, <2>2 DEF Bereft, Live
<1>4. cmd' = [cmd EXCEPT ![c] = IF LastBatch(S)
                                THEN [cmd[c] EXCEPT !.batch = {}, !.pc = "returned"]
                                ELSE [Resting EXCEPT !.pc = "next"]]
  BY <1>1 DEF ReconcileBatch
<1>5. cmd \in [Processes -> Command] /\ cmd[c] \in Command /\ cmd[c].pc = "batch"
  BY DEF Types, TypeOK, ReconcileBatch
<1>6. \A d \in Processes \ {c} : cmd'[d] = cmd[d]
  BY <1>4, <1>5
<1>7. CASE LastBatch(S)
  <2>1. cmd'[c] = [cmd[c] EXCEPT !.batch = {}, !.pc = "returned"]
    BY <1>4, <1>5, <1>7
  <2>2. cmd'[c].pc = "returned" /\ cmd'[c].left = cmd[c].left
    BY <1>5, <2>1 DEF Command
  <2>3. Bereft \subseteq cmd[c].left \cup S
    BY <1>1, <1>5, <1>7 DEF Covered
  <2> QED  BY <1>3, <1>6, <2>2, <2>3 DEF Covered, LastBatch
<1>8. CASE ~LastBatch(S)
  <2>1. cmd'[c].pc = "next"
    BY <1>4, <1>5, <1>8 DEF Resting
  <2> QED  BY <1>3, <1>6, <2>1 DEF Covered, LastBatch
<1> QED  BY <1>7, <1>8

LEMMA CoveredStep == Types /\ Covered /\ [Next]_vars => Covered'
<1> SUFFICES ASSUME Types, Covered, [Next]_vars PROVE Covered'
  OBVIOUS
<1>1. ASSUME UNCHANGED row, \A c \in Processes : cmd'[c].pc \in {"batch", "returned"} =>
               /\ cmd'[c].pc = cmd[c].pc /\ cmd'[c].batch = cmd[c].batch
               /\ cmd[c].left \subseteq cmd'[c].left
      PROVE  Covered'
  <2>1. Bereft' \subseteq Bereft
    BY <1>1 DEF Bereft, Live
  <2> QED  BY <1>1, <2>1, CoveredStays
<1>2. cmd \in [Processes -> Command]
  BY DEF Types, TypeOK
<1>3. ASSUME NEW a \in Accounts, CreateAccount(a) PROVE Covered'
  <2>1. row'[a].tpl # NoTemplate /\ cmd' = cmd /\ \A b \in Accounts \ {a} : row'[b] = row[b]
    BY <1>3, TemplatesAssumption, ConstantTypes
    DEF CreateAccount, CustomFor, Fresh, Active, Types, TypeOK
  <2>2. Bereft' \subseteq Bereft
    BY <2>1 DEF Bereft, Live
  <2> QED  BY <2>1, <2>2, CoveredStays
<1>4. ASSUME NEW a \in Accounts, LegacyCreate(a) PROVE Covered'
  <2>1. Leave(a) /\ \A b \in Accounts \ {a} : row'[b] = row[b]
    BY <1>4 DEF LegacyCreate, Types, TypeOK
  <2>2. Bereft' \subseteq Bereft \cup {a}
    BY <2>1 DEF Bereft, Live
  <2>3. \A c \in Processes : cmd'[c].pc \in {"batch", "returned"} =>
          /\ cmd'[c].pc = cmd[c].pc /\ cmd'[c].batch = cmd[c].batch
          /\ cmd[c].left \cup {a} \subseteq cmd'[c].left
    BY <1>2, <2>1, LeaveTells
  <2> QED  BY <2>2, <2>3, CoveredKept
<1>5. ASSUME NEW a \in Accounts, LegacyWrite(a) PROVE Covered'
  <2>1. PICK look \in AnyLook : row' = [row EXCEPT ![a].look = look]
    BY <1>5 DEF LegacyWrite
  <2>2. a \in Live /\ row[a] \in Row /\ cmd' = cmd
    BY <1>5 DEF LegacyWrite, Live, Types, TypeOK
  <2>3. \A b \in Accounts : row'[b].tpl = row[b].tpl /\ (b # a => row'[b] = row[b])
    BY <2>1, <2>2 DEF Types, TypeOK, Row
  <2>4. Bereft' \subseteq Bereft
    BY <2>2, <2>3 DEF Bereft, Live
  <2> QED  BY <2>2, <2>4, CoveredStays
<1>6. ASSUME NEW r \in Processes,
             \/ Read(r) \/ ChooseInstitutional(r) \/ Resolve(r) \/ SaveTemplate(r)
             \/ Compare(r) \/ GiveUp(r)
      PROVE  Covered'
  <2>1. row' = row /\ cmd' = cmd
    BY <1>6 DEF Read, ChooseInstitutional, Resolve, SaveTemplate, Compare, GiveUp
  <2> QED  BY <1>1, <2>1
<1>7. ASSUME NEW r \in Processes, Write(r) PROVE Covered'
  <2>1. req[r].pc = "write"
    BY <1>7 DEF Write
  <2>2. PICK a \in Accounts : a = req[r].acc /\ a \in Live
    BY <2>1, MergedTypes DEF Live
  <2>3. PICK new : new = Merged(r)
    OBVIOUS
  <2>4. /\ row' = [row EXCEPT ![a] = new]
        /\ IF new.tpl = NoTemplate THEN Leave(a) ELSE UNCHANGED cmd
    BY <1>7, <2>2, <2>3 DEF Write
  <2>5. row'[a] = new /\ \A b \in Accounts \ {a} : row'[b] = row[b]
    BY <2>4 DEF Types, TypeOK
  <2>6. CASE new.tpl = NoTemplate
    <3>1. Bereft' \subseteq Bereft \cup {a}
      BY <2>5 DEF Bereft, Live
    <3>2. \A c \in Processes : cmd'[c].pc \in {"batch", "returned"} =>
            /\ cmd'[c].pc = cmd[c].pc /\ cmd'[c].batch = cmd[c].batch
            /\ cmd[c].left \cup {a} \subseteq cmd'[c].left
      BY <1>2, <2>4, <2>6, LeaveTells
    <3> QED  BY <3>1, <3>2, CoveredKept
  <2>7. CASE new.tpl # NoTemplate
    <3>1. Bereft' \subseteq Bereft
      BY <2>5, <2>7 DEF Bereft, Live
    <3> QED  BY <2>4, <2>7, <3>1, CoveredStays
  <2> QED  BY <2>6, <2>7
<1>8. ASSUME NEW c \in Processes,
             Seed(c) \/ CommitSeed(c) \/ Curate(c) \/ Inspect(c) \/ Publish(c) \/ End(c)
      PROVE  Covered'
  <2>1. PICK S \in SUBSET Institutional, d \in Command :
          (cmd' = [cmd EXCEPT ![c] = d] \/ cmd' = [Touched(S) EXCEPT ![c] = d])
          /\ d.pc \notin {"batch", "returned"}
    <3>1. CASE Seed(c)
      <4> DEFINE d == [Resting EXCEPT !.pc = "seed", !.active =
                         {i \in Institutional : catalogue[i] # "inactive"}]
      <4>1. d \in Command /\ d.pc = "seed"
        BY DEF Resting, Command
      <4> HIDE DEF d
      <4> QED  BY <3>1, <4>1 DEF Seed, d
    <3>2. CASE CommitSeed(c)
      BY <3>2, ConstantTypes DEF CommitSeed, Resting
    <3>3. CASE Curate(c)
      <4>1. \A i \in Institutional :
              /\ [Resting EXCEPT !.pc = "inspect", !.entry = i] \in Command
              /\ [Resting EXCEPT !.pc = "inspect", !.entry = i].pc = "inspect"
        BY DEF Resting, Command
      <4> QED  BY <3>3, <4>1 DEF Curate
    <3>4. CASE Inspect(c)
      <4>1. cmd[c].entry \in Institutional \cup {NoRow}
        BY <1>2 DEF Command
      <4>2. /\ [Resting EXCEPT !.pc = "publish", !.entry = cmd[c].entry] \in Command
            /\ [Resting EXCEPT !.pc = "publish", !.entry = cmd[c].entry].pc = "publish"
            /\ Resting \in Command /\ Resting.pc = "idle"
        BY <4>1 DEF Resting, Command
      <4> QED  BY <3>4, <4>2 DEF Inspect
    <3>5. CASE Publish(c)
      <4>1. cmd[c].entry \in Institutional
        BY <3>5 DEF Publish, Types, Armed
      <4> QED  BY <3>5, <4>1, ConstantTypes DEF Publish, Resting
    <3>6. CASE End(c)
      BY <3>6, ConstantTypes DEF End, Resting
    <3> QED  BY <1>8, <3>1, <3>2, <3>3, <3>4, <3>5, <3>6
  <2>2. \A e \in Processes : cmd'[e].pc \in {"batch", "returned"} =>
          /\ cmd'[e].pc = cmd[e].pc /\ cmd'[e].batch = cmd[e].batch
          /\ cmd[e].left \subseteq cmd'[e].left
    BY <1>2, <2>1, TouchedTells
  <2>3. row' = row
    BY <1>8 DEF Seed, CommitSeed, Curate, Inspect, Publish, End
  <2> QED  BY <1>1, <2>2, <2>3
<1>9. ASSUME NEW i \in Institutional, Operate(i) PROVE Covered'
  <2>1. row' = row /\ cmd' = Touched({i})
    BY <1>9 DEF Operate
  <2> QED  BY <1>1, <1>2, <2>1, TouchedTells
<1>10. CASE UNCHANGED vars
  BY <1>1, <1>10 DEF vars
<1> QED
  BY <1>3, <1>4, <1>5, <1>6, <1>7, <1>8, <1>9, <1>10, NextBatchCovered,
     ReconcileBatchCovered DEF Next

\* A reconciliation that returns has given a template to every account that was
\* there to be had: for every finite set of accounts and every batch size.
THEOREM TemplatesReconcileCovers == Spec => []ReconcileCovers
<1>1. Covered => ReconcileCovers
  BY DEF Covered, ReconcileCovers
<1> QED  BY <1>1, InitCovered, CoveredStep, AlwaysTypes, PTL DEF Spec

-----------------------------------------------------------------------------
(* What an operator decided *)

\* A command acts on what it saw, unless it was told of a change since.
Informed ==
  \A c \in Processes, i \in Institutional : i \notin cmd[c].touched =>
    /\ cmd[c].pc = "seed" /\ catalogue[i] = "inactive" => i \notin cmd[c].active
    /\ cmd[c].pc = "publish" /\ cmd[c].entry = i => object[i] \in Replaceable

\* What a step makes of the other commands.
LEMMA OthersInformed ==
  ASSUME Types, Informed, NEW S \in SUBSET Institutional, NEW d,
         NEW e \in Processes,
         cmd'[e] = d \/ cmd'[e] = Touched(S)[e],
         \A i \in Institutional \ S : catalogue'[i] = catalogue[i] /\ object'[i] = object[i],
         cmd'[e] = d => d.pc \notin {"seed", "publish"},
         NEW i \in Institutional, i \notin cmd'[e].touched
  PROVE  /\ cmd'[e].pc = "seed" /\ catalogue'[i] = "inactive" => i \notin cmd'[e].active
         /\ cmd'[e].pc = "publish" /\ cmd'[e].entry = i => object'[i] \in Replaceable
<1>1. CASE cmd'[e] = d
  BY <1>1
<1>2. CASE cmd'[e] = Touched(S)[e]
  <2>1. cmd \in [Processes -> Command]
    BY DEF Types, TypeOK
  <2>2. /\ cmd'[e].pc = cmd[e].pc /\ cmd'[e].active = cmd[e].active /\ cmd'[e].entry = cmd[e].entry
        /\ cmd[e].touched \subseteq cmd'[e].touched
        /\ cmd[e].pc \in {"seed", "publish"} => S \subseteq cmd'[e].touched
    BY <1>2, <2>1, TouchedTells
  <2> QED  BY <2>2 DEF Informed
<1> QED  BY <1>1, <1>2

LEMMA InitInformed == Init => Informed
BY DEF Init, Informed, Resting

\* A step that leaves the catalogue and the objects alone.
LEMMA StillInformed ==
  ASSUME Informed, UNCHANGED <<catalogue, object>>,
         \A c \in Processes : cmd'[c].pc \in {"seed", "publish"} =>
           /\ cmd'[c].pc = cmd[c].pc /\ cmd'[c].active = cmd[c].active
           /\ cmd'[c].entry = cmd[c].entry /\ cmd'[c].touched = cmd[c].touched
  PROVE  Informed'
BY DEF Informed

LEMMA InformedStep == Types /\ Informed /\ [Next]_vars => Informed'
<1> SUFFICES ASSUME Types, Informed, [Next]_vars PROVE Informed'
  OBVIOUS
<1>1. cmd \in [Processes -> Command]
  BY DEF Types, TypeOK
<1>2. ASSUME UNCHANGED <<catalogue, object>>,
             (\E a \in Accounts : Leave(a)) \/ UNCHANGED cmd
      PROVE  Informed'
  <2>1. \A c \in Processes :
          /\ cmd'[c].pc = cmd[c].pc /\ cmd'[c].active = cmd[c].active
          /\ cmd'[c].entry = cmd[c].entry /\ cmd'[c].touched = cmd[c].touched
    BY <1>1, <1>2, LeaveTells
  <2> QED  BY <1>2, <2>1, StillInformed
<1>3. ASSUME UNCHANGED <<catalogue, object>>, NEW c \in Processes, NEW d,
             cmd' = [cmd EXCEPT ![c] = d], d.pc \notin {"seed", "publish"}
      PROVE  Informed'
  <2>1. \A e \in Processes : cmd'[e] = IF e = c THEN d ELSE cmd[e]
    BY <1>1, <1>3
  <2> QED  BY <1>3, <2>1, StillInformed
<1>4. CASE \E a \in Accounts : CreateAccount(a) \/ LegacyCreate(a) \/ LegacyWrite(a)
  BY <1>2, <1>4 DEF CreateAccount, LegacyCreate, LegacyWrite, templates
<1>5. ASSUME NEW r \in Processes, Write(r) PROVE Informed'
  <2>1. req[r].acc \in Accounts
    BY <1>5, MergedTypes DEF Write, Live
  <2> QED  BY <1>2, <1>5, <2>1 DEF Write
<1>6. CASE \E r \in Processes : \/ Read(r) \/ ChooseInstitutional(r) \/ Resolve(r)
                                \/ SaveTemplate(r) \/ Compare(r) \/ GiveUp(r)
  BY <1>2, <1>6 DEF Read, ChooseInstitutional, Resolve, SaveTemplate, Compare, GiveUp, templates
<1>7. ASSUME NEW c \in Processes, NextBatch(c) PROVE Informed'
  <2>1. PICK free \in SUBSET Bereft : \E S \in SUBSET free :
          cmd' = [cmd EXCEPT ![c] = [Resting EXCEPT !.pc = "batch", !.batch = S,
                                                    !.left = Bereft \ free]]
    BY <1>7, NextBatchTakes
  <2>2. \A S : [Resting EXCEPT !.pc = "batch", !.batch = S, !.left = Bereft \ free].pc = "batch"
    BY DEF Resting
  <2> QED  BY <1>3, <1>7, <2>1, <2>2 DEF NextBatch, templates
<1>8. ASSUME NEW c \in Processes, ReconcileBatch(c) PROVE Informed'
  <2>1. PICK S : S = cmd[c].batch
    OBVIOUS
  <2>2. \E d : d.pc \notin {"seed", "publish"} /\ cmd' = [cmd EXCEPT ![c] = d]
    <3>1. cmd[c] \in Command
      BY <1>1
    <3>2. /\ [cmd[c] EXCEPT !.batch = {}, !.pc = "returned"].pc = "returned"
          /\ [Resting EXCEPT !.pc = "next"].pc = "next"
      BY <3>1 DEF Command, Resting
    <3> QED  BY <1>8, <3>2 DEF ReconcileBatch
  <2> QED  BY <1>3, <1>8, <2>2 DEF ReconcileBatch
<1>9. ASSUME NEW c \in Processes, Seed(c) PROVE Informed'
  <2> DEFINE d == [Resting EXCEPT !.pc = "seed", !.active =
                     {i \in Institutional : catalogue[i] # "inactive"}]
  <2>1. d.pc = "seed" /\ d.active = {i \in Institutional : catalogue[i] # "inactive"}
    BY DEF Resting
  <2> HIDE DEF d
  <2>2. cmd' = [cmd EXCEPT ![c] = d] /\ UNCHANGED <<catalogue, object>>
    BY <1>9 DEF Seed, d, templates
  <2>3. \A e \in Processes : cmd'[e] = IF e = c THEN d ELSE cmd[e]
    BY <1>1, <2>2
  <2> QED  BY <2>1, <2>2, <2>3 DEF Informed
<1>10. ASSUME NEW c \in Processes, NEW S \in SUBSET Institutional,
              cmd' = [Touched(S) EXCEPT ![c] = Resting],
              \A i \in Institutional \ S : catalogue'[i] = catalogue[i] /\ object'[i] = object[i]
       PROVE  Informed'
  <2>1. \A e \in Processes : cmd'[e] = Resting \/ cmd'[e] = Touched(S)[e]
    BY <1>1, <1>10, TouchedTells
  <2>2. Resting.pc \notin {"seed", "publish"}
    BY DEF Resting
  <2> QED  BY <1>10, <2>1, <2>2, OthersInformed DEF Informed
<1>11. ASSUME NEW c \in Processes, CommitSeed(c) PROVE Informed'
  <2>1. PICK S \in SUBSET Institutional :
          /\ S = {i \in Institutional : catalogue'[i] # catalogue[i]}
          /\ cmd' = [Touched(S) EXCEPT ![c] = Resting]
    BY <1>11 DEF CommitSeed
  <2> QED  BY <1>10, <1>11, <2>1 DEF CommitSeed
<1>12. ASSUME NEW c \in Processes, Curate(c) PROVE Informed'
  <2>1. PICK i \in Institutional :
          cmd' = [cmd EXCEPT ![c] = [Resting EXCEPT !.pc = "inspect", !.entry = i]]
    BY <1>12 DEF Curate
  <2>2. [Resting EXCEPT !.pc = "inspect", !.entry = i].pc = "inspect"
    BY DEF Resting
  <2> QED  BY <1>3, <1>12, <2>1, <2>2 DEF Curate, templates
<1>13. ASSUME NEW c \in Processes, Inspect(c) PROVE Informed'
  <2>1. PICK i \in Institutional : i = cmd[c].entry
    BY <1>13 DEF Inspect, Types, Armed
  <2>2. UNCHANGED <<catalogue, object>>
    BY <1>13 DEF Inspect, templates
  <2>3. CASE object[i] \in Replaceable
    <3> DEFINE d == [Resting EXCEPT !.pc = "publish", !.entry = i]
    <3>1. d.pc = "publish" /\ d.entry = i
      BY DEF Resting
    <3> HIDE DEF d
    <3>2. cmd' = [cmd EXCEPT ![c] = d]
      BY <1>13, <2>1, <2>3 DEF Inspect, d
    <3>3. \A e \in Processes : cmd'[e] = IF e = c THEN d ELSE cmd[e]
      BY <1>1, <3>2
    <3> QED  BY <2>2, <2>3, <3>1, <3>3 DEF Informed
  <2>4. CASE object[i] \notin Replaceable
    BY <1>3, <1>13, <2>1, <2>2, <2>4 DEF Inspect, Resting
  <2> QED  BY <2>3, <2>4
<1>14. ASSUME NEW c \in Processes, Publish(c) PROVE Informed'
  <2>1. PICK i \in Institutional : i = cmd[c].entry
    BY <1>14 DEF Publish, Types, Armed
  <2>2. /\ object' = [object EXCEPT ![i] = "reviewed"] /\ catalogue' = catalogue
        /\ cmd' = [Touched({i}) EXCEPT ![c] = Resting]
    BY <1>14, <2>1 DEF Publish, templates
  <2>3. \A j \in Institutional \ {i} : catalogue'[j] = catalogue[j] /\ object'[j] = object[j]
    BY <2>2 DEF Types, TypeOK
  <2> QED  BY <1>10, <2>2, <2>3
<1>15. ASSUME NEW c \in Processes, End(c) PROVE Informed'
  BY <1>3, <1>15 DEF End, Resting, templates
<1>16. ASSUME NEW i \in Institutional, Operate(i) PROVE Informed'
  <2>1. /\ cmd' = Touched({i})
        /\ \A j \in Institutional \ {i} : catalogue'[j] = catalogue[j] /\ object'[j] = object[j]
    BY <1>16 DEF Operate, Types, TypeOK
  <2>2. Resting.pc \notin {"seed", "publish"}
    BY DEF Resting
  <2> QED  BY <2>1, <2>2, OthersInformed DEF Informed
<1>17. CASE UNCHANGED vars
  BY <1>2, <1>17 DEF vars
<1> QED
  BY <1>4, <1>5, <1>6, <1>7, <1>8, <1>9, <1>11, <1>12, <1>13, <1>14, <1>15, <1>16, <1>17
  DEF Next

\* One step of OperatorPrevails.
Prevails ==
  \A c \in Processes, i \in Institutional :
    cmd'[c] # cmd[c] /\ i \notin cmd[c].touched /\ i \notin cmd'[c].touched
    => /\ catalogue[i] = "inactive" => catalogue'[i] = "inactive"
       /\ object[i] = "unreviewed" => object'[i] = "unreviewed"

LEMMA PrevailsStep == Types /\ Informed /\ [Next]_vars => Prevails
<1> SUFFICES ASSUME Types, Informed, [Next]_vars PROVE Prevails
  OBVIOUS
<1>1. cmd \in [Processes -> Command]
  BY DEF Types, TypeOK
<1>2. CASE UNCHANGED <<catalogue, object>>
  BY <1>2 DEF Prevails
<1>3. ASSUME NEW c \in Processes, NEW S \in SUBSET Institutional, NEW e \in Processes,
             cmd' = [Touched(S) EXCEPT ![c] = Resting], e # c, cmd'[e] # cmd[e]
      PROVE  S \subseteq cmd'[e].touched
  <2>1. cmd'[e] = Touched(S)[e]
    BY <1>1, <1>3, TouchedTells
  <2> QED  BY <1>1, <1>3, <2>1, TouchedTells
<1>4. ASSUME NEW c \in Processes, CommitSeed(c) PROVE Prevails
  <2> SUFFICES ASSUME NEW e \in Processes, NEW i \in Institutional,
                      cmd'[e] # cmd[e], i \notin cmd[e].touched, i \notin cmd'[e].touched
               PROVE  catalogue[i] = "inactive" => catalogue'[i] = "inactive"
    BY <1>4 DEF Prevails, CommitSeed
  <2>1. PICK S \in SUBSET Institutional :
          /\ S = {j \in Institutional : catalogue'[j] # catalogue[j]}
          /\ cmd' = [Touched(S) EXCEPT ![c] = Resting]
    BY <1>4 DEF CommitSeed
  <2>2. CASE e = c
    <3>1. catalogue[i] = "inactive" => i \notin cmd[c].active
      BY <1>4, <2>2 DEF Informed, CommitSeed
    <3> QED  BY <1>4, <3>1 DEF CommitSeed, StaysActive
  <2>3. CASE e # c
    BY <1>3, <2>1, <2>3
  <2> QED  BY <2>2, <2>3
<1>5. ASSUME NEW c \in Processes, Publish(c) PROVE Prevails
  <2>1. PICK k \in Institutional : k = cmd[c].entry
    BY <1>5 DEF Publish, Types, Armed
  <2>2. /\ object' = [object EXCEPT ![k] = "reviewed"] /\ catalogue' = catalogue
        /\ cmd' = [Touched({k}) EXCEPT ![c] = Resting]
    BY <1>5, <2>1 DEF Publish, templates
  <2> SUFFICES ASSUME NEW e \in Processes, NEW i \in Institutional,
                      cmd'[e] # cmd[e], i \notin cmd[e].touched, i \notin cmd'[e].touched
               PROVE  object[i] = "unreviewed" => object'[i] = "unreviewed"
    BY <2>2 DEF Prevails
  <2>3. CASE i # k
    BY <2>2, <2>3 DEF Types, TypeOK
  <2>4. CASE i = k /\ e = c
    BY <1>5, <2>1, <2>4 DEF Informed, Publish, Replaceable
  <2>5. CASE i = k /\ e # c
    <3>1. PICK S \in SUBSET Institutional : S = {k}
      OBVIOUS
    <3>2. S \subseteq cmd'[e].touched
      BY <1>3, <2>2, <2>5, <3>1
    <3> QED  BY <2>5, <3>1, <3>2
  <2> QED  BY <2>3, <2>4, <2>5
<1>6. ASSUME NEW i \in Institutional, Operate(i) PROVE Prevails
  <2>1. /\ cmd' = Touched({i})
        /\ \A j \in Institutional \ {i} : catalogue'[j] = catalogue[j] /\ object'[j] = object[j]
    BY <1>6 DEF Operate, Types, TypeOK
  <2>2. \A e \in Processes : cmd'[e] # cmd[e] => i \in cmd'[e].touched
    BY <1>1, <2>1, TouchedTells
  <2> QED  BY <2>1, <2>2 DEF Prevails
<1>7. \/ UNCHANGED <<catalogue, object>>
      \/ \E c \in Processes : CommitSeed(c) \/ Publish(c)
      \/ \E i \in Institutional : Operate(i)
  BY DEF Next, vars, templates, CreateAccount, LegacyCreate, LegacyWrite, Read,
     ChooseInstitutional, Resolve, SaveTemplate, Compare, Write, GiveUp, NextBatch,
     ReconcileBatch, Seed, Curate, Inspect, End
<1> QED  BY <1>2, <1>4, <1>5, <1>6, <1>7

\* A template switched off stays off and an object nobody reviewed is not
\* replaced, unless that was done after the command looked: for every catalogue
\* and every number of commands at once.
THEOREM TemplatesOperatorPrevails == Spec => OperatorPrevails
<1>1. Types /\ Informed /\ [Next]_vars =>
        [\A c \in Processes, i \in Institutional :
           /\ cmd'[c] # cmd[c] /\ i \notin cmd[c].touched /\ i \notin cmd'[c].touched
           => /\ catalogue[i] = "inactive" => catalogue'[i] = "inactive"
              /\ object[i] = "unreviewed" => object'[i] = "unreviewed"]_vars
  BY PrevailsStep DEF Prevails
<1>2. Spec => []Informed
  BY InitInformed, InformedStep, AlwaysTypes, PTL DEF Spec
<1> QED  BY <1>1, <1>2, AlwaysTypes, PTL DEF Spec, OperatorPrevails
=============================================================================
