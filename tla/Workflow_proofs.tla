---------------------------- MODULE Workflow_proofs ----------------------------
(***************************************************************************)
(* Theorems about states and the issues in them, for any number of both    *)
(* and of the requests that work on them.                                  *)
(***************************************************************************)
EXTENDS Workflow, FiniteSetTheorems, TLAPS

-----------------------------------------------------------------------------
(* The inductive invariant.  Every part but the types says what a request  *)
(* has made sure of with its earlier statements, or names it as doubtful.  *)

\* Requests that contend are noticed while they do.
ContendersDoubted == Contended \subseteq doubtful

\* Two default states are never both free of doubt, and a request about to set one that is
\* has cleared the others.
OneDefault == \A s, t \in isDefault \ doubtful : s = t
Cleared(r) == req[r].at = "set" /\ req[r].s \in States =>
                req[r].s \in doubtful \/ isDefault \subseteq doubtful

\* A state that is being destroyed is not the default, and has no live issues once they
\* have been counted.
Spared(r) == r \in Destroying /\ req[r].s \in isDefault => req[r].s \in doubtful
Emptied(r) == req[r].at = "delete" =>
                req[r].s \in doubtful \/ \A i \in Live : stateOf[i] # req[r].s

\* The state that a request is going to put an issue into exists, unless it was named in spite
\* of its delete.
Carried(r) == r \in Writing => req[r].s \in Present \cup {NoState} \cup Foreign \cup doubtful

\* Issues that are about to be archived have been found archivable.
Found(r) == IF req[r].at = "archive" THEN req[r].all ELSE req[r].all \ req[r].todo
Checked(r) == r \in Archiving => /\ req[r].todo \subseteq req[r].all
                                 /\ \A i \in Found(r) : Archivable(i) \/ i \in doubtful

\* A delete is of a state of the project, a request to archive of issues that have rows.
Named(r) == /\ r \in Destroying => req[r].s \in States
            /\ r \in Archiving => \A i \in req[r].all : issueRow[i] # "absent"

Ready(r) == Cleared(r) /\ Spared(r) /\ Emptied(r) /\ Carried(r) /\ Checked(r) /\ Named(r)

IInv == /\ TypeOK /\ ContendersDoubted /\ OneDefault /\ IssuesHaveStates
        /\ \A r \in Requests : Ready(r)

-----------------------------------------------------------------------------
(* What a step of the requests in R leaves alone.                          *)

Others(R) == /\ R \subseteq Requests /\ req' \in [Requests -> Request]
             /\ \A q \in Requests \ R : req'[q] = req[q]

\* The frame of every action: the types, the doubt the step adds, and no row that vanishes.
RowsStay == \A i \in Issues : issueRow[i] # "absent" => issueRow'[i] # "absent"
Framed(R) == /\ Others(R) /\ TypeOK' /\ RowsStay /\ \E more : Doubt(more)
             /\ \A q \in R : Ready(q)'

DefaultsFrame == isDefault' \subseteq isDefault
IssuesFrame == /\ Present \subseteq Present'
               /\ \A i \in Live' : i \in Live /\ stateOf'[i] = stateOf[i]
ArchivesFrame == \A i \in Issues : Archivable(i) => Archivable(i)'

\* A doubt that is known and still open is kept.
LEMMA DoubtKept ==
  ASSUME NEW more, Doubt(more), NEW x \in doubtful \cup more \cup Contended', x \in Open'
  PROVE  x \in doubtful'
BY DEF Doubt

LEMMA DoubtStays ==
  ASSUME NEW R, Framed(R), NEW x \in doubtful, x \in Open'
  PROVE  x \in doubtful'
BY DEF Framed, Doubt

LEMMA CarriedOpen ==
  ASSUME NEW r \in Requests, req[r].s \in States
  PROVE  req[r].s \in Open
BY DEF Open

LEMMA ArchivingOpen ==
  ASSUME NEW r \in Archiving, NEW i \in Issues, i \in req[r].all
  PROVE  i \in Open
BY DEF Open

LEMMA StateOpen ==
  ASSUME NEW s \in States, s \in isDefault \/ s \notin Present
  PROVE  s \in Open
BY DEF Open

LEMMA ContendedOpen == Contended \subseteq Open
BY DEF Contended, Open, Marking, Destroying, Archiving

LEMMA ContendersAlone ==
  ASSUME NEW R, Framed(R)
  PROVE  ContendersDoubted'
BY ContendedOpen DEF Framed, Doubt, ContendersDoubted, Contended, Open, Marking, Destroying, Archiving, Writing

LEMMA DefaultsAlone ==
  ASSUME IInv, NEW R, Framed(R), DefaultsFrame
  PROVE  OneDefault'
<1>1. ASSUME NEW s \in isDefault', s \notin doubtful' PROVE s \in isDefault \ doubtful
  BY <1>1, DoubtStays DEF DefaultsFrame, Open, Framed, TypeOK, Present
<1> QED BY <1>1 DEF OneDefault, IInv

LEMMA StatesAlone ==
  ASSUME IInv, NEW R, Framed(R), IssuesFrame
  PROVE  IssuesHaveStates'
<1> SUFFICES ASSUME NEW i \in Live' PROVE stateOf'[i] \in Present' \cup {NoState} \cup Foreign \cup doubtful'
  BY DEF IssuesHaveStates
<1>1. stateOf'[i] = stateOf[i] /\ stateOf[i] \in Present \cup {NoState} \cup Foreign \cup doubtful
  BY DEF IssuesFrame, IInv, IssuesHaveStates
<1>2. stateOf'[i] \in StateIds
  BY DEF Framed, TypeOK, Live
<1> QED BY <1>1, <1>2, DoubtStays DEF IssuesFrame, Open, StateIds

LEMMA CarriedDoubt ==
  ASSUME NEW R, Framed(R), NEW q \in Requests \ R, req[q].s \in doubtful, req[q].s \in States
  PROVE  req'[q].s \in doubtful'
BY DoubtStays DEF Framed, Others, Open

LEMMA ClearedAlone ==
  ASSUME IInv, NEW R, Framed(R), DefaultsFrame, NEW q \in Requests \ R
  PROVE  Cleared(q)' /\ Spared(q)'
<1>1. req'[q] = req[q] /\ Cleared(q) /\ Spared(q) /\ Named(q)
  BY DEF Framed, Others, IInv, Ready
<1>2. isDefault \subseteq doubtful => isDefault' \subseteq doubtful'
  BY DoubtStays DEF DefaultsFrame, Open, Framed, TypeOK, Present
<1>3. Cleared(q)'
  BY <1>1, <1>2, CarriedDoubt DEF Cleared
<1>4. Spared(q)'
  BY <1>1, CarriedDoubt DEF Spared, Named, Destroying, DefaultsFrame
<1> QED BY <1>3, <1>4

LEMMA CarriedAlone ==
  ASSUME IInv, NEW R, Framed(R), IssuesFrame, NEW q \in Requests \ R
  PROVE  Emptied(q)' /\ Carried(q)'
<1>1. req'[q] = req[q] /\ Emptied(q) /\ Carried(q) /\ Named(q)
  BY DEF Framed, Others, IInv, Ready
<1>2. req[q].s \in StateIds
  BY DEF IInv, TypeOK, Request, StateIds
<1>3. Emptied(q)'
  BY <1>1, CarriedDoubt DEF Emptied, Named, Destroying, IssuesFrame
<1>4. Carried(q)'
  BY <1>1, <1>2, CarriedDoubt DEF Carried, Writing, IssuesFrame, StateIds
<1> QED BY <1>3, <1>4

LEMMA CheckedAlone ==
  ASSUME IInv, NEW R, Framed(R), ArchivesFrame, NEW q \in Requests \ R
  PROVE  Checked(q)'
<1> SUFFICES ASSUME q \in Archiving' PROVE Checked(q)'
  BY DEF Checked
<1>1. req'[q] = req[q] /\ Checked(q) /\ q \in Archiving
  BY DEF Framed, Others, IInv, Ready, Archiving
<1>2. Found(q)' = Found(q) /\ req[q].todo \subseteq req[q].all /\ req[q].all \subseteq Issues
  BY <1>1 DEF Found, Checked, IInv, TypeOK, Request
<1>3. ASSUME NEW i \in Found(q) PROVE Archivable(i)' \/ i \in doubtful'
  <2>1. i \in Issues /\ i \in req'[q].all
    BY <1>1, <1>2 DEF Found
  <2>2. i \in Open'
    BY <2>1 DEF Open
  <2>3. CASE Archivable(i)
    BY <2>1, <2>3 DEF ArchivesFrame
  <2>4. CASE i \in doubtful
    BY <2>2, <2>4, DoubtStays
  <2> QED BY <1>1, <2>3, <2>4 DEF Checked
<1> QED BY <1>1, <1>2, <1>3 DEF Checked

LEMMA NamedAlone ==
  ASSUME IInv, NEW R, Framed(R), NEW q \in Requests \ R
  PROVE  Named(q)'
BY DEF IInv, Ready, Named, Framed, Others, Marking, Destroying, Archiving, TypeOK, Request, RowsStay

LEMMA StepKeeps ==
  ASSUME IInv, NEW R, Framed(R), DefaultsFrame, IssuesFrame, ArchivesFrame
  PROVE  IInv'
<1>1. ASSUME NEW q \in Requests PROVE Ready(q)'
  <2>1. CASE q \in R
    BY <2>1 DEF Framed
  <2>2. CASE q \notin R
    BY <2>2, ClearedAlone, CarriedAlone, CheckedAlone, NamedAlone DEF Ready
  <2> QED BY <2>1, <2>2
<1>2. TypeOK'
  BY DEF Framed
<1> QED BY <1>1, <1>2, ContendersAlone, DefaultsAlone, StatesAlone DEF IInv

-----------------------------------------------------------------------------
(* How the locals of a request change.                                     *)

LEMMA DoubtTyped ==
  ASSUME NEW more, Doubt(more)
  PROVE  doubtful' \subseteq States \cup Issues
BY DEF Doubt, Open

LEMMA BeginFields ==
  ASSUME IInv, NEW r \in Requests, NEW step \in Steps, NEW s \in StateIds,
         NEW is \in SUBSET Issues, Begin(r, step, s, is)
  PROVE  /\ Others({r})
         /\ req'[r].at = step /\ req'[r].s = s /\ req'[r].todo = is /\ req'[r].all = is
<1> DEFINE new == [at |-> step, s |-> s, todo |-> is, all |-> is]
<1>1. new \in Request /\ new.at = step /\ new.s = s /\ new.todo = is /\ new.all = is
  BY DEF Request
<1>2. req' = [req EXCEPT ![r] = new] /\ req \in [Requests -> Request]
  BY DEF Begin, IInv, TypeOK
<1> HIDE DEF new
<1>3. req' \in [Requests -> Request] /\ req'[r] = new /\ \A q \in Requests \ {r} : req'[q] = req[q]
  BY <1>1, <1>2
<1> QED BY <1>1, <1>3 DEF Others

LEMMA GotoFields ==
  ASSUME IInv, NEW r \in Requests, NEW step \in Steps, Goto(r, step)
  PROVE  /\ Others({r}) /\ req'[r].at = step
         /\ req'[r].s = req[r].s /\ req'[r].todo = req[r].todo /\ req'[r].all = req[r].all
<1>1. req \in [Requests -> Request] /\ req' = [req EXCEPT ![r].at = step]
  BY DEF Goto, IInv, TypeOK
<1>2. /\ req'[r].at = step
      /\ req'[r].s = req[r].s /\ req'[r].todo = req[r].todo /\ req'[r].all = req[r].all
  BY <1>1 DEF Request
<1>3. req' \in [Requests -> Request] /\ \A q \in Requests \ {r} : req'[q] = req[q]
  BY <1>1 DEF Request
<1> QED BY <1>2, <1>3 DEF Others

LEMMA ReturnFields ==
  ASSUME IInv, NEW r \in Requests, Return(r)
  PROVE  /\ Others({r}) /\ req'[r].at = "idle" /\ req'[r].s = NoState /\ Ready(r)'
<1>1. Idle \in Request /\ Idle.at = "idle" /\ Idle.s = NoState
  BY DEF Idle, Request, Steps, StateIds
<1>2. req \in [Requests -> Request] /\ req' = [req EXCEPT ![r] = Idle]
  BY DEF Return, IInv, TypeOK
<1>3. req'[r] = Idle /\ req' \in [Requests -> Request] /\ \A q \in Requests \ {r} : req'[q] = req[q]
  BY <1>1, <1>2
<1>4. req'[r].at = "idle" /\ req'[r].s = NoState
  BY <1>1, <1>3
<1>5. Ready(r)'
  BY <1>4 DEF Ready, Cleared, Spared, Emptied, Carried, Checked, Named,
              Marking, Destroying, Writing, Archiving
<1> QED BY <1>3, <1>4, <1>5 DEF Others

-----------------------------------------------------------------------------
(* Steps that change no row.                                               *)

LEMMA RowsFields ==
  ASSUME UNCHANGED rows
  PROVE  /\ stateRow' = stateRow /\ isDefault' = isDefault /\ issueRow' = issueRow
         /\ stateOf' = stateOf /\ archived' = archived /\ Present' = Present /\ Live' = Live
BY DEF rows, Present, Live

LEMMA QuietKeeps ==
  ASSUME IInv, NEW r \in Requests, NEW more, Doubt(more), UNCHANGED rows, Others({r}), Ready(r)'
  PROVE  IInv'
<1>1. TypeOK'
  <2>1. req' \in [Requests -> Request]
    BY DEF Others
  <2> QED BY <2>1, RowsFields, DoubtTyped DEF IInv, TypeOK
<1>2. Framed({r})
  BY <1>1, RowsFields DEF Framed, RowsStay
<1>3. DefaultsFrame /\ IssuesFrame /\ ArchivesFrame
  BY RowsFields DEF DefaultsFrame, IssuesFrame, ArchivesFrame, Archivable
<1> QED BY <1>2, <1>3, StepKeeps

LEMMA BeginMarkDefaultKeeps ==
  ASSUME IInv, Doubt({}), NEW r \in Requests, NEW s \in States \cup Foreign, BeginMarkDefault(r, s)
  PROVE  IInv'
<1>1. UNCHANGED rows /\ Begin(r, "clear", s, {}) /\ "clear" \in Steps /\ {} \in SUBSET Issues
  BY DEF BeginMarkDefault, Steps
<1>2. Others({r}) /\ req'[r].at = "clear" /\ req'[r].s = s
  BY <1>1, BeginFields DEF StateIds
<1>3. Ready(r)'
  BY <1>2 DEF Ready, Cleared, Spared, Emptied, Carried, Checked, Named,
              Marking, Destroying, Writing, Archiving
<1> QED BY <1>1, <1>2, <1>3, QuietKeeps

LEMMA BeginDestroyKeeps ==
  ASSUME IInv, Doubt({}), NEW r \in Requests, NEW s \in States, BeginDestroy(r, s)
  PROVE  IInv'
<1>1. /\ UNCHANGED rows /\ Begin(r, "count", s, {}) /\ "count" \in Steps /\ {} \in SUBSET Issues
      /\ s \notin isDefault
  BY DEF BeginDestroy, Steps
<1>2. Others({r}) /\ req'[r].at = "count" /\ req'[r].s = s
  BY <1>1, BeginFields DEF StateIds
<1>3. s \notin isDefault'
  BY <1>1, RowsFields
<1>4. Ready(r)'
  BY <1>2, <1>3 DEF Ready, Cleared, Spared, Emptied, Carried, Checked, Named,
              Marking, Destroying, Writing, Archiving
<1> QED BY <1>1, <1>2, <1>4, QuietKeeps

LEMMA CountIssuesKeeps ==
  ASSUME IInv, Doubt({}), NEW r \in Requests, CountIssues(r)
  PROVE  IInv'
<1>1. UNCHANGED rows /\ req[r].at = "count" /\ req[r].s \in States
  BY DEF CountIssues, IInv, Ready, Named, Destroying
<1>2. CASE Return(r)
  BY <1>1, <1>2, ReturnFields, QuietKeeps
<1>3. CASE CountIssuesByState(req[r].s) = {} /\ Goto(r, "delete")
  <2>1. /\ Others({r}) /\ req'[r].at = "delete" /\ req'[r].s = req[r].s
    BY <1>3, GotoFields DEF Steps
  <2>2. \A i \in Live' : stateOf'[i] # req[r].s
    BY <1>1, <1>3, RowsFields DEF CountIssuesByState
  <2>3. req[r].s \in isDefault => req[r].s \in doubtful
    BY <1>1 DEF IInv, Ready, Spared, Destroying
  <2>4. req[r].s \in isDefault' => req[r].s \in doubtful'
    BY <1>1, <2>1, <2>3, RowsFields, DoubtKept, CarriedOpen DEF Open
  <2>5. Ready(r)'
    BY <1>1, <2>1, <2>2, <2>4 DEF Ready, Cleared, Spared, Emptied, Carried, Checked, Named,
              Marking, Destroying, Writing, Archiving
  <2> QED BY <1>1, <2>1, <2>5, QuietKeeps
<1> QED BY <1>2, <1>3 DEF CountIssues

LEMMA BeginWriteKeeps ==
  ASSUME IInv, Doubt({}), NEW r \in Requests, NEW i \in Issues, NEW s \in StateIds,
         BeginCreate(r, i, s) \/ BeginUpdate(r, i, s)
  PROVE  IInv'
<1>1. PICK step \in {"insert", "write"} : Begin(r, step, s, {i})
  BY DEF BeginCreate, BeginUpdate
<1>2. UNCHANGED rows /\ step \in Steps /\ {i} \in SUBSET Issues
  BY DEF BeginCreate, BeginUpdate, Steps
<1>3. Others({r}) /\ req'[r].at = step /\ req'[r].s = s
  BY <1>1, <1>2, BeginFields
<1>4. ASSUME s \in States \ Present PROVE s \in doubtful'
  <2>1. s \in Contended' /\ s \in Open'
    BY <1>2, <1>3, <1>4, RowsFields DEF Contended, Writing, Open
  <2> QED BY <2>1 DEF Doubt
<1>5. s \in Present' \cup {NoState} \cup Foreign \cup doubtful'
  BY <1>2, <1>4, RowsFields DEF StateIds
<1>6. Ready(r)'
  BY <1>3, <1>5 DEF Ready, Cleared, Spared, Emptied, Carried, Checked, Named,
              Marking, Destroying, Writing, Archiving
<1> QED BY <1>2, <1>3, <1>6, QuietKeeps

LEMMA BeginArchiveKeeps ==
  ASSUME IInv, Doubt({}), NEW r \in Requests, NEW is \in SUBSET Issues, BeginArchive(r, is)
  PROVE  IInv'
<1>1. UNCHANGED rows /\ Begin(r, "check", NoState, is) /\ "check" \in Steps
  BY DEF BeginArchive, Steps
<1>2. Others({r}) /\ req'[r].at = "check" /\ req'[r].todo = is /\ req'[r].all = is
  BY <1>1, BeginFields DEF StateIds
<1>3. \A i \in is : issueRow'[i] # "absent"
  BY <1>1, RowsFields DEF BeginArchive
<1>4. Ready(r)'
  BY <1>2, <1>3 DEF Ready, Cleared, Spared, Emptied, Carried, Checked, Found, Named,
              Marking, Destroying, Writing, Archiving
<1> QED BY <1>1, <1>2, <1>4, QuietKeeps

\* One more issue has been found archivable.
LEMMA CheckGroupKeeps ==
  ASSUME IInv, Doubt({}), NEW r \in Requests, NEW i \in Issues, CheckGroup(r, i)
  PROVE  IInv'
<1>1. UNCHANGED rows /\ req[r].at = "check" /\ i \in req[r].todo
  BY DEF CheckGroup
<1>2. CASE Return(r)
  BY <1>1, <1>2, ReturnFields, QuietKeeps
<1>3. CASE /\ Archivable(i)
           /\ req' = [req EXCEPT ![r].todo = IF @ = {i} THEN req[r].all ELSE @ \ {i},
                                 ![r].at = IF req[r].todo = {i} THEN "archive" ELSE @]
  <2>1. req \in [Requests -> Request] /\ req[r].todo \subseteq Issues /\ req[r].all \subseteq Issues
    BY DEF IInv, TypeOK, Request, StateIds
  <2>2. /\ req'[r].todo = IF req[r].todo = {i} THEN req[r].all ELSE req[r].todo \ {i}
        /\ req'[r].at = IF req[r].todo = {i} THEN "archive" ELSE "check"
        /\ req'[r].all = req[r].all
    BY <1>1, <1>3, <2>1 DEF Request
  <2>3. Others({r})
    <3> DEFINE todo == IF req[r].todo = {i} THEN req[r].all ELSE req[r].todo \ {i}
               step == IF req[r].todo = {i} THEN "archive" ELSE req[r].at
    <3>1. todo \in SUBSET Issues /\ step \in Steps
      BY <1>1, <2>1 DEF Steps
    <3>2. req' = [req EXCEPT ![r].todo = todo, ![r].at = step]
      BY <1>3
    <3> HIDE DEF todo, step
    <3>3. req' \in [Requests -> Request]
      BY <2>1, <3>1, <3>2 DEF Request
    <3>4. \A q \in Requests \ {r} : req'[q] = req[q]
      BY <2>1, <3>2
    <3> QED BY <3>3, <3>4 DEF Others
  <2>4. Checked(r)
    BY DEF IInv, Ready
  <2>5. req[r].todo \subseteq req[r].all /\ \A k \in req[r].all \ req[r].todo : Archivable(k) \/ k \in doubtful
    BY <1>1, <2>4 DEF Checked, Archiving, Found
  <2>6. r \in Archiving' /\ req'[r].todo \subseteq req'[r].all
    BY <2>2, <2>5 DEF Archiving
  <2>7. ASSUME NEW k \in Found(r)' PROVE Archivable(k)' \/ k \in doubtful'
    <3>1. k \in req[r].all /\ (k = i \/ k \notin req[r].todo)
      BY <2>2, <2>7 DEF Found
    <3>2. Archivable(k) \/ k \in doubtful
      BY <1>3, <2>5, <3>1
    <3>3. Archivable(k)' = Archivable(k)
      BY <1>1, RowsFields DEF Archivable
    <3>4. k \in Open'
      BY <2>1, <2>2, <2>6, <3>1 DEF Open
    <3> QED BY <3>2, <3>3, <3>4, DoubtKept
  <2>8. Checked(r)'
    BY <2>6, <2>7 DEF Checked
  <2>9. Named(r)'
    BY <1>1, <2>2, RowsFields DEF IInv, Ready, Named, Marking, Destroying, Archiving
  <2>10. Ready(r)'
    BY <2>2, <2>8, <2>9 DEF Ready, Cleared, Spared, Emptied, Carried, Marking, Destroying, Writing
  <2> QED BY <1>1, <2>3, <2>10, QuietKeeps
<1> QED BY <1>2, <1>3 DEF CheckGroup

-----------------------------------------------------------------------------
(* Statements on states.                                                   *)

LEMMA CreateStateKeeps ==
  ASSUME IInv, Doubt({}), NEW s \in States, CreateState(s)
  PROVE  IInv'
<1>1. /\ stateRow[s] = "absent" /\ stateRow' = [stateRow EXCEPT ![s] = "present"]
      /\ isDefault' = isDefault /\ issueRow' = issueRow /\ stateOf' = stateOf
      /\ archived' = archived /\ req' = req
  BY DEF CreateState
<1>2. stateRow' \in [States -> {"absent", "present", "deleted"}] /\ Present \subseteq Present'
  BY <1>1 DEF IInv, TypeOK, Present
<1>3. TypeOK'
  <2>1. isDefault' \subseteq {t \in States : stateRow'[t] = "present"}
    BY <1>1, <1>2 DEF IInv, TypeOK, Present
  <2> QED BY <1>1, <1>2, <2>1, DoubtTyped DEF IInv, TypeOK
<1>4. Framed({})
  BY <1>1, <1>3 DEF Framed, RowsStay, Others, TypeOK
<1>5. DefaultsFrame /\ IssuesFrame /\ ArchivesFrame
  BY <1>1, <1>2 DEF DefaultsFrame, IssuesFrame, ArchivesFrame, Archivable, Live
<1> QED BY <1>4, <1>5, StepKeeps

LEMMA ClearDefaultStatesKeeps ==
  ASSUME IInv, Doubt({}), NEW r \in Requests, ClearDefaultStates(r)
  PROVE  IInv'
<1>1. /\ req[r].at = "clear" /\ Goto(r, "set") /\ isDefault' = {} /\ stateRow' = stateRow
      /\ issueRow' = issueRow /\ stateOf' = stateOf /\ archived' = archived
  BY DEF ClearDefaultStates
<1>2. Others({r}) /\ req'[r].at = "set" /\ req'[r].s = req[r].s
  BY <1>1, GotoFields DEF Steps
<1>3. Ready(r)'
  BY <1>1, <1>2 DEF Ready, Cleared, Spared, Emptied, Carried, Checked, Named,
              Marking, Destroying, Writing, Archiving
<1>4. TypeOK'
  <2>1. req' \in [Requests -> Request]
    BY <1>2 DEF Others
  <2> QED BY <1>1, <2>1, DoubtTyped DEF IInv, TypeOK
<1>5. Framed({r})
  BY <1>1, <1>2, <1>3, <1>4 DEF Framed, RowsStay
<1>6. DefaultsFrame /\ IssuesFrame /\ ArchivesFrame
  BY <1>1 DEF DefaultsFrame, IssuesFrame, ArchivesFrame, Archivable, Live, Present
<1> QED BY <1>5, <1>6, StepKeeps

\* Whoever else is marking, or destroying this state, contends with r.
LEMMA SetDefaultStateKeeps ==
  ASSUME IInv, Doubt({}), NEW r \in Requests, SetDefaultState(r)
  PROVE  IInv'
<1> DEFINE s == req[r].s
<1>1. /\ req[r].at = "set" /\ isDefault' = isDefault \cup ({s} \cap Present) /\ stateRow' = stateRow
      /\ issueRow' = issueRow /\ stateOf' = stateOf /\ archived' = archived
  BY DEF SetDefaultState
<1>2. Others({r}) /\ Ready(r)'
  BY ReturnFields DEF SetDefaultState
<1>3. TypeOK'
  <2>1. req' \in [Requests -> Request]
    BY <1>2 DEF Others
  <2>2. isDefault' \subseteq {t \in States : stateRow'[t] = "present"}
    BY <1>1 DEF IInv, TypeOK, Present
  <2> QED BY <1>1, <2>1, <2>2, DoubtTyped DEF IInv, TypeOK
<1>4. Framed({r})
  BY <1>1, <1>2, <1>3 DEF Framed, RowsStay
<1>5. IssuesFrame /\ ArchivesFrame
  BY <1>1 DEF IssuesFrame, ArchivesFrame, Archivable, Live, Present
<1>6. \A t \in isDefault' : t \in doubtful => t \in doubtful'
  <2> SUFFICES ASSUME NEW t \in isDefault', t \in doubtful PROVE t \in doubtful'
    OBVIOUS
  <2>1. t \in States
    BY <1>3 DEF TypeOK
  <2> QED BY <1>4, <2>1, DoubtStays DEF Open
<1>7. OneDefault'
  <2>1. CASE s \in doubtful
    BY <1>1, <1>6, <2>1 DEF IInv, OneDefault
  <2>2. CASE s \notin doubtful
    <3>1. isDefault \subseteq doubtful \/ isDefault' = isDefault
      BY <1>1, <2>2 DEF IInv, Ready, Cleared, Present
    <3> QED BY <1>1, <1>6, <3>1 DEF IInv, OneDefault
  <2> QED BY <2>1, <2>2
<1>8. ASSUME NEW q \in Requests, q # r PROVE Ready(q)'
  <2>1. req'[q] = req[q] /\ Named(q) /\ Spared(q)
    BY <1>2, <1>8 DEF Others, IInv, Ready
  <2>2. ASSUME q \in Marking, req[q].s \in States PROVE req[q].s \in doubtful'
    <3>1. q \in Marking /\ r \in Marking
      BY <1>1, <2>2 DEF Marking
    <3>2. req[q].s \in doubtful
      BY <1>8, <2>2, <3>1 DEF IInv, ContendersDoubted, Contended
    <3> QED BY <1>4, <1>8, <2>1, <2>2, <3>2, CarriedDoubt
  <2>3. Cleared(q)'
    BY <2>1, <2>2 DEF Cleared, Marking
  <2>4. ASSUME q \in Destroying, req[q].s \in isDefault' PROVE req[q].s \in doubtful'
    <3>1. req[q].s \in States /\ q \in Destroying /\ r \in Marking
      BY <1>1, <2>1, <2>4 DEF Named, Marking
    <3>2. CASE req[q].s = s
      <4>1. req[q].s \in doubtful
        BY <3>1, <3>2 DEF IInv, ContendersDoubted, Contended
      <4> QED BY <1>6, <2>4, <4>1
    <3>3. CASE req[q].s # s
      BY <1>1, <1>6, <2>1, <2>4, <3>3 DEF Spared
    <3> QED BY <3>2, <3>3
  <2>5. Spared(q)'
    BY <2>1, <2>4 DEF Spared, Destroying
  <2> QED BY <1>4, <1>5, <1>8, <2>3, <2>5, CarriedAlone, CheckedAlone, NamedAlone DEF Ready
<1> QED BY <1>2, <1>3, <1>4, <1>5, <1>7, <1>8, ContendersAlone, StatesAlone DEF IInv

\* Issues that are in the state, about to be put into it, or being archived out of it, are
\* either none or in doubt.
LEMMA DeleteStateKeeps ==
  ASSUME IInv, Doubt({}), NEW r \in Requests, DeleteState(r)
  PROVE  IInv'
<1> DEFINE s == req[r].s
<1>1. /\ req[r].at = "delete" /\ stateRow' = [stateRow EXCEPT ![s] = "deleted"]
      /\ isDefault' = isDefault \ {s}
      /\ issueRow' = issueRow /\ stateOf' = stateOf /\ archived' = archived
  BY DEF DeleteState
<1>2. Others({r}) /\ Ready(r)'
  BY ReturnFields DEF DeleteState
<1>3. s \in States /\ r \in Destroying
  BY <1>1 DEF IInv, Ready, Named, Destroying
<1>4. /\ stateRow' \in [States -> {"absent", "present", "deleted"}] /\ Live' = Live
      /\ Present' = Present \ {s}
  BY <1>1, <1>3 DEF IInv, TypeOK, Present, Live
<1>5. TypeOK'
  <2>1. req' \in [Requests -> Request]
    BY <1>2 DEF Others
  <2>2. isDefault' \subseteq {t \in States : stateRow'[t] = "present"}
    BY <1>1, <1>4 DEF IInv, TypeOK, Present
  <2> QED BY <1>1, <1>4, <2>1, <2>2, DoubtTyped DEF IInv, TypeOK
<1>6. Framed({r})
  BY <1>1, <1>2, <1>5 DEF Framed, RowsStay
<1>7. DefaultsFrame
  BY <1>1 DEF DefaultsFrame
<1>8. \A t \in States : t \in doubtful /\ t \notin Present' => t \in doubtful'
  BY <1>6, DoubtStays DEF Open
<1>9. IssuesHaveStates'
  <2> SUFFICES ASSUME NEW i \in Live PROVE stateOf[i] \in Present' \cup {NoState} \cup Foreign \cup doubtful'
    BY <1>1, <1>4 DEF IssuesHaveStates
  <2>1. stateOf[i] \in StateIds /\ stateOf[i] \in Present \cup {NoState} \cup Foreign \cup doubtful
    BY DEF IInv, TypeOK, IssuesHaveStates, Live
  <2>2. stateOf[i] = s => s \in doubtful
    BY <1>1 DEF IInv, Ready, Emptied
  <2> QED BY <1>4, <1>8, <2>1, <2>2 DEF StateIds
<1>10. ASSUME NEW q \in Requests, q # r PROVE Emptied(q)' /\ Carried(q)'
  <2>1. req'[q] = req[q] /\ Named(q) /\ Emptied(q) /\ Carried(q)
    BY <1>2, <1>10 DEF Others, IInv, Ready
  <2>2. Emptied(q)'
    BY <1>1, <1>4, <1>6, <1>10, <2>1, CarriedDoubt DEF Emptied, Named, Destroying
  <2>3. ASSUME q \in Writing PROVE req[q].s \in Present' \cup {NoState} \cup Foreign \cup doubtful'
    <3>1. req[q].s \in StateIds /\ req[q].s \in Present \cup {NoState} \cup Foreign \cup doubtful
      BY <2>1, <2>3 DEF Carried, IInv, TypeOK, Request
    <3>2. req[q].s = s => s \in doubtful
      BY <1>3, <2>3 DEF IInv, ContendersDoubted, Contended
    <3> QED BY <1>4, <1>8, <3>1, <3>2 DEF StateIds
  <2> QED BY <2>1, <2>2, <2>3 DEF Carried, Writing
<1>11. ASSUME NEW q \in Requests, q # r PROVE Checked(q)'
  <2> SUFFICES ASSUME q \in Archiving' PROVE Checked(q)'
    BY DEF Checked
  <2>1. req'[q] = req[q] /\ Checked(q) /\ q \in Archiving /\ req[q].all \subseteq Issues
    BY <1>2, <1>11 DEF Others, IInv, Ready, Archiving, TypeOK, Request
  <2>2. Found(q)' = Found(q) /\ Found(q) \subseteq req[q].all /\ req[q].todo \subseteq req[q].all
    BY <2>1 DEF Found, Checked
  <2>3. ASSUME NEW i \in Found(q) PROVE Archivable(i)' \/ i \in doubtful'
    <3>1. i \in Issues /\ i \in Open'
      BY <2>1, <2>2 DEF Open
    <3>2. CASE stateOf[i] = s
      <4>1. i \in doubtful
        BY <1>3, <2>1, <2>2, <3>1, <3>2 DEF IInv, ContendersDoubted, Contended
      <4> QED BY <1>6, <3>1, <4>1, DoubtStays
    <3>3. CASE stateOf[i] # s
      BY <1>1, <1>4, <1>6, <2>1, <3>1, <3>3, DoubtStays DEF Checked, Archivable
    <3> QED BY <3>2, <3>3
  <2> QED BY <2>1, <2>2, <2>3 DEF Checked
<1>12. ASSUME NEW q \in Requests PROVE Ready(q)'
  BY <1>2, <1>6, <1>7, <1>10, <1>11, ClearedAlone, NamedAlone DEF Ready
<1> QED BY <1>5, <1>6, <1>7, <1>9, <1>12, ContendersAlone, DefaultsAlone DEF IInv

-----------------------------------------------------------------------------
(* Statements on issues.                                                   *)

\* An INSERT or UPDATE of the issues that r carries, with the state that r carries.
LEMMA PutKeeps ==
  ASSUME IInv, Doubt({}), NEW r \in Requests, r \in Writing, Return(r),
         stateRow' = stateRow, isDefault' = isDefault, archived' = archived,
         issueRow' \in [Issues -> {"absent", "live", "deleted"}],
         stateOf' \in [Issues -> StateIds],
         \A i \in Issues : issueRow[i] # "absent" => issueRow'[i] # "absent",
         \A i \in Issues : \/ (i \in Live' => i \in Live) /\ stateOf'[i] = stateOf[i]
                           \/ i \in req[r].all /\ stateOf'[i] = req[r].s
  PROVE  IInv'
<1> DEFINE s == req[r].s
<1>1. Others({r}) /\ Ready(r)'
  BY ReturnFields
<1>2. Present' = Present /\ (s \in StateIds)
  BY DEF Present, IInv, TypeOK, Request
<1>3. TypeOK'
  <2>1. req' \in [Requests -> Request]
    BY <1>1 DEF Others
  <2>2. archived' \subseteq {i \in Issues : issueRow'[i] # "absent"}
    BY DEF IInv, TypeOK
  <2> QED BY <2>1, <2>2, DoubtTyped DEF IInv, TypeOK
<1>4. Framed({r})
  BY <1>1, <1>3 DEF Framed, RowsStay
<1>5. DefaultsFrame
  BY DEF DefaultsFrame
<1>6. \A t \in States : t \in doubtful /\ t \notin Present => t \in doubtful'
  BY <1>2, <1>4, DoubtStays DEF Open
<1>7. s \in Present \cup {NoState} \cup Foreign \cup doubtful
  BY DEF IInv, Ready, Carried
<1>8. IssuesHaveStates'
  <2> SUFFICES ASSUME NEW i \in Live' PROVE stateOf'[i] \in Present \cup {NoState} \cup Foreign \cup doubtful'
    BY <1>2 DEF IssuesHaveStates
  <2>1. i \in Issues
    BY DEF Live
  <2>2. CASE i \in req[r].all /\ stateOf'[i] = s
    BY <1>2, <1>6, <1>7, <2>2 DEF StateIds
  <2>3. CASE i \in Live /\ stateOf'[i] = stateOf[i]
    <3>1. stateOf[i] \in Present \cup {NoState} \cup Foreign \cup doubtful /\ stateOf[i] \in StateIds
      BY <2>1, <2>3 DEF IInv, IssuesHaveStates, TypeOK
    <3> QED BY <1>6, <2>3, <3>1 DEF StateIds
  <2> QED BY <2>1, <2>2, <2>3
<1>9. ASSUME NEW q \in Requests, q # r PROVE Emptied(q)' /\ Carried(q)'
  <2>1. req'[q] = req[q] /\ Named(q) /\ Emptied(q) /\ Carried(q)
    BY <1>1, <1>9 DEF Others, IInv, Ready
  <2>2. Carried(q)'
    <3>1. req[q].s \in StateIds
      BY DEF IInv, TypeOK, Request, StateIds
    <3> QED BY <1>2, <1>4, <1>9, <2>1, <3>1, CarriedDoubt DEF Carried, Writing, StateIds
  <2>3. ASSUME req[q].at = "delete"
        PROVE  req[q].s \in doubtful' \/ \A i \in Live' : stateOf'[i] # req[q].s
    <3>1. req[q].s \in States /\ q \in Destroying
      BY <2>1, <2>3 DEF Named, Destroying
    <3>2. CASE req[q].s \in doubtful
      BY <1>4, <1>9, <2>1, <3>1, <3>2, CarriedDoubt
    <3>3. CASE req[q].s \notin doubtful
      <4>1. req[q].s # s
        BY <3>1, <3>3 DEF IInv, ContendersDoubted, Contended
      <4>2. \A i \in Live : stateOf[i] # req[q].s
        BY <2>1, <2>3, <3>3 DEF Emptied
      <4> QED BY <4>1, <4>2 DEF Live
    <3> QED BY <3>2, <3>3
  <2>4. Emptied(q)'
    BY <2>1, <2>3 DEF Emptied
  <2> QED BY <2>2, <2>4
<1>10. ASSUME NEW q \in Requests, q # r PROVE Checked(q)'
  <2> SUFFICES ASSUME q \in Archiving' PROVE Checked(q)'
    BY DEF Checked
  <2>1. req'[q] = req[q] /\ Checked(q) /\ q \in Archiving /\ req[q].all \subseteq Issues
    BY <1>1, <1>10 DEF Others, IInv, Ready, Archiving, TypeOK, Request
  <2>2. Found(q)' = Found(q) /\ Found(q) \subseteq req[q].all /\ req[q].todo \subseteq req[q].all
    BY <2>1 DEF Found, Checked
  <2>3. ASSUME NEW i \in Found(q) PROVE Archivable(i)' \/ i \in doubtful'
    <3>1. i \in Issues /\ i \in Open'
      BY <2>1, <2>2 DEF Open
    <3>2. CASE i \in req[r].all
      <4>1. i \in doubtful
        BY <2>1, <2>2, <3>1, <3>2 DEF IInv, ContendersDoubted, Contended
      <4> QED BY <1>4, <3>1, <4>1, DoubtStays
    <3>3. CASE i \notin req[r].all
      <4>1. stateOf'[i] = stateOf[i]
        BY <3>1, <3>3
      <4> QED BY <1>2, <1>4, <2>1, <3>1, <4>1, DoubtStays DEF Checked, Archivable
    <3> QED BY <3>2, <3>3
  <2> QED BY <2>1, <2>2, <2>3 DEF Checked
<1>11. ASSUME NEW q \in Requests PROVE Ready(q)'
  BY <1>1, <1>4, <1>5, <1>9, <1>10, ClearedAlone, NamedAlone DEF Ready
<1> QED BY <1>3, <1>4, <1>5, <1>8, <1>11, ContendersAlone, DefaultsAlone DEF IInv

LEMMA CreateIssueKeeps ==
  ASSUME IInv, Doubt({}), NEW r \in Requests, CreateIssue(r)
  PROVE  IInv'
<1>1. PICK i \in req[r].all : /\ issueRow' = [issueRow EXCEPT ![i] = "live"]
                              /\ stateOf' = [stateOf EXCEPT ![i] = req[r].s]
  BY DEF CreateIssue
<1>2. /\ r \in Writing /\ Return(r) /\ stateRow' = stateRow /\ isDefault' = isDefault
      /\ archived' = archived
  BY DEF CreateIssue, Writing
<1>3. i \in Issues /\ req[r].s \in StateIds
  BY DEF IInv, TypeOK, Request, StateIds
<1>4. /\ issueRow' \in [Issues -> {"absent", "live", "deleted"}] /\ issueRow'[i] = "live"
      /\ \A k \in Issues \ {i} : issueRow'[k] = issueRow[k]
  BY <1>1, <1>3 DEF IInv, TypeOK
<1>5. /\ stateOf' \in [Issues -> StateIds] /\ stateOf'[i] = req[r].s
      /\ \A k \in Issues \ {i} : stateOf'[k] = stateOf[k]
  BY <1>1, <1>3 DEF IInv, TypeOK
<1>6. \A k \in Issues : issueRow[k] # "absent" => issueRow'[k] # "absent"
  BY <1>4
<1>7. \A k \in Issues : \/ (k \in Live' => k \in Live) /\ stateOf'[k] = stateOf[k]
                        \/ k \in req[r].all /\ stateOf'[k] = req[r].s
  BY <1>3, <1>4, <1>5 DEF Live
<1> QED BY <1>2, <1>4, <1>5, <1>6, <1>7, PutKeeps

LEMMA UpdateIssueKeeps ==
  ASSUME IInv, Doubt({}), NEW r \in Requests, UpdateIssue(r)
  PROVE  IInv'
<1>1. /\ r \in Writing /\ Return(r) /\ stateRow' = stateRow /\ isDefault' = isDefault
      /\ archived' = archived /\ issueRow' = issueRow
      /\ stateOf' = [i \in Issues |-> IF i \in req[r].all \cap Live THEN req[r].s ELSE stateOf[i]]
  BY DEF UpdateIssue, Writing
<1>2. req[r].s \in StateIds /\ stateOf \in [Issues -> StateIds]
      /\ issueRow \in [Issues -> {"absent", "live", "deleted"}]
  BY DEF IInv, TypeOK, Request, StateIds
<1>3. stateOf' \in [Issues -> StateIds]
  BY <1>1, <1>2
<1>4. \A k \in Issues : \/ (k \in Live' => k \in Live) /\ stateOf'[k] = stateOf[k]
                        \/ k \in req[r].all /\ stateOf'[k] = req[r].s
  BY <1>1 DEF Live
<1>5. /\ issueRow' \in [Issues -> {"absent", "live", "deleted"}]
      /\ \A k \in Issues : issueRow[k] # "absent" => issueRow'[k] # "absent"
  BY <1>1, <1>2
<1> QED BY <1>1, <1>3, <1>4, <1>5, PutKeeps

LEMMA DeleteIssuesKeeps ==
  ASSUME IInv, Doubt({}), NEW is \in SUBSET Issues, DeleteIssues(is)
  PROVE  IInv'
<1>1. /\ issueRow' = [i \in Issues |-> IF i \in is THEN "deleted" ELSE issueRow[i]]
      /\ stateRow' = stateRow /\ isDefault' = isDefault
      /\ stateOf' = stateOf /\ archived' = archived /\ req' = req
  BY DEF DeleteIssues
<1>2. /\ issueRow' \in [Issues -> {"absent", "live", "deleted"}]
      /\ \A i \in Issues : issueRow'[i] = issueRow[i] \/ issueRow'[i] = "deleted"
  BY <1>1 DEF IInv, TypeOK
<1>3. TypeOK'
  <2>1. archived' \subseteq {i \in Issues : issueRow'[i] # "absent"}
    BY <1>1, <1>2 DEF IInv, TypeOK
  <2> QED BY <1>1, <1>2, <2>1, DoubtTyped DEF IInv, TypeOK
<1>4. Framed({})
  BY <1>1, <1>3 DEF Framed, RowsStay, Others, TypeOK
<1>5. DefaultsFrame /\ IssuesFrame /\ ArchivesFrame
  BY <1>1, <1>2 DEF DefaultsFrame, IssuesFrame, ArchivesFrame, Archivable, Live, Present
<1> QED BY <1>4, <1>5, StepKeeps

LEMMA UnarchiveIssueKeeps ==
  ASSUME IInv, Doubt({}), NEW i \in Issues, UnarchiveIssue(i)
  PROVE  IInv'
<1>1. /\ archived' = archived \ {i} /\ issueRow' = issueRow
      /\ stateRow' = stateRow /\ isDefault' = isDefault /\ stateOf' = stateOf /\ req' = req
  BY DEF UnarchiveIssue
<1>2. TypeOK'
  BY <1>1, DoubtTyped DEF IInv, TypeOK
<1>3. Framed({})
  BY <1>1, <1>2 DEF Framed, RowsStay, Others, TypeOK
<1>4. DefaultsFrame /\ IssuesFrame /\ ArchivesFrame
  BY <1>1 DEF DefaultsFrame, IssuesFrame, ArchivesFrame, Archivable, Live, Present
<1> QED BY <1>3, <1>4, StepKeeps

\* The next issue of an archiving request.
LEMMA DoneWithFields ==
  ASSUME IInv, NEW more, Doubt(more), NEW r \in Requests, NEW i, req[r].at = "archive", DoneWith(r, i),
         issueRow' = issueRow, \A k \in Issues : Archivable(k)' = Archivable(k)
  PROVE  Others({r}) /\ Ready(r)'
<1>1. CASE Return(r)
  BY <1>1, ReturnFields
<1>2. CASE req' = [req EXCEPT ![r].todo = @ \ {i}]
  <2>1. req \in [Requests -> Request] /\ req[r].all \subseteq Issues
    BY DEF IInv, TypeOK, Request, StateIds
  <2>2. Others({r})
    BY <1>2, <2>1 DEF Others, Request
  <2>3. req'[r].at = "archive" /\ req'[r].all = req[r].all /\ req'[r].todo = req[r].todo \ {i}
    BY <1>2, <2>1 DEF Request
  <2>4. Checked(r)
    BY DEF IInv, Ready
  <2>5. req[r].todo \subseteq req[r].all /\ \A k \in req[r].all : Archivable(k) \/ k \in doubtful
    BY <2>4 DEF Checked, Archiving, Found
  <2>6. \A k \in req[r].all : k \in Open'
    BY <2>1, <2>3 DEF Open, Archiving
  <2>7. Checked(r)'
    BY <2>1, <2>3, <2>5, <2>6, DoubtKept DEF Checked, Archiving, Found
  <2>8. Named(r)'
    BY <2>3 DEF IInv, Ready, Named, Marking, Destroying, Archiving
  <2> QED BY <2>2, <2>3, <2>7, <2>8 DEF Ready, Cleared, Spared, Emptied, Carried,
                                        Marking, Destroying, Writing
<1> QED BY <1>1, <1>2 DEF DoneWith

LEMMA ArchiveIssueKeeps ==
  ASSUME IInv, Doubt({}), NEW r \in Requests, NEW i \in Issues, ArchiveIssue(r, i)
  PROVE  IInv'
<1>1. /\ req[r].at = "archive" /\ i \in req[r].todo /\ archived' = archived \cup {i}
      /\ DoneWith(r, i) /\ issueRow' = issueRow
      /\ stateRow' = stateRow /\ isDefault' = isDefault /\ stateOf' = stateOf
  BY DEF ArchiveIssue
<1>2. \A k \in Issues : Archivable(k)' = Archivable(k)
  BY <1>1 DEF Archivable, Present
<1>3. Others({r}) /\ Ready(r)'
  BY <1>1, <1>2, DoneWithFields
<1>4. issueRow[i] # "absent"
  BY <1>1 DEF IInv, Ready, Named, Checked, Archiving
<1>5. TypeOK'
  <2>1. req' \in [Requests -> Request]
    BY <1>3 DEF Others
  <2> QED BY <1>1, <1>4, <2>1, DoubtTyped DEF IInv, TypeOK
<1>6. Framed({r})
  BY <1>1, <1>3, <1>5 DEF Framed, RowsStay
<1>7. DefaultsFrame /\ IssuesFrame /\ ArchivesFrame
  BY <1>1, <1>2 DEF DefaultsFrame, IssuesFrame, ArchivesFrame, Archivable, Live, Present
<1> QED BY <1>6, <1>7, StepKeeps

\* A statement that fails leaves the request's state in doubt.
LEMMA StatementFailsKeeps ==
  ASSUME IInv, NEW r \in Requests, StatementFails(r), Doubt({req[r].s})
  PROVE  IInv'
<1>1. UNCHANGED rows
  BY DEF StatementFails
<1>2. \A k \in Issues : Archivable(k)' = Archivable(k)
  BY <1>1, RowsFields DEF Archivable
<1>3. CASE Return(r)
  BY <1>1, <1>3, ReturnFields, QuietKeeps
<1>4. CASE req[r].at = "archive" /\ \E i \in req[r].todo : DoneWith(r, i)
  <2>1. Others({r}) /\ Ready(r)'
    BY <1>1, <1>2, <1>4, RowsFields, DoneWithFields
  <2> QED BY <1>1, <2>1, QuietKeeps
<1>5. CASE \/ req[r].at = "clear" /\ Goto(r, "set")
           \/ req[r].at = "count" /\ Goto(r, "delete")
  <2>1. PICK step \in {"set", "delete"} : Goto(r, step) /\ (step = "delete" => r \in Destroying)
    BY <1>5 DEF Destroying
  <2>2. Others({r}) /\ req'[r].at = step /\ req'[r].s = req[r].s
    BY <2>1, GotoFields DEF Steps
  <2>3. r \in Destroying => req[r].s \in States
    BY DEF IInv, Ready, Named
  <2>4. req[r].s \in States => req'[r].s \in doubtful'
    <3>1. req[r].s \in States => req[r].s \in {req[r].s} \cup Contended' /\ req[r].s \in Open'
      BY <2>2 DEF Open
    <3> QED BY <2>2, <3>1 DEF Doubt
  <2>5. Ready(r)'
    BY <2>1, <2>2, <2>3, <2>4 DEF Ready, Cleared, Spared, Emptied, Carried, Checked, Named,
              Marking, Destroying, Writing, Archiving
  <2> QED BY <1>1, <2>2, <2>5, QuietKeeps
<1> QED BY <1>3, <1>4, <1>5 DEF StatementFails

-----------------------------------------------------------------------------
(* The theorems.                                                           *)

LEMMA InitInv == ASSUME Init PROVE IInv
<1>1. Idle \in Request /\ Idle.at = "idle" /\ Idle.s = NoState
  BY DEF Idle, Request, Steps, StateIds
<1>2. req = [r \in Requests |-> Idle] /\ doubtful = {} /\ archived = {}
      /\ issueRow = [i \in Issues |-> "absent"] /\ stateOf = [i \in Issues |-> NoState]
  BY DEF Init
<1>3. \A r \in Requests : req[r].at = "idle"
  BY <1>1, <1>2
<1>4. /\ stateRow \in [States -> {"absent", "present", "deleted"}]
      /\ isDefault \subseteq {s \in States : stateRow[s] = "present"}
      /\ \A s, t \in isDefault : s = t
  <2>1. PICK n \in 0..Len(Seeds) :
          /\ stateRow = [s \in States |-> IF \E k \in 1..n : Seeds[k] = s
                                          THEN "present" ELSE "absent"]
          /\ isDefault = IF n = 0 THEN {} ELSE {Seeds[1]}
    BY DEF Init
  <2>2. Len(Seeds) \in Nat /\ n \in Nat /\ \A k \in 1..Len(Seeds) : Seeds[k] \in States
    BY StateSets
  <2>3. stateRow \in [States -> {"absent", "present", "deleted"}]
    BY <2>1
  <2>4. CASE n = 0
    BY <2>1, <2>3, <2>4
  <2>5. CASE n # 0
    <3>1. 1 \in 1..n /\ 1 \in 1..Len(Seeds)
      BY <2>2, <2>5
    <3>2. Seeds[1] \in States /\ isDefault = {Seeds[1]}
      BY <2>1, <2>2, <2>5, <3>1
    <3>3. stateRow[Seeds[1]] = "present"
      BY <2>1, <3>1, <3>2
    <3> QED BY <2>3, <3>2, <3>3
  <2> QED BY <2>4, <2>5
<1>5. TypeOK
  BY <1>1, <1>2, <1>4 DEF TypeOK, StateIds
<1>6. ContendersDoubted
  BY <1>3 DEF ContendersDoubted, Contended, Marking, Destroying, Writing, Archiving
<1>7. OneDefault
  BY <1>4 DEF OneDefault
<1>8. IssuesHaveStates
  BY <1>2 DEF IssuesHaveStates, Live
<1>9. \A r \in Requests : Ready(r)
  BY <1>3 DEF Ready, Cleared, Spared, Emptied, Carried, Checked, Named,
              Marking, Destroying, Writing, Archiving
<1> QED BY <1>5, <1>6, <1>7, <1>8, <1>9 DEF IInv

LEMMA NextInv == ASSUME IInv, [Next]_vars PROVE IInv'
<1>1. CASE StateStep /\ Doubt({})
  BY <1>1, CreateStateKeeps, BeginMarkDefaultKeeps, BeginDestroyKeeps, ClearDefaultStatesKeeps,
     SetDefaultStateKeeps, CountIssuesKeeps, DeleteStateKeeps DEF StateStep
<1>2. CASE IssueStep /\ Doubt({})
  BY <1>2, BeginWriteKeeps, CreateIssueKeeps, UpdateIssueKeeps, BeginArchiveKeeps, CheckGroupKeeps,
     ArchiveIssueKeeps, DeleteIssuesKeeps, UnarchiveIssueKeeps DEF IssueStep
<1>3. CASE \E r \in Requests : StatementFails(r) /\ Doubt({req[r].s})
  BY <1>3, StatementFailsKeeps
<1>4. CASE UNCHANGED vars
  <2>1. UNCHANGED rows /\ req' = req /\ doubtful' = doubtful
    BY <1>4 DEF vars
  <2>2. /\ stateRow' = stateRow /\ isDefault' = isDefault /\ issueRow' = issueRow
        /\ stateOf' = stateOf /\ archived' = archived
    BY <2>1, RowsFields
  <2>3. TypeOK'
    BY <2>1, <2>2 DEF IInv, TypeOK
  <2>4. ContendersDoubted' /\ OneDefault' /\ IssuesHaveStates'
    BY <2>1, <2>2 DEF IInv, ContendersDoubted, OneDefault, IssuesHaveStates, Live, Present,
                      Contended, Marking, Destroying, Writing, Archiving
  <2>5. ASSUME NEW r \in Requests PROVE Ready(r)'
    <3>1. Ready(r)
      BY DEF IInv
    <3>2. Checked(r)'
      BY <2>1, <2>2, <3>1 DEF Ready, Checked, Found, Archiving, Archivable, Present
    <3> QED BY <2>1, <2>2, <3>1, <3>2 DEF Ready, Cleared, Spared, Emptied, Carried, Named, Live,
              Present, Marking, Destroying, Writing, Archiving
  <2> QED BY <2>3, <2>4, <2>5 DEF IInv
<1> QED BY <1>1, <1>2, <1>3, <1>4 DEF Next

\* What every reachable state of workflow states and issues satisfies.
THEOREM Invariant == Spec => []IInv
BY InitInv, NextInv, PTL DEF Spec

\* The types, and that a second default state takes two mark-defaults that overlap, or one
\* whose clearing statement failed (state/handlers.go, markDefault).
THEOREM DefaultsAreBounded == Spec => []WorkflowInv
<1>1. ASSUME IInv PROVE WorkflowInv
  <2>1. TypeOK /\ \A s, t \in isDefault \ doubtful : s = t
    BY <1>1 DEF IInv, OneDefault
  <2>2. CASE isDefault \ doubtful = {}
    <3>1. Cardinality(isDefault \ doubtful) = 0
      BY <2>2, FS_EmptySet
    <3> QED BY <2>1, <3>1 DEF WorkflowInv, DefaultsBounded
  <2>3. CASE isDefault \ doubtful # {}
    <3>1. PICK s : isDefault \ doubtful = {s}
      BY <2>1, <2>3
    <3>2. Cardinality({s}) = 1
      BY FS_Singleton
    <3> QED BY <2>1, <3>1, <3>2 DEF WorkflowInv, DefaultsBounded
  <2> QED BY <2>2, <2>3
<1> QED BY <1>1, Invariant, PTL

\* A delete leaves no live issue in its state (state/handlers.go, destroy), and an issue gets
\* into a deleted state by being written with its id only (issue/handlers.go, create, update).
THEOREM StatesAreKept == Spec => []IssuesHaveStates
<1>1. ASSUME IInv PROVE IssuesHaveStates
  BY <1>1 DEF IInv
<1> QED BY <1>1, Invariant, PTL

\* Only one statement archives, only one deletes a state, and both find what was checked
\* before: an issue still in a completed or cancelled state (issue/actions.go), a state that
\* is still not the default (state/handlers.go), but for the overlaps held in doubtful.
LEMMA StepGuarded ==
  ASSUME IInv, [Next]_vars
  PROVE  /\ \A i \in archived' \ archived : Archivable(i) \/ i \in doubtful
         /\ \A s \in Present \ Present' : s \notin isDefault \ doubtful
<1>1. ASSUME NEW r \in Requests, NEW i \in Issues, ArchiveIssue(r, i)
      PROVE  /\ \A k \in archived' \ archived : Archivable(k) \/ k \in doubtful
             /\ Present' = Present
  <2>1. /\ req[r].at = "archive" /\ i \in req[r].todo /\ archived' = archived \cup {i}
        /\ stateRow' = stateRow
    BY <1>1 DEF ArchiveIssue
  <2>2. Archivable(i) \/ i \in doubtful
    BY <2>1 DEF IInv, Ready, Checked, Archiving, Found
  <2> QED BY <2>1, <2>2 DEF Present
<1>2. ASSUME NEW r \in Requests, DeleteState(r)
      PROVE  archived' = archived /\ \A s \in Present \ Present' : s \notin isDefault \ doubtful
  <2>1. /\ req[r].at = "delete" /\ stateRow' = [stateRow EXCEPT ![req[r].s] = "deleted"]
        /\ archived' = archived
    BY <1>2 DEF DeleteState
  <2>2. req[r].s \in isDefault => req[r].s \in doubtful
    BY <2>1 DEF IInv, Ready, Spared, Destroying
  <2>3. stateRow \in [States -> {"absent", "present", "deleted"}]
    BY DEF IInv, TypeOK
  <2> QED BY <2>1, <2>2, <2>3 DEF Present
<1>3. CASE StateStep
  <2>1. CASE \E r \in Requests : DeleteState(r)
    BY <1>2, <2>1
  <2>2. CASE ~\E r \in Requests : DeleteState(r)
    <3>1. archived' = archived
      BY <1>3, <2>2 DEF StateStep, CreateState, BeginMarkDefault, BeginDestroy, ClearDefaultStates,
                        SetDefaultState, CountIssues, rows
    <3>2. stateRow' = stateRow \/ \E s \in States : stateRow' = [stateRow EXCEPT ![s] = "present"]
      BY <1>3, <2>2 DEF StateStep, CreateState, BeginMarkDefault, BeginDestroy, ClearDefaultStates,
                        SetDefaultState, CountIssues, rows
    <3>3. Present \subseteq Present'
      BY <3>2 DEF Present, IInv, TypeOK
    <3> QED BY <3>1, <3>3
  <2> QED BY <2>1, <2>2
<1>4. CASE IssueStep
  <2>1. CASE \E r \in Requests, i \in Issues : ArchiveIssue(r, i)
    BY <1>1, <2>1
  <2>2. CASE ~\E r \in Requests, i \in Issues : ArchiveIssue(r, i)
    <3>1. archived' \subseteq archived /\ stateRow' = stateRow
      BY <1>4, <2>2 DEF IssueStep, BeginCreate, BeginUpdate, CreateIssue, UpdateIssue, BeginArchive,
                        CheckGroup, DeleteIssues, UnarchiveIssue, rows
    <3> QED BY <3>1 DEF Present
  <2> QED BY <2>1, <2>2
<1>5. CASE UNCHANGED rows
  BY <1>5 DEF rows, Present
<1> QED BY <1>3, <1>4, <1>5 DEF Next, StatementFails, vars

\* A check of a state before its issue is archived, or before it is deleted, holds when the
\* statement comes.
THEOREM GuardsAreHeld == Spec => GuardsHold
<1>1. ASSUME IInv, [Next]_vars
      PROVE  [\A i \in archived' \ archived : Archivable(i) \/ i \in doubtful]_vars
  BY <1>1, StepGuarded
<1>2. ASSUME IInv, [Next]_vars
      PROVE  [\A s \in Present \ Present' : s \notin isDefault \ doubtful]_vars
  BY <1>2, StepGuarded
<1> QED BY <1>1, <1>2, Invariant, PTL DEF Spec, GuardsHold, ArchivesOnlyDone, DefaultNeverDeleted
=============================================================================
