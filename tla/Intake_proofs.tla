----------------------------- MODULE Intake_proofs -----------------------------
(***************************************************************************)
(* Theorems about the inbox, for any number of issues, names and requests. *)
(***************************************************************************)
EXTENDS Intake, FiniteSetTheorems, TLAPS

-----------------------------------------------------------------------------
(* The inductive invariant.                                                 *)

\* Where a request can be.
First == {"ensure", "name", "insert_intake", "work"}
Shaped(r) ==
  \/ req[r] = Idle
  \/ req[r].op = "read" /\ req[r].at \in First
  \/ /\ req[r].i \in Issues
     /\ \/ req[r].op = "create" /\ req[r].at \in First \cup {"row"}
        \/ req[r].op = "triage" /\ req[r].at \in First \cup {"write", "default", "move"}
        \/ req[r].op = "destroy" /\ req[r].at \in First \cup {"soft_delete", "unlist"}
        \/ req[r].op = "patch" /\ req[r].at = "write" /\ req[r].state \in {"triage", "workflow"}

Sound == TypeOK /\ \A r \in Requests : Shaped(r)

\* The rows of intakes carry names that have been read; items, and the requests
\* that are going to make one, refer to such a row.
Known(n) == Contains(intakes, n)
NamesSeen == /\ IsFiniteSet(seen)
             /\ \A k \in 1..Len(intakes) : intakes[k] \in seen
             /\ \A r \in Requests : req[r].at = "insert_intake" => req[r].intake \in seen
Filed == /\ \A i \in Issues : item[i] # NoItem => Known(item[i].intake)
         /\ \A r \in Requests : req[r].at \in {"work", "row"} => Known(req[r].intake)

\* An issue has one request that is going to insert it, and no row before; all
\* other requests about it have found one.
Early(r) == req[r].op = "create" /\ req[r].at \in First
OneCreator == \A r \in Requests :
                /\ Early(r) => /\ issueRow[req[r].i] = "absent"
                               /\ \A q \in Requests : Early(q) /\ req[q].i = req[r].i => q = r
                /\ req[r].op \in {"triage", "destroy", "patch"} => issueRow[req[r].i] # "absent"

\* What is not right yet about an issue has a request at work on it that will
\* set it right, unless a statement failed or a PATCH put it back into triage.
Sure == ~fault
Moving(i) == \E r \in On(i) : req[r].at \in {"default", "move"}
Making(i) == \E r \in On(i) : req[r].at = "row"
Leaving(i) == stateOf[i] = "workflow" \/ i \in lost \/ Moving(i)

AcceptedLeave(i) == Sure /\ item[i].status = "accepted" => Leaving(i)
TriagedListed(i) == Sure /\ issueRow[i] = "live" /\ item[i] = NoItem => Leaving(i) \/ Making(i)
UnlistedGone(r) == Sure /\ req[r].at = "unlist"
                     => issueRow[req[r].i] = "deleted" \/ Leaving(req[r].i)
Placed == /\ \A i \in Issues : AcceptedLeave(i) /\ TriagedListed(i)
          /\ \A r \in Requests : UnlistedGone(r)

\* An issue about to be deleted is not accepted.
Spared == \A r \in Requests : req[r].at = "soft_delete" /\ ~crossed
                                => item[req[r].i].status # "accepted"

IInv == Sound /\ NamesSeen /\ Filed /\ OneCreator /\ Placed /\ Spared

-----------------------------------------------------------------------------
(* What a step does to the requests.                                        *)

\* The request r gets to another statement, or is served; the others stay.
Only(r) == /\ req' \in [Requests -> Request]
           /\ \A q \in Requests \ {r} : req'[q] = req[q]
Gone(r, step) == /\ Only(r) /\ req'[r].at = step
                 /\ req'[r].op = req[r].op /\ req'[r].i = req[r].i
                 /\ req'[r].status = req[r].status /\ req'[r].intake = req[r].intake
                 /\ req'[r].state = req[r].state
Served(r) == Only(r) /\ req'[r] = Idle

LEMMA IdleIsRequest == Idle \in Request
BY DEF Idle, Request, Ops, Steps, Intakes

LEMMA GotoGone ==
  ASSUME TypeOK, NEW r \in Requests, NEW step \in Steps, Goto(r, step)
  PROVE  Gone(r, step)
<1>1. req \in [Requests -> Request] /\ req[r] \in Request
  BY DEF TypeOK
<1>2. [req[r] EXCEPT !.at = step] \in Request
  BY <1>1 DEF Request
<1>3. req' = [req EXCEPT ![r] = [req[r] EXCEPT !.at = step]]
  BY <1>1 DEF Goto
<1>4. Only(r) /\ req'[r] = [req[r] EXCEPT !.at = step]
  BY <1>1, <1>2, <1>3 DEF Only
<1>5. QED
  BY <1>1, <1>4 DEF Gone, Request

LEMMA ReturnServed ==
  ASSUME TypeOK, NEW r \in Requests, Return(r)
  PROVE  Served(r)
BY IdleIsRequest DEF TypeOK, Return, Served, Only

\* Requests that begin, and those that ensureIntake gives its intake.
LEMMA BeginOnly ==
  ASSUME TypeOK, NEW r \in Requests, NEW op \in Ops, NEW i \in Issues \cup {"none"},
         NEW s \in Statuses \cup {"none"}, Begin(r, op, i, s)
  PROVE  /\ Only(r) /\ req[r] = Idle
         /\ req'[r].op = op /\ req'[r].at = "ensure" /\ req'[r].i = i
<1> DEFINE new == [Idle EXCEPT !.op = op, !.at = "ensure", !.i = i, !.status = s]
<1>1. new \in Request /\ new.op = op /\ new.at = "ensure" /\ new.i = i
  BY IdleIsRequest DEF Idle, Request, Steps
<1>2. req' = [req EXCEPT ![r] = new] /\ req[r] = Idle
  BY DEF Begin
<1> HIDE DEF new
<1>3. QED
  BY <1>1, <1>2 DEF TypeOK, Only

LEMMA BeginPatchOnly ==
  ASSUME TypeOK, NEW r \in Requests, NEW i \in Issues, NEW s \in {"triage", "workflow"},
         BeginPatch(r, i, s)
  PROVE  /\ Only(r) /\ req[r] = Idle
         /\ req'[r].op = "patch" /\ req'[r].at = "write" /\ req'[r].i = i /\ req'[r].state = s
<1> DEFINE new == [Idle EXCEPT !.op = "patch", !.at = "write", !.i = i, !.state = s]
<1>1. new \in Request /\ new.op = "patch" /\ new.at = "write" /\ new.i = i /\ new.state = s
  BY IdleIsRequest DEF Idle, Request, Ops, Steps
<1>2. req' = [req EXCEPT ![r] = new] /\ req[r] = Idle
  BY DEF BeginPatch
<1> HIDE DEF new
<1>3. QED
  BY <1>1, <1>2 DEF TypeOK, Only

LEMMA WithIntake ==
  ASSUME TypeOK, NEW r \in Requests, NEW step \in Steps, NEW n \in Intakes,
         req' = [req EXCEPT ![r].at = step, ![r].intake = n]
  PROVE  /\ Only(r) /\ req'[r].at = step /\ req'[r].intake = n
         /\ req'[r].op = req[r].op /\ req'[r].i = req[r].i
<1> DEFINE new == [req[r] EXCEPT !.at = step, !.intake = n]
<1>1. req \in [Requests -> Request] /\ req[r] \in Request
  BY DEF TypeOK
<1>2. new \in Request /\ new.at = step /\ new.intake = n /\ new.op = req[r].op /\ new.i = req[r].i
  BY <1>1 DEF Request
<1>3. req' = [req EXCEPT ![r] = new]
  BY <1>1
<1> HIDE DEF new
<1>4. QED
  BY <1>1, <1>2, <1>3 DEF Only

LEMMA ItemTypes == NoItem \in Items /\ \A k \in Intakes, s \in Statuses :
                     [intake |-> k, status |-> s] \in Items
BY DEF NoItem, Items

-----------------------------------------------------------------------------
(* Types.                                                                   *)

TypesOfRows == /\ intakes \in Seq(Intakes) /\ IsInjective(intakes)
               /\ item \in [Issues -> Items]
               /\ issueRow \in [Issues -> {"absent", "live", "deleted"}]
               /\ stateOf \in [Issues -> {"triage", "workflow"}]
TypesOfHistory == /\ fault \in BOOLEAN /\ seen \subseteq Intakes
                  /\ lost \subseteq Issues /\ crossed \in BOOLEAN

LEMMA TypesSplit == TypeOK <=> TypesOfRows /\ TypesOfHistory /\ req \in [Requests -> Request]
BY DEF TypeOK, TypesOfRows, TypesOfHistory

LEMMA SoundFrom ==
  ASSUME Sound, NEW r \in Requests, Only(r), Shaped(r)', TypesOfRows', TypesOfHistory'
  PROVE  Sound' /\ Only(r)
<1>1. TypeOK'
  BY TypesSplit DEF Only, TypeOK, TypesOfRows, TypesOfHistory
<1>2. \A q \in Requests : Shaped(q)'
  BY DEF Only, Sound, Shaped
<1>3. QED
  BY <1>1, <1>2 DEF Sound

LEMMA EnsuringSound ==
  ASSUME Sound, NEW r \in Requests, FindIntake(r) \/ ReadName(r) \/ InsertIntake(r)
  PROVE  Sound' /\ Only(r)
<1>0. TypeOK /\ TypesOfRows /\ TypesOfHistory /\ Shaped(r) /\ req[r] \in Request
  BY TypesSplit DEF Sound, TypesOfRows, TypesOfHistory
<1>1. CASE FindIntake(r)
  <2>1. Only(r) /\ Shaped(r)'
    <3>1. CASE intakes = <<>>
      <4>1. Gone(r, "name")
        BY <1>0, <1>1, <3>1, GotoGone DEF FindIntake, Steps
      <4>2. QED
        BY <1>0, <1>1, <4>1 DEF FindIntake, Gone, Shaped, First, Idle
    <3>2. CASE intakes # <<>>
      <4>1. Head(intakes) \in Intakes
        BY <1>0, <3>2 DEF TypesOfRows
      <4>2. req' = [req EXCEPT ![r].at = "work", ![r].intake = Head(intakes)]
        BY <1>1, <3>2 DEF FindIntake
      <4>3. Only(r) /\ req'[r].at = "work" /\ req'[r].op = req[r].op /\ req'[r].i = req[r].i
        BY <1>0, <4>1, <4>2, WithIntake DEF Steps
      <4>4. QED
        BY <1>0, <1>1, <4>3 DEF FindIntake, Shaped, First, Idle
    <3>3. QED
      BY <3>1, <3>2
  <2>2. TypesOfRows' /\ TypesOfHistory'
    BY <1>0, <1>1 DEF FindIntake, rows, history, TypesOfRows, TypesOfHistory
  <2>3. QED
    BY <2>1, <2>2, SoundFrom
<1>2. CASE ReadName(r)
  <2>1. PICK n \in Intakes : /\ req' = [req EXCEPT ![r].at = "insert_intake", ![r].intake = n]
                              /\ seen' = seen \cup {n}
    BY <1>2 DEF ReadName
  <2>2. Only(r) /\ req'[r].at = "insert_intake" /\ req'[r].op = req[r].op /\ req'[r].i = req[r].i
    BY <1>0, <2>1, WithIntake DEF Steps
  <2>3. Shaped(r)'
    BY <1>0, <1>2, <2>2 DEF ReadName, Shaped, First, Idle
  <2>4. TypesOfRows' /\ TypesOfHistory'
    BY <1>0, <1>2, <2>1 DEF ReadName, rows, TypesOfRows, TypesOfHistory
  <2>5. QED
    BY <2>2, <2>3, <2>4, SoundFrom
<1>3. CASE InsertIntake(r)
  <2>1. TypesOfHistory' /\ req[r].intake \in Intakes
    BY <1>0, <1>3 DEF InsertIntake, history, TypesOfHistory, Request
  <2>2. CASE Contains(intakes, req[r].intake)
    <3>1. Served(r) /\ TypesOfRows'
      BY <1>0, <1>3, <2>2, ReturnServed DEF InsertIntake, TypesOfRows
    <3>2. QED
      BY <2>1, <3>1, SoundFrom DEF Served, Shaped
  <2>3. CASE ~Contains(intakes, req[r].intake)
    <3>1. intakes' = Append(intakes, req[r].intake) /\ Gone(r, "work")
      BY <1>0, <1>3, <2>3, GotoGone DEF InsertIntake, Steps
    <3>2. \A k \in 1..Len(intakes) : intakes[k] # req[r].intake
      BY <2>3 DEF Contains
    <3>3. intakes' \in Seq(Intakes) /\ IsInjective(intakes)'
      BY <1>0, <2>1, <3>1, <3>2 DEF TypesOfRows, IsInjective
    <3>4. TypesOfRows'
      BY <1>0, <1>3, <3>3 DEF InsertIntake, TypesOfRows
    <3>5. Shaped(r)'
      BY <1>0, <1>3, <3>1 DEF InsertIntake, Gone, Shaped, First, Idle
    <3>6. QED
      BY <2>1, <3>1, <3>4, <3>5, SoundFrom DEF Gone
  <2>4. QED
    BY <2>2, <2>3
<1>4. QED
  BY <1>1, <1>2, <1>3

LEMMA ServedSound ==
  ASSUME Sound, NEW r \in Requests, Served(r), TypesOfRows', TypesOfHistory'
  PROVE  Sound' /\ Only(r)
BY SoundFrom DEF Served, Shaped

\* Where the handlers go on.
LEMMA GoneSound ==
  ASSUME Sound, NEW r \in Requests, NEW step, Gone(r, step), TypesOfRows', TypesOfHistory',
         req[r] # Idle,
         \/ req[r].op = "create" /\ step = "row"
         \/ req[r].op = "triage" /\ step \in {"write", "default", "move"}
         \/ req[r].op = "destroy" /\ step \in {"soft_delete", "unlist"}
  PROVE  Sound' /\ Only(r)
<1>1. Shaped(r) /\ Only(r)
  BY DEF Sound, Gone
<1>2. Shaped(r)'
  BY <1>1 DEF Shaped, Gone
<1>3. QED
  BY <1>1, <1>2, SoundFrom

\* The kind of request that a statement belongs to.
LEMMA OpOf ==
  ASSUME Sound, NEW r \in Requests
  PROVE  /\ req[r].at # "idle" => req[r] # Idle
         /\ req[r] # Idle => req[r].at # "idle"
         /\ req[r].at = "row" => req[r].op = "create"
         /\ req[r].at \in {"default", "move"} => req[r].op = "triage"
         /\ req[r].at \in {"soft_delete", "unlist"} => req[r].op = "destroy"
         /\ req[r].at \in {"row", "write", "default", "move", "soft_delete", "unlist"}
              => req[r].i \in Issues
         /\ req[r].at = "work" /\ req[r].op # "read" => req[r].i \in Issues
BY DEF Sound, Shaped, First, Idle

LEMMA HandlingSound ==
  ASSUME Sound, NEW r \in Requests,
         \/ FinishRead(r) \/ InsertIssue(r) \/ InsertItem(r)
         \/ FindItem(r) \/ WriteStatus(r) \/ FindDefault(r) \/ MoveIssue(r)
         \/ FindItemStatus(r) \/ SoftDeleteIssue(r) \/ DeleteItem(r)
         \/ WritePatch(r) \/ StatementFails(r)
  PROVE  Sound' /\ Only(r)
<1>0. TypeOK /\ TypesOfRows /\ TypesOfHistory /\ Shaped(r) /\ req[r] \in Request
  BY TypesSplit DEF Sound, TypesOfRows, TypesOfHistory
<1> DEFINE Rest == TypesOfRows' /\ TypesOfHistory'
<1>1. CASE FinishRead(r)
  <2>1. Rest
    BY <1>0, <1>1 DEF FinishRead, rows, history, TypesOfRows, TypesOfHistory
  <2>2. QED
    BY <1>0, <1>1, <2>1, ReturnServed, ServedSound DEF FinishRead
<1>2. CASE InsertIssue(r)
  <2>1. Rest
    BY <1>0, <1>2 DEF InsertIssue, history, TypesOfRows, TypesOfHistory
  <2>2. Gone(r, "row")
    BY <1>0, <1>2, GotoGone DEF InsertIssue, Steps
  <2>3. QED
    BY <1>2, <2>1, <2>2, GoneSound, OpOf DEF InsertIssue
<1>3. CASE InsertItem(r)
  <2>1. item' \in [Issues -> Items]
    BY <1>0, <1>3, ItemTypes DEF InsertItem, TypesOfRows, Request, Statuses
  <2>2. Rest
    BY <1>0, <1>3, <2>1 DEF InsertItem, history, TypesOfRows, TypesOfHistory
  <2>3. QED
    BY <1>0, <1>3, <2>2, ReturnServed, ServedSound DEF InsertItem
<1>4. CASE FindItem(r)
  <2>1. Rest
    BY <1>0, <1>4 DEF FindItem, rows, history, TypesOfRows, TypesOfHistory
  <2>2. Served(r) \/ Gone(r, "write")
    BY <1>0, <1>4, GotoGone, ReturnServed DEF FindItem, Steps
  <2>3. QED
    BY <1>4, <2>1, <2>2, GoneSound, ServedSound, OpOf DEF FindItem
<1>5. CASE WriteStatus(r)
  <2>1. item' \in [Issues -> Items]
    <3>1. req[r].status \in Statuses \cup {"none"} /\ item \in [Issues -> Items]
      BY <1>0 DEF Request, TypesOfRows
    <3>2. \A t \in Items, s \in Statuses : t # NoItem => [t EXCEPT !.status = s] \in Items
      BY DEF Items
    <3>3. QED
      BY <1>5, <3>1, <3>2 DEF WriteStatus, SetStatus
  <2>2. crossed' \in BOOLEAN
    BY <1>5, <1>0 DEF WriteStatus, TypesOfHistory
  <2>3. Rest
    BY <1>0, <1>5, <2>1, <2>2 DEF WriteStatus, TypesOfRows, TypesOfHistory
  <2>4. Served(r) \/ Gone(r, "default")
    BY <1>0, <1>5, GotoGone, ReturnServed DEF WriteStatus, Steps
  <2>5. QED
    BY <1>5, <2>3, <2>4, GoneSound, ServedSound, OpOf DEF WriteStatus
<1>6. CASE FindDefault(r)
  <2>1. Rest
    BY <1>0, <1>6 DEF FindDefault, rows, history, TypesOfRows, TypesOfHistory
  <2>2. Gone(r, "move")
    BY <1>0, <1>6, GotoGone DEF FindDefault, Steps
  <2>3. QED
    BY <1>6, <2>1, <2>2, GoneSound, OpOf DEF FindDefault
<1>7. CASE MoveIssue(r)
  <2>1. Rest
    BY <1>0, <1>7 DEF MoveIssue, TypesOfRows, TypesOfHistory
  <2>2. QED
    BY <1>0, <1>7, <2>1, ReturnServed, ServedSound DEF MoveIssue
<1>8. CASE FindItemStatus(r)
  <2>1. Rest
    BY <1>0, <1>8 DEF FindItemStatus, rows, history, TypesOfRows, TypesOfHistory
  <2>2. Served(r) \/ Gone(r, "unlist") \/ Gone(r, "soft_delete")
    BY <1>0, <1>8, GotoGone, ReturnServed DEF FindItemStatus, Steps
  <2>3. QED
    BY <1>8, <2>1, <2>2, GoneSound, ServedSound, OpOf DEF FindItemStatus
<1>9. CASE SoftDeleteIssue(r)
  <2>1. Rest
    BY <1>0, <1>9 DEF SoftDeleteIssue, history, TypesOfRows, TypesOfHistory
  <2>2. Gone(r, "unlist")
    BY <1>0, <1>9, GotoGone DEF SoftDeleteIssue, Steps
  <2>3. QED
    BY <1>9, <2>1, <2>2, GoneSound, OpOf DEF SoftDeleteIssue
<1>10. CASE DeleteItem(r)
  <2>1. item' \in [Issues -> Items]
    BY <1>0, <1>10, ItemTypes DEF DeleteItem, TypesOfRows
  <2>2. Rest
    BY <1>0, <1>10, <2>1 DEF DeleteItem, history, TypesOfRows, TypesOfHistory
  <2>3. QED
    BY <1>0, <1>10, <2>2, ReturnServed, ServedSound DEF DeleteItem
<1>11. CASE WritePatch(r)
  <2>1. req[r].state \in {"triage", "workflow"}
    BY <1>0, <1>11 DEF WritePatch, Shaped, First, Idle
  <2>2. stateOf' \in [Issues -> {"triage", "workflow"}] /\ lost' \subseteq Issues
    <3>1. req[r].i \in Issues
      BY <1>0, <1>11 DEF WritePatch, Shaped, First, Idle
    <3>2. QED
      BY <1>0, <1>11, <2>1, <3>1 DEF WritePatch, TypesOfRows, TypesOfHistory
  <2>3. Rest
    BY <1>0, <1>11, <2>2 DEF WritePatch, TypesOfRows, TypesOfHistory
  <2>4. QED
    BY <1>0, <1>11, <2>3, ReturnServed, ServedSound DEF WritePatch
<1>12. CASE StatementFails(r)
  <2>1. Rest
    BY <1>0, <1>12 DEF StatementFails, rows, TypesOfRows, TypesOfHistory
  <2>2. Served(r) \/ (req[r].at = "soft_delete" /\ Gone(r, "unlist"))
    BY <1>0, <1>12, GotoGone, ReturnServed DEF StatementFails, Steps
  <2>3. QED
    BY <1>12, <2>1, <2>2, GoneSound, ServedSound, OpOf DEF StatementFails
<1> HIDE DEF Rest
<1>13. QED
  BY <1>1, <1>2, <1>3, <1>4, <1>5, <1>6, <1>7, <1>8, <1>9, <1>10, <1>11, <1>12

LEMMA ArrivingSound ==
  ASSUME Sound
  PROVE  /\ \A r \in Requests, op \in Ops, i \in Issues \cup {"none"},
               s \in Statuses \cup {"none"} : Begin(r, op, i, s) => Sound' /\ Only(r)
         /\ \A r \in Requests, i \in Issues, s \in {"triage", "workflow"} :
               BeginPatch(r, i, s) => Sound' /\ Only(r)
         /\ \A i \in Issues : DestroyIssue(i) => Sound'
<1>0. TypeOK /\ TypesOfRows /\ TypesOfHistory
  BY TypesSplit DEF Sound, TypesOfRows, TypesOfHistory
<1>1. ASSUME NEW r \in Requests, NEW op \in Ops, NEW i \in Issues \cup {"none"},
             NEW s \in Statuses \cup {"none"}, Begin(r, op, i, s)
      PROVE  Sound' /\ Only(r)
  <2>1. TypesOfRows' /\ TypesOfHistory'
    BY <1>0, <1>1 DEF Begin, rows, history, TypesOfRows, TypesOfHistory
  <2>2. Only(r) /\ req'[r].op = op /\ req'[r].at = "ensure" /\ req'[r].i = i
    BY <1>0, <1>1, BeginOnly
  <2>3. op = "read" \/ (op \in {"create", "triage", "destroy"} /\ i \in Issues)
    BY <1>1 DEF Begin
  <2>4. Shaped(r)'
    BY <2>2, <2>3 DEF Shaped, First
  <2>5. QED
    BY <2>1, <2>2, <2>4, SoundFrom
<1>2. ASSUME NEW r \in Requests, NEW i \in Issues, NEW s \in {"triage", "workflow"},
             BeginPatch(r, i, s)
      PROVE  Sound' /\ Only(r)
  <2>1. TypesOfRows' /\ TypesOfHistory'
    BY <1>0, <1>2 DEF BeginPatch, rows, history, TypesOfRows, TypesOfHistory
  <2>2. Only(r) /\ Shaped(r)'
    BY <1>0, <1>2, BeginPatchOnly DEF Shaped
  <2>3. QED
    BY <2>1, <2>2, SoundFrom
<1>3. ASSUME NEW i \in Issues, DestroyIssue(i)
      PROVE  Sound'
  <2>1. TypesOfRows' /\ TypesOfHistory' /\ req' = req
    BY <1>0, <1>3 DEF DestroyIssue, history, TypesOfRows, TypesOfHistory
  <2>2. QED
    BY <1>0, <2>1, TypesSplit DEF Sound, Shaped, TypeOK, TypesOfRows, TypesOfHistory
<1>4. QED
  BY <1>1, <1>2, <1>3

-----------------------------------------------------------------------------
(* Where each statement leads.                                              *)

Handles(r) == \/ FinishRead(r) \/ InsertIssue(r) \/ InsertItem(r)
              \/ FindItem(r) \/ WriteStatus(r) \/ FindDefault(r) \/ MoveIssue(r)
              \/ FindItemStatus(r) \/ SoftDeleteIssue(r) \/ DeleteItem(r)
              \/ WritePatch(r) \/ StatementFails(r)

\* An early creation never comes out of a handler's own statements, and only
\* InsertIssue makes a row appear.
LEMMA HandlesTo ==
  ASSUME Sound, NEW r \in Requests
  PROVE  /\ FinishRead(r) => Served(r)
         /\ InsertIssue(r) => Gone(r, "row")
         /\ InsertItem(r) => Served(r)
         /\ FindItem(r) => Served(r) \/ Gone(r, "write")
         /\ WriteStatus(r) => Served(r) \/ Gone(r, "default")
         /\ FindDefault(r) => Gone(r, "move")
         /\ MoveIssue(r) => Served(r)
         /\ FindItemStatus(r) => Served(r) \/ Gone(r, "unlist") \/ Gone(r, "soft_delete")
         /\ SoftDeleteIssue(r) => Gone(r, "unlist")
         /\ DeleteItem(r) => Served(r)
         /\ WritePatch(r) => Served(r)
         /\ StatementFails(r) => Served(r) \/ (req[r].at = "soft_delete" /\ Gone(r, "unlist"))
<1> USE GotoGone, ReturnServed DEF Sound, Steps
<1>1. FinishRead(r) => Served(r)
  BY DEF FinishRead
<1>2. InsertIssue(r) => Gone(r, "row")
  BY DEF InsertIssue
<1>3. InsertItem(r) => Served(r)
  BY DEF InsertItem
<1>4. FindItem(r) => Served(r) \/ Gone(r, "write")
  BY DEF FindItem
<1>5. WriteStatus(r) => Served(r) \/ Gone(r, "default")
  BY DEF WriteStatus
<1>6. FindDefault(r) => Gone(r, "move")
  BY DEF FindDefault
<1>7. MoveIssue(r) => Served(r)
  BY DEF MoveIssue
<1>8. FindItemStatus(r) => Served(r) \/ Gone(r, "unlist") \/ Gone(r, "soft_delete")
  BY DEF FindItemStatus
<1>9. SoftDeleteIssue(r) => Gone(r, "unlist")
  BY DEF SoftDeleteIssue
<1>10. DeleteItem(r) => Served(r)
  BY DEF DeleteItem
<1>11. WritePatch(r) => Served(r)
  BY DEF WritePatch
<1>12. StatementFails(r) => Served(r) \/ (req[r].at = "soft_delete" /\ Gone(r, "unlist"))
  BY DEF StatementFails
<1>13. QED
  BY <1>1, <1>2, <1>3, <1>4, <1>5, <1>6, <1>7, <1>8, <1>9, <1>10, <1>11, <1>12

LEMMA EnsuringTo ==
  ASSUME Sound, NEW r \in Requests, FindIntake(r) \/ ReadName(r) \/ InsertIntake(r)
  PROVE  /\ Only(r) /\ req[r].at \in {"ensure", "name", "insert_intake"}
         /\ \/ Served(r)
            \/ /\ req'[r].at \in {"name", "insert_intake", "work"}
               /\ req'[r].op = req[r].op /\ req'[r].i = req[r].i
<1>0. TypeOK
  BY DEF Sound
<1>1. CASE FindIntake(r)
  <2>1. CASE intakes = <<>>
    BY <1>0, <1>1, <2>1, GotoGone DEF FindIntake, Steps, Gone
  <2>2. CASE intakes # <<>>
    <3>1. Head(intakes) \in Intakes
      BY <1>0, <2>2 DEF TypeOK
    <3>2. req' = [req EXCEPT ![r].at = "work", ![r].intake = Head(intakes)] /\ req[r].at = "ensure"
      BY <1>1, <2>2 DEF FindIntake
    <3>3. QED
      BY <1>0, <3>1, <3>2, WithIntake DEF Steps
  <2>3. QED
    BY <2>1, <2>2
<1>2. CASE ReadName(r)
  <2>1. PICK n \in Intakes : req' = [req EXCEPT ![r].at = "insert_intake", ![r].intake = n]
    BY <1>2 DEF ReadName
  <2>2. req[r].at = "name"
    BY <1>2 DEF ReadName
  <2>3. QED
    BY <1>0, <2>1, <2>2, WithIntake DEF Steps
<1>3. CASE InsertIntake(r)
  BY <1>0, <1>3, GotoGone, ReturnServed DEF InsertIntake, Steps, Gone, Served
<1>4. QED
  BY <1>1, <1>2, <1>3

LEMMA ArrivingTo ==
  ASSUME Sound, Arriving, NEW q \in Requests
  PROVE  req'[q] = req[q] \/ (req[q] = Idle /\ req'[q].at \in {"ensure", "write"})
<1>0. TypeOK
  BY DEF Sound
<1>1. ASSUME NEW r \in Requests, NEW op \in Ops, NEW i \in Issues \cup {"none"},
             NEW s \in Statuses \cup {"none"}, Begin(r, op, i, s)
      PROVE  req'[q] = req[q] \/ (req[q] = Idle /\ req'[q].at \in {"ensure", "write"})
  <2>1. Only(r) /\ req[r] = Idle /\ req'[r].at = "ensure"
    BY <1>0, <1>1, BeginOnly
  <2>2. QED
    BY <2>1 DEF Only
<1>2. ASSUME NEW r \in Requests, NEW i \in Issues, NEW s \in {"triage", "workflow"},
             BeginPatch(r, i, s)
      PROVE  req'[q] = req[q] \/ (req[q] = Idle /\ req'[q].at \in {"ensure", "write"})
  <2>1. Only(r) /\ req[r] = Idle /\ req'[r].at = "write"
    BY <1>0, <1>2, BeginPatchOnly
  <2>2. QED
    BY <2>1 DEF Only
<1>3. ASSUME NEW i \in Issues, DestroyIssue(i)
      PROVE  req' = req
  BY <1>3 DEF DestroyIssue
<1>4. QED
  BY <1>1, <1>2, <1>3 DEF Arriving

-----------------------------------------------------------------------------
(* The inboxes.                                                             *)

\* Steps that make no row of intakes.
LEMMA QuietFiled ==
  ASSUME Sound, NamesSeen, Filed, UNCHANGED <<intakes, seen>>,
         \A i \in Issues : item'[i] = NoItem \/ Known(item'[i].intake),
         \A q \in Requests :
           /\ req'[q].at = "insert_intake" =>
                req[q].at = "insert_intake" /\ req'[q].intake = req[q].intake
           /\ req'[q].at \in {"work", "row"} =>
                req[q].at \in {"work", "row"} /\ req'[q].intake = req[q].intake
  PROVE  NamesSeen' /\ Filed'
<1>1. NamesSeen'
  BY DEF NamesSeen
<1>2. \A n : Known(n) => Known(n)'
  BY DEF Known, Contains
<1>3. Filed'
  BY <1>2 DEF Filed, Known, Contains
<1>4. QED
  BY <1>1, <1>3

LEMMA HandlingFiled ==
  ASSUME Sound, NamesSeen, Filed, NEW r \in Requests, Handles(r)
  PROVE  NamesSeen' /\ Filed'
<1>1. UNCHANGED <<intakes, seen>>
  BY DEF Handles, FinishRead, InsertIssue, InsertItem, FindItem, WriteStatus, FindDefault,
         MoveIssue, FindItemStatus, SoftDeleteIssue, DeleteItem, WritePatch, StatementFails,
         rows, history
<1>2. \A q \in Requests :
        /\ req'[q].at = "insert_intake" =>
             req[q].at = "insert_intake" /\ req'[q].intake = req[q].intake
        /\ req'[q].at \in {"work", "row"} =>
             req[q].at \in {"work", "row"} /\ req'[q].intake = req[q].intake
  <2>1. Served(r) \/ (InsertIssue(r) /\ Gone(r, "row"))
          \/ \E step \in {"write", "default", "move", "soft_delete", "unlist"} : Gone(r, step)
    BY HandlesTo DEF Handles
  <2>2. QED
    BY <2>1 DEF Served, Gone, Only, Idle, InsertIssue
<1>3. \A i \in Issues : item'[i] = NoItem \/ Known(item'[i].intake)
  <2>1. item \in [Issues -> Items]
    BY DEF Sound, TypeOK
  <2>2. CASE InsertItem(r)
    <3>1. Known(req[r].intake)
      BY <2>2 DEF Filed, InsertItem
    <3>2. QED
      BY <2>1, <2>2, <3>1 DEF Filed, InsertItem
  <2>3. CASE WriteStatus(r)
    <3>1. \A s : \A t \in Items : t # NoItem => [t EXCEPT !.status = s].intake = t.intake
      BY DEF Items
    <3>2. \A i \in Issues : item'[i] = item[i]
              \/ (item[i] # NoItem /\ item'[i] = [item[i] EXCEPT !.status = req[r].status])
      BY <2>1, <2>3 DEF WriteStatus, SetStatus
    <3>3. ASSUME NEW i \in Issues
          PROVE  item'[i] = NoItem \/ Known(item'[i].intake)
      <4>1. CASE item'[i] = item[i]
        BY <4>1 DEF Filed
      <4>2. CASE item[i] # NoItem /\ item'[i] = [item[i] EXCEPT !.status = req[r].status]
        <5>1. item'[i].intake = item[i].intake
          BY <2>1, <3>1, <4>2
        <5>2. QED
          BY <4>2, <5>1 DEF Filed
      <4>3. QED
        BY <3>2, <4>1, <4>2
    <3>4. QED
      BY <3>3
  <2>4. CASE DeleteItem(r)
    BY <2>1, <2>4 DEF DeleteItem, Filed
  <2>5. CASE ~InsertItem(r) /\ ~WriteStatus(r) /\ ~DeleteItem(r)
    <3>1. item' = item
      BY <2>5 DEF Handles, FinishRead, InsertIssue, FindItem, FindDefault,
           MoveIssue, FindItemStatus, SoftDeleteIssue, WritePatch, StatementFails, rows
    <3>2. QED
      BY <3>1 DEF Filed
  <2>6. QED
    BY <2>2, <2>3, <2>4, <2>5
<1>4. QED
  BY <1>1, <1>2, <1>3, QuietFiled

LEMMA ArrivingFiled ==
  ASSUME Sound, NamesSeen, Filed, Arriving
  PROVE  NamesSeen' /\ Filed'
<1>1. UNCHANGED <<intakes, seen, item>>
  BY DEF Arriving, Begin, BeginPatch, DestroyIssue, rows, history
<1>2. \A i \in Issues : item'[i] = NoItem \/ Known(item'[i].intake)
  BY <1>1 DEF Filed
<1>3. \A q \in Requests : req'[q] = req[q] \/ req'[q].at \in {"ensure", "write"}
  BY ArrivingTo
<1>4. QED
  BY <1>1, <1>2, <1>3, QuietFiled

\* A name is on record as read before it is a row's, and before anything is filed under it.
LEMMA EnsuringFiled ==
  ASSUME Sound, NamesSeen, Filed, NEW r \in Requests, FindIntake(r) \/ ReadName(r) \/ InsertIntake(r)
  PROVE  NamesSeen' /\ Filed'
<1>0. TypeOK /\ item' = item /\ req[r] \in Request
  BY DEF Sound, TypeOK, FindIntake, ReadName, InsertIntake, rows
<1>1. CASE FindIntake(r)
  <2>1. CASE intakes = <<>>
    <3>1. Gone(r, "name") /\ UNCHANGED <<intakes, seen>>
      BY <1>0, <1>1, <2>1, GotoGone DEF FindIntake, Steps, rows, history
    <3>2. QED
      BY <1>0, <3>1, QuietFiled DEF Gone, Only, Filed
  <2>2. CASE intakes # <<>>
    <3>1. Head(intakes) \in Intakes /\ Known(Head(intakes))
      BY <1>0, <2>2 DEF TypeOK, Known, Contains
    <3>2. req' = [req EXCEPT ![r].at = "work", ![r].intake = Head(intakes)]
            /\ UNCHANGED <<intakes, seen, item>>
      BY <1>1, <2>2 DEF FindIntake, rows, history
    <3>3. Only(r) /\ req'[r].at = "work" /\ req'[r].intake = Head(intakes)
      BY <1>0, <3>1, <3>2, WithIntake DEF Steps
    <3>4. NamesSeen'
      BY <3>2, <3>3 DEF NamesSeen, Only
    <3>5. Filed'
      BY <3>1, <3>2, <3>3 DEF Filed, Known, Only
    <3>6. QED
      BY <3>4, <3>5
  <2>3. QED
    BY <2>1, <2>2
<1>2. CASE ReadName(r)
  <2>1. PICK n \in Intakes : /\ req' = [req EXCEPT ![r].at = "insert_intake", ![r].intake = n]
                              /\ seen' = seen \cup {n}
    BY <1>2 DEF ReadName
  <2>2. Only(r) /\ req'[r].at = "insert_intake" /\ req'[r].intake = n /\ intakes' = intakes
    BY <1>0, <1>2, <2>1, WithIntake DEF Steps, ReadName, rows
  <2>3. IsFiniteSet(seen')
    BY <2>1, FS_AddElement DEF NamesSeen
  <2>4. NamesSeen'
    BY <2>1, <2>2, <2>3 DEF NamesSeen, Only
  <2>5. Filed'
    BY <1>0, <2>2 DEF Filed, Known, Only
  <2>6. QED
    BY <2>4, <2>5
<1>3. CASE InsertIntake(r)
  <2>1. CASE Contains(intakes, req[r].intake)
    <3>1. Served(r) /\ UNCHANGED <<intakes, seen>>
      BY <1>0, <1>3, <2>1, ReturnServed DEF InsertIntake, history
    <3>2. QED
      BY <1>0, <3>1, QuietFiled DEF Served, Only, Idle, Filed
  <2>2. CASE ~Contains(intakes, req[r].intake)
    <3>1. intakes' = Append(intakes, req[r].intake) /\ seen' = seen /\ Gone(r, "work")
      BY <1>0, <1>3, <2>2, GotoGone DEF InsertIntake, Steps, history
    <3>2. intakes \in Seq(Intakes) /\ req[r].intake \in Intakes /\ req[r].intake \in seen
      BY <1>0, <1>3 DEF TypeOK, Request, InsertIntake, NamesSeen
    <3>3. NamesSeen'
      BY <3>1, <3>2 DEF NamesSeen, Gone, Only
    <3>4. Known(req[r].intake)' /\ \A n : Known(n) => Contains(intakes', n)
      BY <3>1, <3>2 DEF Known, Contains, Gone
    <3>5. Filed'
      BY <1>0, <3>1, <3>4 DEF Filed, Known, Gone, Only
    <3>6. QED
      BY <3>3, <3>5
  <2>3. QED
    BY <2>1, <2>2
<1>4. QED
  BY <1>1, <1>2, <1>3

-----------------------------------------------------------------------------
(* The creators.                                                            *)

Later(r) == req[r].op \in {"triage", "destroy", "patch"}

LEMMA OnIssue ==
  ASSUME Sound, NEW r \in Requests, Early(r) \/ Later(r)
  PROVE  req[r].i \in Issues
BY DEF Sound, Shaped, Early, Later, Idle, First

\* Steps that bring no creation and after which the same issues have rows.
LEMMA QuietCreators ==
  ASSUME Sound, OneCreator,
         \A i \in Issues : issueRow'[i] = "absent" <=> issueRow[i] = "absent",
         \A q \in Requests : /\ Early(q)' => Early(q) /\ req'[q].i = req[q].i
                             /\ Later(q)' => Later(q) /\ req'[q].i = req[q].i
  PROVE  OneCreator'
<1>1. \A q \in Requests : Early(q) \/ Later(q) => req[q].i \in Issues
  BY OnIssue
<1>2. QED
  BY <1>1 DEF OneCreator, Later

LEMMA HandlingCreators ==
  ASSUME Sound, OneCreator, NEW r \in Requests, Handles(r)
  PROVE  OneCreator'
<1>0. issueRow \in [Issues -> {"absent", "live", "deleted"}]
  BY DEF Sound, TypeOK
<1>1. Only(r) /\ (Served(r) \/ \E step \in {"row", "write", "default", "move", "soft_delete", "unlist"} :
                                 Gone(r, step))
  BY HandlesTo DEF Handles, Served, Gone
<1>2. /\ ~Early(r)'
      /\ Later(r)' => Later(r) /\ req'[r].i = req[r].i
      /\ \A q \in Requests \ {r} : req'[q] = req[q]
  BY <1>1 DEF Served, Gone, Only, Early, Later, Idle, First
<1>3. CASE InsertIssue(r)
  <2>1. Early(r) /\ ~Later(r)
    BY <1>3 DEF InsertIssue, Early, First, Later
  <2>2. \A q \in Requests : Early(q)' => req[q].i # req[r].i
    BY <1>2, <2>1 DEF OneCreator, Early
  <2>3. \A q \in Requests : Early(q) \/ Later(q) => req[q].i \in Issues
    BY OnIssue
  <2>4. issueRow' = [issueRow EXCEPT ![req[r].i] = "live"]
    BY <1>3 DEF InsertIssue
  <2>5. ASSUME NEW q \in Requests, Early(q)'
        PROVE  /\ issueRow'[req'[q].i] = "absent"
               /\ \A p \in Requests : Early(p)' /\ req'[p].i = req'[q].i => p = q
    BY <1>0, <1>2, <2>2, <2>3, <2>4, <2>5 DEF OneCreator, Early
  <2>6. ASSUME NEW q \in Requests, Later(q)'
        PROVE  issueRow'[req'[q].i] # "absent"
    <3>1. Later(q) /\ req'[q].i = req[q].i /\ req[q].i \in Issues
      BY <1>2, <2>1, <2>3, <2>6 DEF Later
    <3>2. issueRow[req[q].i] # "absent"
      BY <3>1 DEF OneCreator, Later
    <3>3. QED
      BY <1>0, <2>4, <3>1, <3>2
  <2>7. QED
    BY <2>5, <2>6 DEF OneCreator, Later
<1>4. CASE ~InsertIssue(r)
  <2>1. \A i \in Issues : issueRow'[i] = "absent" <=> issueRow[i] = "absent"
    <3>1. CASE SoftDeleteIssue(r)
      <4>1. issueRow[req[r].i] # "absent"
        BY <3>1, OpOf DEF OneCreator, SoftDeleteIssue
      <4>2. QED
        BY <1>0, <3>1, <4>1 DEF SoftDeleteIssue
    <3>2. CASE ~SoftDeleteIssue(r)
      BY <1>4, <3>2 DEF Handles, FinishRead, InsertItem, FindItem, WriteStatus, FindDefault,
         MoveIssue, FindItemStatus, DeleteItem, WritePatch, StatementFails, rows
    <3>3. QED
      BY <3>1, <3>2
  <2>2. QED
    BY <1>2, <2>1, QuietCreators DEF Early, Later
<1>5. QED
  BY <1>3, <1>4

LEMMA EnsuringCreators ==
  ASSUME Sound, OneCreator, NEW r \in Requests, FindIntake(r) \/ ReadName(r) \/ InsertIntake(r)
  PROVE  OneCreator'
<1>0. TypeOK /\ Shaped(r) /\ req[r] \in Request /\ issueRow' = issueRow
  BY DEF Sound, TypeOK, FindIntake, ReadName, InsertIntake, rows
<1>1. /\ Only(r)
      /\ Served(r) \/ (/\ req[r].at \in First /\ req'[r].op = req[r].op /\ req'[r].i = req[r].i)
  BY EnsuringTo DEF First
<1>2. \A q \in Requests : /\ Early(q)' => Early(q) /\ req'[q].i = req[q].i
                          /\ Later(q)' => Later(q) /\ req'[q].i = req[q].i
  BY <1>1 DEF Only, Served, Early, Later, Idle, First
<1>3. QED
  BY <1>0, <1>2, QuietCreators

LEMMA ArrivingCreators ==
  ASSUME Sound, OneCreator, Arriving
  PROVE  OneCreator'
<1>0. TypeOK /\ issueRow \in [Issues -> {"absent", "live", "deleted"}]
  BY DEF Sound, TypeOK
<1>1. ASSUME NEW r \in Requests, NEW op \in Ops, NEW i \in Issues \cup {"none"},
             NEW s \in Statuses \cup {"none"}, Begin(r, op, i, s)
      PROVE  OneCreator'
  <2>a. Only(r) /\ req'[r].op = op /\ req'[r].i = i
    BY <1>0, <1>1, BeginOnly
  <2>b. /\ issueRow' = issueRow
        /\ op = "create" => issueRow[i] = "absent" /\ On(i) = {}
        /\ op \in {"triage", "destroy", "patch"} => issueRow[i] # "absent"
    BY <1>1 DEF Begin, rows
  <2>1. /\ Only(r) /\ req'[r].op = op /\ req'[r].i = i /\ issueRow' = issueRow
        /\ op = "create" => issueRow[i] = "absent" /\ On(i) = {}
        /\ Later(r)' => issueRow[i] # "absent"
    BY <2>a, <2>b DEF Later
  <2>2. ASSUME NEW q \in Requests, Early(q)'
        PROVE  /\ issueRow'[req'[q].i] = "absent"
               /\ \A p \in Requests : Early(p)' /\ req'[p].i = req'[q].i => p = q
    BY <2>1, <2>2 DEF OneCreator, Early, Only, On
  <2>3. ASSUME NEW q \in Requests, Later(q)'
        PROVE  issueRow'[req'[q].i] # "absent"
    BY <2>1, <2>3 DEF OneCreator, Later, Only
  <2>4. QED
    BY <2>2, <2>3 DEF OneCreator, Later
<1>2. ASSUME NEW r \in Requests, NEW i \in Issues, NEW s \in {"triage", "workflow"},
             BeginPatch(r, i, s)
      PROVE  OneCreator'
  <2>a. Only(r) /\ req'[r].op = "patch" /\ req'[r].i = i
    BY <1>0, <1>2, BeginPatchOnly
  <2>1. /\ Only(r) /\ req'[r].op = "patch" /\ req'[r].i = i /\ issueRow' = issueRow
        /\ issueRow[i] = "live"
    BY <1>2, <2>a DEF BeginPatch, rows
  <2>2. \A q \in Requests : Early(q)' => Early(q) /\ req'[q] = req[q]
    BY <2>1 DEF Early, Only
  <2>3. QED
    BY <2>1, <2>2 DEF OneCreator, Only
<1>3. ASSUME NEW i \in Issues, DestroyIssue(i)
      PROVE  OneCreator'
  BY <1>0, <1>3, QuietCreators DEF DestroyIssue, Early, Later
<1>4. QED
  BY <1>1, <1>2, <1>3 DEF Arriving

-----------------------------------------------------------------------------
(* What is not right yet.                                                   *)

\* What a step has to keep, as long as nothing fails.
LEMMA PlacedFrom ==
  ASSUME Placed, Sure' => Sure,
         Sure' => \A i \in Issues :
           /\ Leaving(i) => Leaving(i)'
           /\ Making(i) => Making(i)' \/ item'[i] # NoItem
           /\ issueRow[i] = "deleted" => issueRow'[i] = "deleted"
           /\ item'[i].status = "accepted" => item[i].status = "accepted" \/ Leaving(i)'
           /\ issueRow'[i] = "live" /\ item'[i] = NoItem
                => (issueRow[i] = "live" /\ item[i] = NoItem) \/ Leaving(i)' \/ Making(i)',
         Sure' => \A q \in Requests : req'[q].at = "unlist" =>
           \E i \in Issues :
              /\ req'[q].i = i
              /\ (req[q].at = "unlist" /\ req[q].i = i) \/ issueRow'[i] = "deleted" \/ Leaving(i)'
  PROVE  Placed'
<1>1. ASSUME NEW i \in Issues
      PROVE  AcceptedLeave(i)' /\ TriagedListed(i)'
  <2>1. AcceptedLeave(i) /\ TriagedListed(i)
    BY DEF Placed
  <2>2. AcceptedLeave(i)'
    BY <2>1 DEF AcceptedLeave
  <2>3. TriagedListed(i)'
    BY <2>1 DEF TriagedListed
  <2>4. QED
    BY <2>2, <2>3
<1>2. ASSUME NEW q \in Requests
      PROVE  UnlistedGone(q)'
  <2>1. SUFFICES ASSUME Sure', req'[q].at = "unlist"
                 PROVE  issueRow'[req'[q].i] = "deleted" \/ Leaving(req[q].i)'
    BY DEF UnlistedGone
  <2>2. PICK i \in Issues :
          /\ req'[q].i = i
          /\ (req[q].at = "unlist" /\ req[q].i = i) \/ issueRow'[i] = "deleted" \/ Leaving(i)'
    BY <2>1
  <2>3. req[q].at = "unlist" /\ req[q].i = i => issueRow[i] = "deleted" \/ Leaving(i)
    BY <2>1 DEF Placed, UnlistedGone
  <2>4. issueRow'[i] = "deleted" \/ Leaving(i)'
    BY <2>1, <2>2, <2>3
  <2>5. QED
    BY <2>2, <2>4 DEF Leaving, Moving, On
<1>3. QED
  BY <1>1, <1>2 DEF Placed

\* Only a PATCH puts an issue back into triage, and what is put back is lost until it is out
\* again.
LEMMA WorkflowStays ==
  ASSUME Sound, NEW r \in Requests, Handles(r), NEW i \in Issues, stateOf[i] = "workflow" \/ i \in lost
  PROVE  stateOf'[i] = "workflow" \/ i \in lost'
<1>0. stateOf \in [Issues -> {"triage", "workflow"}] /\ Shaped(r)
  BY DEF Sound, TypeOK
<1>1. CASE MoveIssue(r)
  BY <1>0, <1>1 DEF MoveIssue
<1>2. CASE WritePatch(r)
  <2>1. req[r].state \in {"triage", "workflow"} /\ req[r].i \in Issues
    BY <1>0, <1>2 DEF WritePatch, Shaped, First, Idle
  <2>2. PICK new \in {"triage", "workflow"} :
          /\ stateOf' = [stateOf EXCEPT ![req[r].i] = new]
          /\ lost' = IF new = stateOf[req[r].i] THEN lost
                     ELSE IF new = "triage" THEN lost \cup {req[r].i} ELSE lost \ {req[r].i}
    BY <1>0, <1>2, <2>1 DEF WritePatch
  <2>3. QED
    BY <1>0, <2>1, <2>2
<1>3. CASE ~MoveIssue(r) /\ ~WritePatch(r)
  BY <1>3 DEF Handles, FinishRead, InsertIssue, InsertItem, FindItem, WriteStatus, FindDefault,
         FindItemStatus, SoftDeleteIssue, DeleteItem, StatementFails, rows, history
<1>4. QED
  BY <1>1, <1>2, <1>3

\* A request that is to move an issue does, or fails; one that is to list it does, or fails.
LEMMA HandsKept ==
  ASSUME Sound, NEW r \in Requests, Handles(r), Sure', NEW i \in Issues
  PROVE  /\ Leaving(i) => Leaving(i)'
         /\ Making(i) => Making(i)' \/ item'[i] # NoItem
<1>0. /\ \A q \in Requests \ {r} : req'[q] = req[q]
      /\ stateOf \in [Issues -> {"triage", "workflow"}] /\ item \in [Issues -> Items]
      /\ ~StatementFails(r)
  BY HandlesTo DEF Handles, Served, Gone, Only, Sound, TypeOK, Sure, StatementFails
<1>1. ASSUME stateOf[i] = "workflow" \/ i \in lost PROVE Leaving(i)'
  BY <1>1, WorkflowStays DEF Leaving
<1>2. ASSUME NEW q \in On(i), req[q].at \in {"default", "move"} PROVE Leaving(i)'
  <2>1. CASE q # r
    BY <1>0, <1>2, <2>1 DEF Leaving, Moving, On
  <2>2. CASE q = r
    <3>1. FindDefault(r) \/ MoveIssue(r)
      BY <1>0, <1>2, <2>2, OpOf DEF Handles, FinishRead, InsertIssue, InsertItem, FindItem, WriteStatus,
         FindItemStatus, SoftDeleteIssue, DeleteItem, WritePatch
    <3>2. CASE FindDefault(r)
      <4>1. Gone(r, "move")
        BY <3>2, HandlesTo
      <4>2. QED
        BY <1>2, <2>2, <4>1 DEF Leaving, Moving, On, Gone
    <3>3. CASE MoveIssue(r)
      BY <1>0, <1>2, <2>2, <3>3 DEF Leaving, MoveIssue, On
    <3>4. QED
      BY <3>1, <3>2, <3>3
  <2>3. QED
    BY <2>1, <2>2
<1>3. ASSUME NEW q \in On(i), req[q].at = "row" PROVE Making(i)' \/ item'[i] # NoItem
  <2>1. CASE q # r
    BY <1>0, <1>3, <2>1 DEF Making, On
  <2>2. CASE q = r
    <3>1. InsertItem(r)
      BY <1>0, <1>3, <2>2, OpOf DEF Handles, FinishRead, InsertIssue, FindItem, WriteStatus,
         FindDefault, MoveIssue, FindItemStatus, SoftDeleteIssue, DeleteItem, WritePatch
    <3>2. item'[i] = [intake |-> req[r].intake, status |-> "pending"]
      BY <1>0, <1>3, <2>2, <3>1 DEF InsertItem, On
    <3>3. item'[i].status = "pending" /\ NoItem.status = "none"
      BY <3>2 DEF NoItem
    <3>4. QED
      BY <3>3
  <2>3. QED
    BY <2>1, <2>2
<1>4. QED
  BY <1>1, <1>2, <1>3 DEF Leaving, Moving, Making

\* Items of issues that a step of r leaves alone.
LEMMA HandlingPlaced ==
  ASSUME Sound, OneCreator, Placed, NEW r \in Requests, Handles(r)
  PROVE  Placed'
<1>0. /\ issueRow \in [Issues -> {"absent", "live", "deleted"}] /\ item \in [Issues -> Items]
      /\ req[r] \in Request /\ NoItem.status = "none"
  BY DEF Sound, TypeOK, NoItem
<1>1. Sure' => Sure
  BY DEF Sure, Handles, FinishRead, InsertIssue, InsertItem, FindItem, WriteStatus, FindDefault,
         MoveIssue, FindItemStatus, SoftDeleteIssue, DeleteItem, WritePatch, StatementFails, history
<1> SUFFICES ASSUME Sure' PROVE Placed'
  BY DEF Placed, AcceptedLeave, TriagedListed, UnlistedGone
<1>2. /\ \A q \in Requests \ {r} : req'[q] = req[q]
      /\ ~StatementFails(r) /\ Sure
  BY <1>1, HandlesTo DEF Handles, Served, Gone, Only, Sure, StatementFails
<1>3. ASSUME NEW i \in Issues
      PROVE  issueRow[i] = "deleted" => issueRow'[i] = "deleted"
  <2>1. CASE InsertIssue(r)
    <3>1. issueRow[req[r].i] = "absent"
      BY <2>1 DEF InsertIssue, OneCreator, Early, First
    <3>2. QED
      BY <1>0, <2>1, <3>1 DEF InsertIssue
  <2>2. CASE SoftDeleteIssue(r)
    BY <1>0, <2>2 DEF SoftDeleteIssue
  <2>3. CASE ~InsertIssue(r) /\ ~SoftDeleteIssue(r)
    BY <1>2, <2>3 DEF Handles, FinishRead, InsertItem, FindItem, WriteStatus, FindDefault,
         MoveIssue, FindItemStatus, DeleteItem, WritePatch, rows
  <2>4. QED
    BY <2>1, <2>2, <2>3
<1>4. ASSUME NEW i \in Issues, item'[i].status = "accepted"
      PROVE  item[i].status = "accepted" \/ Leaving(i)'
  <2>1. CASE InsertItem(r)
    <3>1. item'[i] = item[i] \/ item'[i] = [intake |-> req[r].intake, status |-> "pending"]
      BY <1>0, <2>1 DEF InsertItem
    <3>2. QED
      BY <1>4, <3>1
  <2>2. CASE WriteStatus(r)
    <3>1. CASE req[r].i = i /\ req[r].status = "accepted"
      <4>1. Goto(r, "default")
        BY <2>2, <3>1 DEF WriteStatus
      <4>2. Gone(r, "default")
        BY <4>1, GotoGone DEF Sound, Steps
      <4>3. QED
        BY <3>1, <4>2 DEF Gone, Leaving, Moving, On
    <3>2. CASE ~(req[r].i = i /\ req[r].status = "accepted")
      <4>1. \/ item'[i] = item[i]
            \/ req[r].status # "accepted" /\ item[i] # NoItem
                 /\ item'[i] = [item[i] EXCEPT !.status = req[r].status]
        BY <1>0, <2>2, <3>2 DEF WriteStatus, SetStatus
      <4>2. \A s : \A t \in Items : t # NoItem => [t EXCEPT !.status = s].status = s
        BY DEF Items
      <4>3. item[i] \in Items
        BY <1>0
      <4>4. QED
        BY <1>4, <4>1, <4>2, <4>3
    <3>3. QED
      BY <3>1, <3>2
  <2>3. CASE DeleteItem(r)
    BY <1>0, <1>4, <2>3 DEF DeleteItem
  <2>4. CASE ~InsertItem(r) /\ ~WriteStatus(r) /\ ~DeleteItem(r)
    BY <1>2, <1>4, <2>4 DEF Handles, FinishRead, InsertIssue, FindItem, FindDefault,
         MoveIssue, FindItemStatus, SoftDeleteIssue, WritePatch, rows
  <2>5. QED
    BY <2>1, <2>2, <2>3, <2>4
<1>5. ASSUME NEW i \in Issues, issueRow'[i] = "live", item'[i] = NoItem
      PROVE  (issueRow[i] = "live" /\ item[i] = NoItem) \/ Leaving(i)' \/ Making(i)'
  <2>1. CASE InsertIssue(r)
    <3>1. item' = item /\ Gone(r, "row") /\ issueRow' = [issueRow EXCEPT ![req[r].i] = "live"]
      BY <2>1, HandlesTo DEF InsertIssue
    <3>2. CASE req[r].i = i
      BY <3>1, <3>2 DEF Making, On, Gone
    <3>3. CASE req[r].i # i
      BY <1>0, <1>5, <3>1, <3>3
    <3>4. QED
      BY <3>2, <3>3
  <2>2. CASE DeleteItem(r)
    <3>1. CASE req[r].i = i
      <4>1. issueRow[i] = "deleted" \/ Leaving(i)
        BY <1>2, <2>2, <3>1 DEF DeleteItem, Placed, UnlistedGone
      <4>2. issueRow[i] # "deleted"
        BY <1>3, <1>5
      <4>3. QED
        BY <4>1, <4>2, HandsKept
    <3>2. CASE req[r].i # i
      BY <1>0, <1>5, <2>2, <3>2 DEF DeleteItem
    <3>3. QED
      BY <3>1, <3>2
  <2>3. CASE InsertItem(r)
    <3>1. item'[i] = item[i] \/ item'[i] = [intake |-> req[r].intake, status |-> "pending"]
      BY <1>0, <2>3 DEF InsertItem
    <3>2. QED
      BY <1>0, <1>5, <2>3, <3>1 DEF InsertItem
  <2>4. CASE WriteStatus(r)
    <3>1. \A s : \A t \in Items : t # NoItem => [t EXCEPT !.status = s].status = s
      BY DEF Items
    <3>2. \/ item'[i] = item[i]
          \/ /\ item[i] # NoItem /\ req[r].status \in Statuses
             /\ item'[i] = [item[i] EXCEPT !.status = req[r].status]
      BY <1>0, <2>4 DEF WriteStatus, SetStatus, Request
    <3>3. item[i] \in Items
      BY <1>0
    <3>4. NoItem.status \notin Statuses
      BY DEF NoItem, Statuses
    <3>5. ASSUME item[i] # NoItem, req[r].status \in Statuses,
                 item'[i] = [item[i] EXCEPT !.status = req[r].status]
          PROVE  item'[i] # NoItem
      <4>1. item'[i].status = req[r].status
        BY <3>1, <3>3, <3>5
      <4>2. QED
        BY <3>4, <3>5, <4>1
    <3>6. item[i] = NoItem
      BY <1>5, <3>2, <3>5
    <3>7. issueRow' = issueRow
      BY <2>4 DEF WriteStatus
    <3>8. QED
      BY <1>5, <3>6, <3>7
  <2>5. CASE SoftDeleteIssue(r)
    BY <1>0, <1>5, <2>5 DEF SoftDeleteIssue
  <2>6. CASE ~InsertIssue(r) /\ ~DeleteItem(r) /\ ~InsertItem(r) /\ ~WriteStatus(r) /\ ~SoftDeleteIssue(r)
    BY <1>2, <1>5, <2>6 DEF Handles, FinishRead, FindItem, FindDefault,
         MoveIssue, FindItemStatus, WritePatch, rows
  <2>7. QED
    BY <2>1, <2>2, <2>3, <2>4, <2>5, <2>6
<1>6. ASSUME NEW q \in Requests, req'[q].at = "unlist"
      PROVE  \E i \in Issues :
               /\ req'[q].i = i
               /\ (req[q].at = "unlist" /\ req[q].i = i) \/ issueRow'[i] = "deleted" \/ Leaving(i)'
  <2>1. CASE q # r
    BY <1>2, <1>6, <2>1, OpOf
  <2>2. CASE q = r
    <3>1. SoftDeleteIssue(r) \/ FindItemStatus(r)
      BY <1>2, <1>6, <2>2, HandlesTo DEF Handles, Served, Gone, Idle
    <3>2. CASE SoftDeleteIssue(r)
      <4>1. Gone(r, "unlist") /\ req[r].i \in Issues
        BY <3>2, HandlesTo, OpOf DEF SoftDeleteIssue
      <4>2. QED
        BY <1>0, <2>2, <3>2, <4>1 DEF SoftDeleteIssue, Gone
    <3>3. CASE FindItemStatus(r)
      <4>1. req[r].i \in Issues /\ ~Served(r) /\ Gone(r, "unlist")
        BY <1>6, <2>2, <3>3, HandlesTo, OpOf DEF FindItemStatus, Served, Idle, Gone
      <4>2. item[req[r].i].status = "accepted"
        <5>1. CASE ~Listed(req[r].i, req[r].intake)
          BY <3>3, <4>1, <5>1, ReturnServed DEF FindItemStatus, Sound
        <5>2. CASE item[req[r].i].status # "accepted" /\ Listed(req[r].i, req[r].intake)
          <6>1. Gone(r, "soft_delete")
            BY <3>3, <5>2, GotoGone DEF FindItemStatus, Sound, Steps
          <6>2. QED
            BY <4>1, <6>1 DEF Gone
        <5>3. QED
          BY <5>1, <5>2
      <4>3. Leaving(req[r].i)
        BY <1>2, <4>1, <4>2 DEF Placed, AcceptedLeave
      <4>4. QED
        BY <2>2, <4>1, <4>3, HandsKept DEF Gone
    <3>4. QED
      BY <3>1, <3>2, <3>3
  <2>3. QED
    BY <2>1, <2>2
<1>7. \A i \in Issues : /\ Leaving(i) => Leaving(i)'
                        /\ Making(i) => Making(i)' \/ item'[i] # NoItem
  BY HandsKept
<1>8. QED
  BY <1>1, <1>3, <1>4, <1>5, <1>6, <1>7, PlacedFrom

\* Steps of a request that is about nothing yet, and the end of an issue.
LEMMA EnsuringPlaced ==
  ASSUME Sound, Placed, NEW r \in Requests, FindIntake(r) \/ ReadName(r) \/ InsertIntake(r)
  PROVE  Placed'
<1>1. UNCHANGED <<item, issueRow, stateOf, fault, lost>>
  BY DEF FindIntake, ReadName, InsertIntake, rows, history
<1>2. req[r].at \in {"ensure", "name", "insert_intake"}
  BY EnsuringTo
<1>3. /\ \A q \in Requests \ {r} : req'[q] = req[q]
      /\ req'[r].at \in {"idle", "name", "insert_intake", "work"}
  BY EnsuringTo DEF Only, Served, Idle
<1>4. \A i \in Issues : (Leaving(i) => Leaving(i)') /\ (Making(i) => Making(i)')
  BY <1>1, <1>2, <1>3 DEF Leaving, Moving, Making, On
<1>5. \A q \in Requests : req'[q].at = "unlist" =>
        \E i \in Issues : req'[q].i = i /\ req[q].at = "unlist" /\ req[q].i = i
  BY <1>3, OpOf
<1>6. Sure' => Sure
  BY <1>1 DEF Sure
<1>7. QED
  BY <1>1, <1>4, <1>5, <1>6, PlacedFrom

LEMMA ArrivingPlaced ==
  ASSUME Sound, Placed, Arriving
  PROVE  Placed'
<1>1. UNCHANGED <<item, stateOf, fault, lost>>
  BY DEF Arriving, Begin, BeginPatch, DestroyIssue, rows, history
<1>2. \A i \in Issues : issueRow'[i] = issueRow[i] \/ issueRow'[i] = "deleted"
  <2>1. issueRow \in [Issues -> {"absent", "live", "deleted"}]
    BY DEF Sound, TypeOK
  <2>2. issueRow' = issueRow
          \/ \E i \in Issues : issueRow' = [issueRow EXCEPT ![i] = "deleted"]
    BY DEF Arriving, Begin, BeginPatch, DestroyIssue, rows
  <2>3. QED
    BY <2>1, <2>2
<1>3. \A q \in Requests : req'[q] = req[q] \/ (req[q] = Idle /\ req'[q].at \in {"ensure", "write"})
  BY ArrivingTo
<1>4. Idle.at = "idle"
  BY DEF Idle
<1>5. \A i \in Issues : (Leaving(i) => Leaving(i)') /\ (Making(i) => Making(i)')
  BY <1>1, <1>3, <1>4 DEF Leaving, Moving, Making, On
<1>6. \A q \in Requests : req'[q].at = "unlist" =>
        \E i \in Issues : req'[q].i = i /\ req[q].at = "unlist" /\ req[q].i = i
  BY <1>3, OpOf
<1>7. Sure' => Sure
  BY <1>1 DEF Sure
<1>8. QED
  BY <1>1, <1>2, <1>5, <1>6, <1>7, PlacedFrom

-----------------------------------------------------------------------------
(* Deletions.                                                               *)

LEMMA HandlingSpared ==
  ASSUME Sound, Spared, NEW r \in Requests, Handles(r)
  PROVE  Spared'
<1>0. /\ item \in [Issues -> Items] /\ crossed \in BOOLEAN /\ NoItem.status = "none"
      /\ \A q \in Requests \ {r} : req'[q] = req[q]
  BY HandlesTo DEF Handles, Served, Gone, Only, Sound, TypeOK, NoItem
<1> SUFFICES ASSUME NEW q \in Requests, req'[q].at = "soft_delete", ~crossed'
             PROVE  item'[req'[q].i].status # "accepted"
  BY DEF Spared
<1>1. ~crossed
  BY DEF Handles, FinishRead, InsertIssue, InsertItem, FindItem, WriteStatus, FindDefault,
         MoveIssue, FindItemStatus, SoftDeleteIssue, DeleteItem, WritePatch, StatementFails, history
<1>2. CASE q = r
  <2>1. FindItemStatus(r)
    BY <1>2, HandlesTo DEF Handles, Served, Gone, Idle
  <2>2. Gone(r, "soft_delete")
    BY <1>2, <2>1, HandlesTo DEF Served, Gone, Idle
  <2>3. item[req[r].i].status # "accepted"
    <3>1. CASE ~Listed(req[r].i, req[r].intake)
      BY <1>2, <2>1, <3>1, ReturnServed DEF FindItemStatus, Sound, Served, Idle
    <3>2. CASE item[req[r].i].status = "accepted" /\ Listed(req[r].i, req[r].intake)
      <4>1. Gone(r, "unlist")
        BY <2>1, <3>2, GotoGone DEF FindItemStatus, Sound, Steps
      <4>2. QED
        BY <2>2, <4>1 DEF Gone
    <3>3. QED
      BY <3>1, <3>2
  <2>4. QED
    BY <1>2, <2>1, <2>2, <2>3 DEF FindItemStatus, rows, Gone
<1>3. CASE q # r
  <2>1. req'[q] = req[q] /\ req[q].i \in Issues /\ item[req[q].i].status # "accepted"
    BY <1>0, <1>1, <1>3, OpOf DEF Spared
  <2>2. CASE WriteStatus(r)
    <3>1. req[r].i # req[q].i
      BY <2>1, <2>2 DEF WriteStatus, DeletesOf, On
    <3>2. item'[req[q].i] = item[req[q].i]
      BY <1>0, <2>1, <2>2, <3>1 DEF WriteStatus, SetStatus
    <3>3. QED
      BY <2>1, <3>2
  <2>3. CASE InsertItem(r)
    <3>1. \/ item'[req[q].i] = item[req[q].i]
          \/ item'[req[q].i] = [intake |-> req[r].intake, status |-> "pending"]
      BY <1>0, <2>1, <2>3 DEF InsertItem
    <3>2. QED
      BY <2>1, <3>1
  <2>4. CASE DeleteItem(r)
    <3>1. item'[req[q].i] = item[req[q].i] \/ item'[req[q].i] = NoItem
      BY <1>0, <2>1, <2>4 DEF DeleteItem
    <3>2. QED
      BY <1>0, <2>1, <3>1
  <2>5. CASE ~InsertItem(r) /\ ~WriteStatus(r) /\ ~DeleteItem(r)
    <3>1. item' = item
      BY <2>5 DEF Handles, FinishRead, InsertIssue, FindItem, FindDefault,
         MoveIssue, FindItemStatus, SoftDeleteIssue, WritePatch, StatementFails, rows
    <3>2. QED
      BY <2>1, <3>1
  <2>6. QED
    BY <2>2, <2>3, <2>4, <2>5
<1>4. QED
  BY <1>2, <1>3

LEMMA QuietSpared ==
  ASSUME Spared, UNCHANGED <<item, crossed>>,
         \A q \in Requests : req'[q].at = "soft_delete" => req'[q] = req[q]
  PROVE  Spared'
BY DEF Spared

-----------------------------------------------------------------------------
(* The invariant.                                                           *)

LEMMA InitIInv == Init => IInv
<1> SUFFICES ASSUME Init PROVE IInv
  OBVIOUS
<1>1. Sound
  <2>1. <<>> \in Seq(Intakes) /\ IsInjective(<<>>)
    BY DEF IsInjective
  <2>2. QED
    BY <2>1, IdleIsRequest, ItemTypes DEF Init, Sound, TypeOK, Shaped
<1>2. NamesSeen /\ Filed
  BY FS_EmptySet DEF Init, NamesSeen, Filed, Idle
<1>3. OneCreator /\ Placed /\ Spared
  BY DEF Init, OneCreator, Early, First, Placed, AcceptedLeave, TriagedListed, UnlistedGone,
         Spared, Idle, NoItem
<1>4. QED
  BY <1>1, <1>2, <1>3 DEF IInv

LEMMA NextIInv ==
  ASSUME IInv, [Next]_vars
  PROVE  IInv'
<1> USE DEF IInv
<1>1. CASE Ensuring
  <2>1. PICK r \in Requests : FindIntake(r) \/ ReadName(r) \/ InsertIntake(r)
    BY <1>1 DEF Ensuring
  <2>2. Sound' /\ NamesSeen' /\ Filed' /\ OneCreator' /\ Placed'
    BY <2>1, EnsuringSound, EnsuringFiled, EnsuringCreators, EnsuringPlaced
  <2>3. Spared'
    <3>1. UNCHANGED <<item, crossed>>
      BY <2>1 DEF FindIntake, ReadName, InsertIntake, rows, history
    <3>2. Only(r) /\ req'[r].at # "soft_delete"
      BY <2>1, EnsuringTo DEF Served, Idle
    <3>3. QED
      BY <3>1, <3>2, QuietSpared DEF Only
  <2>4. QED
    BY <2>2, <2>3
<1>2. CASE Handling
  <2>1. PICK r \in Requests : Handles(r)
    BY <1>2 DEF Handling, Handles
  <2>2. Sound'
    BY <2>1, HandlingSound DEF Handles
  <2>3. QED
    BY <2>1, <2>2, HandlingFiled, HandlingCreators, HandlingPlaced, HandlingSpared
<1>3. CASE Arriving
  <2>1. Sound'
    BY <1>3, ArrivingSound DEF Arriving
  <2>2. NamesSeen' /\ Filed' /\ OneCreator' /\ Placed'
    BY <1>3, ArrivingFiled, ArrivingCreators, ArrivingPlaced
  <2>3. Spared'
    <3>1. UNCHANGED <<item, crossed>>
      BY <1>3 DEF Arriving, Begin, BeginPatch, DestroyIssue, rows, history
    <3>2. \A q \in Requests : req'[q] = req[q] \/ req'[q].at \in {"ensure", "write"}
      BY <1>3, ArrivingTo
    <3>3. QED
      BY <3>1, <3>2, QuietSpared
  <2>4. QED
    BY <2>1, <2>2, <2>3
<1>4. CASE UNCHANGED vars
  <2>1. UNCHANGED <<intakes, item, issueRow, stateOf, req, fault, seen, lost, crossed>>
    BY <1>4 DEF vars, rows, history
  <2>2. Sound' /\ NamesSeen' /\ Filed'
    BY <2>1 DEF Sound, TypeOK, Shaped, NamesSeen, Filed, Known
  <2>3. OneCreator' /\ Spared'
    BY <2>1 DEF OneCreator, Early, Spared
  <2>4. Placed'
    BY <2>1 DEF Placed, AcceptedLeave, TriagedListed, UnlistedGone, Leaving, Moving, Making, On, Sure
  <2>5. QED
    BY <2>2, <2>3, <2>4
<1>5. QED
  BY <1>1, <1>2, <1>3, <1>4 DEF Next

LEMMA Invariant == Spec => []IInv
<1>1. QED
  BY InitIInv, NextIInv, PTL DEF Spec

-----------------------------------------------------------------------------
(* The theorems.                                                            *)

LEMMA FiledInOne ==
  ASSUME Sound, NamesSeen, Filed
  PROVE  ItemsInOneInbox
<1> SUFFICES ASSUME Cardinality(seen) <= 1, NEW i \in Issues, item[i] # NoItem
             PROVE  item[i].intake = Head(intakes)
  BY DEF ItemsInOneInbox
<1>1. PICK k \in 1..Len(intakes) : intakes[k] = item[i].intake
  BY DEF Filed, Known, Contains
<1>2. intakes[k] \in seen /\ intakes \in Seq(Intakes) /\ IsFiniteSet(seen)
  BY DEF NamesSeen, Sound, TypeOK
<1>3. 1 \in 1..Len(intakes) /\ Head(intakes) = intakes[1] /\ intakes[1] \in seen
  BY <1>1, <1>2 DEF NamesSeen
<1>4. Cardinality(seen) = 1
  BY <1>2, FS_CardinalityType, FS_EmptySet
<1>5. QED
  BY <1>1, <1>2, <1>3, <1>4, FS_Singleton

\* However many requests are the first to need the intake of a project, and whatever
\* happens meanwhile: the types hold, all items are in one inbox unless the project
\* was renamed between two reads of its name, and a live issue in triage is listed
\* once the requests on it are done, unless an issue PATCH has put it there (ensureIntake,
\* createIssue, destroyIssue).
THEOREM InboxStaysWhole == Spec => []IntakeInv
<1>1. IInv => IntakeInv
  <2>1. SUFFICES ASSUME IInv PROVE IntakeInv
    OBVIOUS
  <2>2. TypeOK /\ ItemsInOneInbox
    BY <2>1, FiledInOne DEF IInv, Sound
  <2>3. TriageListed
    BY <2>1 DEF IInv, Placed, TriagedListed, Sure, Leaving, Moving, Making, Settled, TriageListed
  <2>4. QED
    BY <2>2, <2>3 DEF IntakeInv
<1>2. QED
  BY <1>1, Invariant, PTL

\* Accepting an item (PATCH status=1) moves its issue out of triage, however other
\* triage requests and deletions overlap with it; an issue PATCH alone can put it back.
THEOREM AcceptedLeaveTriage == Spec => []AcceptedOutOfTriage
<1>1. IInv => AcceptedOutOfTriage
  BY DEF IInv, Placed, AcceptedLeave, Sure, Leaving, Moving, Settled, AcceptedOutOfTriage
<1>2. QED
  BY <1>1, Invariant, PTL

\* destroyIssue never takes an issue along whose item is accepted when it is deleted,
\* unless a PATCH of the status came in between.
THEOREM AcceptedAreSpared == Spec => DeleteSparesAccepted
<1>1. ASSUME IInv, [Next]_vars
      PROVE  [\A i \in Issues : issueRow[i] = "live" /\ issueRow'[i] = "deleted" /\ req' # req /\ ~crossed
                                  => item[i].status # "accepted"]_vars
  <2>1. SUFFICES ASSUME NEW i \in Issues, issueRow[i] = "live", issueRow'[i] = "deleted",
                        req' # req, ~crossed
                 PROVE  item[i].status # "accepted"
    OBVIOUS
  <2>2. issueRow \in [Issues -> {"absent", "live", "deleted"}]
    BY <1>1 DEF IInv, Sound, TypeOK
  <2>3. PICK r \in Requests : SoftDeleteIssue(r)
    BY <1>1, <2>1, <2>2 DEF Next, Ensuring, Handling, Arriving, FindIntake, ReadName, InsertIntake,
       FinishRead, InsertIssue, InsertItem, FindItem, WriteStatus, FindDefault, MoveIssue,
       FindItemStatus, DeleteItem, WritePatch, StatementFails, Begin, BeginPatch, DestroyIssue,
       rows, vars
  <2>4. req[r].i = i /\ req[r].at = "soft_delete"
    BY <2>1, <2>2, <2>3 DEF SoftDeleteIssue
  <2>5. QED
    BY <1>1, <2>1, <2>4 DEF IInv, Spared
<1>2. QED
  BY <1>1, Invariant, PTL DEF Spec, DeleteSparesAccepted
=============================================================================
