---------------------------- MODULE Issues_proofs ----------------------------
(***************************************************************************)
(* Theorems about issues: their numbers, and their relations.              *)
(***************************************************************************)
EXTENDS IssueNumbers, Relations, TLAPS

-----------------------------------------------------------------------------
(***************************************************************************)
(* The numbering of issues has no gap and follows time for any number of   *)
(* concurrent creations, by any mix of the three routes.                   *)
(***************************************************************************)

\* The numbers given out so far are 1..top and nobody holds one above top + 1.
Topped(top) == /\ NumbersIn(Inserted) \ {0} = 1..top
               /\ \A r \in Creations : number[r] <= top + 1

\* Rows come after reads, and what was older when r read is below its number.
Settled == /\ \A r \in Inserted : pc[r] \in {"follow_up", "done", "failed"}
           /\ \A r \in Creations : older[r] \subseteq Inserted
           /\ \A r \in Creations : pc[r] \in {"start", "read"} => number[r] = 0
           /\ \A r \in Creations : number[r] # 0 =>
                \A o \in older[r] : number[o] < number[r]

NumbersIInv == NumbersOK /\ Settled /\ \E top \in Nat : Topped(top)

-----------------------------------------------------------------------------
\* The next number is one above the highest number given out.
LEMMA NextAboveTop ==
  ASSUME NumbersOK, NEW top \in Nat, Topped(top)
  PROVE  NextIssueSequence \in 1..(top + 1) /\ \A r \in Inserted : number[r] < NextIssueSequence
<1> DEFINE N == NumbersIn(Inserted)
<1>1. N \subseteq Nat /\ N \ {0} = 1..top
  BY DEF NumbersOK, Topped, NumbersIn, Inserted
<1>2. CASE N = {}
  BY <1>2 DEF NextIssueSequence, NextOf, NumbersIn
<1>3. CASE N # {}
  <2>1. \E n \in N : \A m \in N : m <= n
    <3>1. CASE top = 0
      BY <1>1, <1>3, <3>1
    <3>2. CASE top # 0
      <4>1. top \in N /\ \A m \in N : m <= top
        BY <1>1, <3>2
      <4>2. QED
        BY <4>1
    <3>3. QED
      BY <3>1, <3>2
  <2> DEFINE big == CHOOSE n \in N : \A m \in N : m <= n
  <2>2. big \in N /\ \A m \in N : m <= big
    BY <2>1
  <2>3. big \in 0..top
    BY <1>1, <2>2
  <2>4. NextIssueSequence = 1 + big
    BY <1>3 DEF NextIssueSequence, NextOf
  <2>5. \A r \in Inserted : number[r] \in N
    BY DEF NumbersIn
  <2> HIDE DEF big, N
  <2>6. QED
    BY <1>1, <2>2, <2>3, <2>4, <2>5
<1>4. QED
  BY <1>2, <1>3

LEMMA InitNumbersIInv == NumbersInit => NumbersIInv
<1> SUFFICES ASSUME NumbersInit PROVE NumbersIInv
  OBVIOUS
<1>1. NumbersOK /\ Settled
  BY DEF NumbersInit, NumbersOK, Steps, Settled, Inserted
<1>2. Topped(0)
  BY DEF NumbersInit, Topped, NumbersIn, Inserted
<1>3. QED
  BY <1>1, <1>2 DEF NumbersIInv

\* A step that touches neither the numbers nor which rows exist.
LEMMA QuietKeepsIInv ==
  ASSUME NumbersIInv, NumbersOK', UNCHANGED <<number, older>>, Inserted' = Inserted,
         \A r \in Inserted : pc'[r] \in {"follow_up", "done", "failed"},
         \A r \in Creations : pc'[r] \in {"start", "read"} => pc[r] \in {"start", "read"}
  PROVE  NumbersIInv'
<1>1. Settled'
  BY DEF NumbersIInv, Settled
<1>2. PICK top \in Nat : Topped(top)
  BY DEF NumbersIInv
<1>3. Topped(top)'
  BY <1>2 DEF Topped, NumbersIn
<1>4. QED
  BY <1>1, <1>3 DEF NumbersIInv

LEMMA ReadKeepsIInv ==
  ASSUME NumbersIInv, NEW r \in Creations, ReadNumber(r)
  PROVE  NumbersIInv'
<1> USE DEF NumbersIInv, ReadNumber, Goto
<1>1. PICK top \in Nat : Topped(top)
  OBVIOUS
<1>2. NextIssueSequence \in 1..(top + 1) /\ \A o \in Inserted : number[o] < NextIssueSequence
  BY <1>1, NextAboveTop
<1>3. NumbersOK'
  BY <1>2 DEF NumbersOK, Steps, Inserted
<1>4. Inserted' = Inserted /\ r \notin Inserted
  BY DEF Inserted, Settled
<1>5. \A o \in Inserted : number'[o] = number[o]
  BY <1>4 DEF NumbersOK, Inserted
<1>6. Topped(top)'
  <2>1. NumbersIn(Inserted)' = NumbersIn(Inserted)
    BY <1>4, <1>5 DEF NumbersIn
  <2>2. \A q \in Creations : number'[q] <= top + 1
    BY <1>1, <1>2 DEF NumbersOK, Topped
  <2>3. QED
    BY <1>1, <2>1, <2>2 DEF Topped
<1>7. Settled'
  <2>1. ASSUME NEW q \in Creations, number'[q] # 0, NEW o \in older'[q]
        PROVE  number'[o] < number'[q]
    <3>1. o \in Inserted /\ number'[o] = number[o]
      BY <1>4, <1>5 DEF Settled, NumbersOK
    <3>2. CASE q = r
      BY <1>2, <3>1, <3>2 DEF NumbersOK
    <3>3. CASE q # r
      BY <2>1, <3>1, <3>3 DEF Settled, NumbersOK
    <3>4. QED
      BY <3>2, <3>3
  <2>2. \A q \in Inserted' : pc'[q] \in {"follow_up", "done", "failed"}
    BY <1>4 DEF Settled, NumbersOK, Inserted
  <2>3. \A q \in Creations : older'[q] \subseteq Inserted'
    BY <1>4 DEF Settled, NumbersOK
  <2>4. \A q \in Creations : pc'[q] \in {"start", "read"} => number'[q] = 0
    BY DEF Settled, NumbersOK
  <2>5. QED
    BY <2>1, <2>2, <2>3, <2>4 DEF Settled
<1>8. QED
  BY <1>3, <1>6, <1>7

LEMMA InsertKeepsIInv ==
  ASSUME NumbersIInv, NEW r \in Creations, Insert(r)
  PROVE  NumbersIInv'
<1> USE DEF NumbersIInv, Insert, Goto
<1>1. PICK top \in Nat : Topped(top)
  OBVIOUS
<1>2. NumbersOK'
  BY DEF NumbersOK, Steps
<1>3. Inserted' = Inserted \cup {r}
  BY DEF Inserted, NumbersOK
<1>4. NumbersIn(Inserted)' = NumbersIn(Inserted) \cup {number[r]}
  BY <1>3 DEF NumbersIn
<1>5. number[r] \in 0..(top + 1)
  BY <1>1 DEF Topped, NumbersOK
<1>6. \E t \in Nat : Topped(t)'
  <2>1. CASE number[r] = top + 1
    <3>1. Topped(top + 1)'
      BY <1>1, <1>4, <2>1 DEF Topped, NumbersOK
    <3>2. QED
      BY <3>1
  <2>2. CASE number[r] # top + 1
    <3>1. Topped(top)'
      BY <1>1, <1>4, <1>5, <2>2 DEF Topped
    <3>2. QED
      BY <3>1
  <2>3. QED
    BY <2>1, <2>2
<1>7. Settled'
  BY <1>3 DEF Settled, NumbersOK
<1>8. QED
  BY <1>2, <1>6, <1>7

LEMMA StepKeepsNumbersIInv == NumbersIInv /\ [NumbersNext]_numberVars => NumbersIInv'
<1> SUFFICES ASSUME NumbersIInv, [NumbersNext]_numberVars PROVE NumbersIInv'
  OBVIOUS
<1> USE DEF Goto
<1>1. ASSUME NEW r \in Creations, Create(r) \/ Destroy(r)
      PROVE  NumbersIInv'
  <2>1. CASE ReadNumber(r)
    BY <2>1, ReadKeepsIInv
  <2>2. CASE Insert(r)
    BY <2>2, InsertKeepsIInv
  <2>3. CASE Prepare(r) \/ (\E d \in Drafts : LoadDraft(r, d)) \/ ReadFails(r) \/ InsertFails(r)
    <3>1. NumbersOK'
      BY <2>3 DEF NumbersIInv, NumbersOK, Steps, Prepare, LoadDraft, ReadFails, InsertFails
    <3>2. Inserted' = Inserted /\ r \notin Inserted
      BY <2>3 DEF NumbersIInv, Settled, Inserted, Prepare, LoadDraft, ReadFails, InsertFails
    <3>3. \A q \in Inserted : pc'[q] \in {"follow_up", "done", "failed"}
      BY <2>3, <3>2 DEF NumbersIInv, Settled, NumbersOK, Inserted, Prepare, LoadDraft, ReadFails, InsertFails
    <3>4. \A q \in Creations : pc'[q] \in {"start", "read"} => pc[q] \in {"start", "read"}
      BY <2>3 DEF NumbersIInv, NumbersOK, Prepare, LoadDraft, ReadFails, InsertFails
    <3>5. QED
      BY <2>3, <3>1, <3>2, <3>3, <3>4, QuietKeepsIInv
         DEF Prepare, LoadDraft, ReadFails, InsertFails
  <2>4. CASE InsertIntakeRow(r) \/ ConsumeDraft(r) \/ FollowUpFails(r) \/ Destroy(r)
    <3>1. NumbersOK'
      BY <2>4 DEF NumbersIInv, NumbersOK, Steps, InsertIntakeRow, ConsumeDraft, FollowUpFails, Destroy
    <3>2. Inserted' = Inserted
      BY <2>4 DEF NumbersIInv, NumbersOK, Inserted, InsertIntakeRow, ConsumeDraft, FollowUpFails, Destroy
    <3>3. \A q \in Creations : pc'[q] = pc[q] \/ pc'[q] \in {"done", "failed"}
      BY <2>4 DEF NumbersIInv, NumbersOK, InsertIntakeRow, ConsumeDraft, FollowUpFails, Destroy
    <3>4. UNCHANGED <<number, older>>
      BY <2>4 DEF InsertIntakeRow, ConsumeDraft, FollowUpFails, Destroy
    <3>5. \A q \in Inserted : pc'[q] \in {"follow_up", "done", "failed"}
      BY <3>3 DEF NumbersIInv, Settled, Inserted
    <3>6. QED
      BY <3>1, <3>2, <3>3, <3>4, <3>5, QuietKeepsIInv
  <2>5. QED
    BY <1>1, <2>1, <2>2, <2>3, <2>4 DEF Create
<1>2. ASSUME NEW d \in Drafts, DestroyDraft(d)
      PROVE  NumbersIInv'
  <2>1. NumbersOK'
    BY <1>2 DEF NumbersIInv, NumbersOK, DestroyDraft
  <2>2. Inserted' = Inserted /\ UNCHANGED <<number, older, pc>>
    BY <1>2 DEF Inserted, DestroyDraft
  <2>3. \A q \in Inserted : pc'[q] \in {"follow_up", "done", "failed"}
    BY <2>2 DEF NumbersIInv, Settled
  <2>4. QED
    BY <2>1, <2>2, <2>3, QuietKeepsIInv
<1>3. CASE UNCHANGED numberVars
  <2>1. NumbersOK' /\ Inserted' = Inserted
    BY <1>3 DEF NumbersIInv, NumbersOK, Inserted, numberVars
  <2>2. UNCHANGED <<number, older, pc>>
    BY <1>3 DEF numberVars
  <2>3. \A q \in Inserted : pc'[q] \in {"follow_up", "done", "failed"}
    BY <2>2 DEF NumbersIInv, Settled
  <2>4. QED
    BY <2>1, <2>2, <2>3, QuietKeepsIInv
<1>4. QED
  BY <1>1, <1>2, <1>3 DEF NumbersNext

THEOREM NumbersInvariance == NumbersSpec => []NumbersIInv
BY InitNumbersIInv, StepKeepsNumbersIInv, PTL DEF NumbersSpec

-----------------------------------------------------------------------------
\* The rows and the requests in flight stay well formed.
THEOREM NumbersTypes == NumbersSpec => []NumbersOK
BY NumbersInvariance, PTL DEF NumbersIInv

\* No sequence_id is skipped in a project, however creations overlap
\* (issue/handlers.go:321-329, intake/handlers.go:229-236,
\* issueextra/handlers.go:416-427).
THEOREM NoGaps == NumbersSpec => []NumbersDense
<1>1. NumbersIInv => NumbersDense
  <2> SUFFICES ASSUME NumbersIInv, NEW r \in Inserted, NEW n \in 1..number[r]
               PROVE  n \in NumbersIn(Inserted)
    BY DEF NumbersDense
  <2>1. PICK top \in Nat : Topped(top)
    BY DEF NumbersIInv
  <2>2. number[r] \in Nat /\ number[r] \in NumbersIn(Inserted)
    BY DEF NumbersIInv, NumbersOK, Inserted, NumbersIn
  <2>3. number[r] \in 0..top
    BY <2>1, <2>2 DEF Topped
  <2>4. QED
    BY <2>1, <2>2, <2>3 DEF Topped
<1>2. QED
  BY <1>1, NumbersInvariance, PTL

\* A creation that reads after another issue was inserted never gets that
\* issue's number or a lower one, deleted or not.
THEOREM FollowsTime == NumbersSpec => []NumbersFollowTime
<1>1. NumbersIInv => NumbersFollowTime
  BY DEF NumbersIInv, Settled, NumbersFollowTime, Inserted
<1>2. QED
  BY <1>1, NumbersInvariance, PTL

-----------------------------------------------------------------------------
(* The drafts.                                                             *)

\* What the delete of a promoted draft rests on: its issue has been inserted.
InsertedFirst == \A r \in Creations : pc[r] = "follow_up" => r \in Inserted

\* The issue of a draft keeps naming it, and no draft comes back.
LEMMA DraftsKept ==
  ASSUME NumbersIInv, InsertedFirst, NoDraftLost, [NumbersNext]_numberVars
  PROVE  InsertedFirst' /\ NoDraftLost'
<1> USE DEF NumbersIInv, Goto
<1>1. \A r \in Inserted : pc[r] \in {"follow_up", "done", "failed"}
  BY DEF Settled
<1>2. ASSUME Inserted \subseteq Inserted', \A r \in Inserted : draftOf'[r] = draftOf[r],
             discarded \subseteq discarded',
             \A d \in drafts \ drafts' : d \in discarded' \/ \E r \in Inserted : draftOf[r] = d
      PROVE  NoDraftLost'
  BY <1>2 DEF NoDraftLost
<1>3. ASSUME NEW r \in Creations, Create(r)
      PROVE  InsertedFirst' /\ NoDraftLost'
  <2>1. CASE Prepare(r) \/ ReadNumber(r) \/ ReadFails(r) \/ InsertFails(r)
             \/ \E d \in Drafts : LoadDraft(r, d)
    <3>1. /\ Inserted' = Inserted /\ drafts' = drafts /\ discarded' = discarded
          /\ pc[r] \in {"start", "read", "insert"}
          /\ \A q \in Creations : pc'[q] = "follow_up" => pc[q] = "follow_up"
          /\ \A q \in Creations : q # r => draftOf'[q] = draftOf[q]
      BY <2>1 DEF NumbersOK, Inserted, Prepare, ReadNumber, ReadFails, InsertFails, LoadDraft
    <3>2. \A q \in Inserted : q \in Creations /\ q # r
      BY <1>1, <3>1 DEF Inserted
    <3>3. NoDraftLost'
      BY <1>2, <3>1, <3>2
    <3> QED
      BY <3>1, <3>3 DEF InsertedFirst
  <2>2. CASE Insert(r)
    <3>1. /\ Inserted' = Inserted \cup {r} /\ UNCHANGED <<drafts, discarded, draftOf>>
          /\ \A q \in Creations : q # r => pc'[q] = pc[q]
      BY <2>2 DEF NumbersOK, Inserted, Insert
    <3> QED
      BY <1>2, <3>1 DEF InsertedFirst
  <2>3. CASE InsertIntakeRow(r) \/ ConsumeDraft(r) \/ FollowUpFails(r)
    <3>1. /\ Inserted' = Inserted /\ UNCHANGED <<discarded, draftOf>> /\ pc[r] = "follow_up"
          /\ drafts \ drafts' \subseteq {draftOf[r]}
          /\ \A q \in Creations : pc'[q] = "follow_up" => pc[q] = "follow_up"
      BY <2>3 DEF NumbersOK, Inserted, InsertIntakeRow, ConsumeDraft, FollowUpFails
    <3> QED
      BY <1>2, <3>1 DEF InsertedFirst
  <2> QED
    BY <1>3, <2>1, <2>2, <2>3 DEF Create
<1>4. ASSUME NEW r \in Creations, Destroy(r)
      PROVE  InsertedFirst' /\ NoDraftLost'
  <2>1. Inserted' = Inserted /\ UNCHANGED <<drafts, discarded, draftOf, pc>>
    BY <1>4 DEF NumbersOK, Inserted, Destroy
  <2> QED
    BY <1>2, <2>1 DEF InsertedFirst
<1>5. ASSUME NEW d \in Drafts, DestroyDraft(d)
      PROVE  InsertedFirst' /\ NoDraftLost'
  <2>1. Inserted' = Inserted /\ UNCHANGED <<draftOf, pc>> /\ drafts \ drafts' \subseteq discarded'
        /\ discarded \subseteq discarded'
    BY <1>5 DEF Inserted, DestroyDraft
  <2> QED
    BY <1>2, <2>1 DEF InsertedFirst
<1>6. CASE UNCHANGED numberVars
  <2>1. Inserted' = Inserted /\ UNCHANGED <<drafts, discarded, draftOf, pc>>
    BY <1>6 DEF Inserted, numberVars
  <2> QED
    BY <1>2, <2>1 DEF InsertedFirst
<1> QED
  BY <1>3, <1>4, <1>5, <1>6 DEF NumbersNext

\* Whatever fails or overlaps, a draft leaves the table only by its owner's hand or
\* behind the issue made of it (issueextra/handlers.go:433-447).
THEOREM DraftsSurvive == NumbersSpec => []NoDraftLost
<1>1. NumbersInit => InsertedFirst /\ NoDraftLost
  BY DEF NumbersInit, InsertedFirst, NoDraftLost
<1>2. NumbersIInv /\ (InsertedFirst /\ NoDraftLost) /\ [NumbersNext]_numberVars => (InsertedFirst /\ NoDraftLost)'
  BY DraftsKept
<1> QED
  BY <1>1, <1>2, NumbersInvariance, PTL DEF NumbersSpec

-----------------------------------------------------------------------------
(***************************************************************************)
(* Relations, for every set of issues, types and requests.                 *)
(***************************************************************************)

\* Requests at work on a relation that is not doubtful all want the same of it,
\* and one that has done its first statement finds the row it wrote.
SameKind == \A l \in Links : l \notin doubtful =>
              \A r, q \in On(l) : req[r].kind = req[q].kind
HalfDone == \A r \in Active : req[r].half /\ Link(req[r].row) \notin doubtful
              => (req[r].row \in table <=> req[r].kind = "add")
HalfKnown == \A r \in Active : req[r].half => req[r].row[3] \in Known

IInv == TypeOK /\ SameKind /\ HalfDone /\ HalfKnown /\ LinkedIffAdded

-----------------------------------------------------------------------------
(* Relations and their rows.                                               *)

\* The table of inverses is its own inverse (issue/actions.go:26).
LEMMA InverseOfInverse ==
  \A t \in Known : relationInverse[t] \in Known /\ relationInverse[relationInverse[t]] = t
BY DEF Known, relationInverse

\* The row on the other side is a row, and its other side is the first one.
LEMMA MirrorOfMirror ==
  ASSUME NEW e \in Rows, e[3] \in Known
  PROVE  Mirror(e) \in Rows /\ Mirror(e)[3] \in Known /\ Mirror(Mirror(e)) = e
<1>1. relationInverse[e[3]] \in Types /\ relationInverse[e[3]] \in Known
  BY TypesClosed, InverseOfInverse DEF Rows
<1>2. relationInverse[relationInverse[e[3]]] = e[3]
  BY InverseOfInverse
<1>3. e = <<e[1], e[2], e[3]>>
  BY DEF Rows
<1> QED
  BY <1>1, <1>2, <1>3 DEF Mirror, Inverse, Rows

\* Every row belongs to exactly one relation.
LEMMA LinkOfRow ==
  ASSUME NEW e \in Rows, NEW f \in Link(e)
  PROVE  f \in Rows /\ Link(f) = Link(e) /\ e \in Link(e) /\ Link(e) \in Links
<1>1. CASE e[3] \in Known
  <2>1. Mirror(e) \in Rows /\ Mirror(e)[3] \in Known /\ Mirror(Mirror(e)) = e
    BY <1>1, MirrorOfMirror
  <2>2. f = e \/ f = Mirror(e)
    BY <1>1 DEF Link
  <2>3. Link(Mirror(e)) = {Mirror(e), e}
    BY <2>1 DEF Link
  <2> QED
    BY <1>1, <2>1, <2>2, <2>3 DEF Link, Links
<1>2. CASE e[3] \notin Known
  BY <1>2 DEF Link, Links
<1> QED
  BY <1>1, <1>2

\* Different relations have no row in common.
LEMMA LinksDisjoint ==
  ASSUME NEW e \in Rows, NEW f \in Rows, e \in Link(f)
  PROVE  Link(e) = Link(f)
BY LinkOfRow

\* The rows an active request names are rows.
LEMMA RowsAhead ==
  ASSUME TypeOK, NEW r \in Active
  PROVE  /\ req[r] \in Working
         /\ req[r].row \in Rows
         /\ \A b \in req[r].todo : <<req[r].row[1], b, req[r].row[3]>> \in Rows
         /\ Ahead(r) \subseteq Links
         /\ Link(req[r].row) \in Ahead(r)
<1>1. req[r] \in Working
  BY DEF TypeOK, Active
<1>2. req[r].row \in Rows /\ req[r].todo \subseteq Issues
  BY <1>1 DEF Working
<1>3. \A b \in req[r].todo : <<req[r].row[1], b, req[r].row[3]>> \in Rows
  BY <1>2 DEF Rows
<1> QED
  BY <1>1, <1>2, <1>3 DEF Ahead, Links

-----------------------------------------------------------------------------
(* What a step leaves ahead of the requests.                               *)

\* A request that goes on to its next relation keeps its kind and the rest of
\* its list; nothing else moves.
LEMMA NextLinkAhead ==
  ASSUME TypeOK, NEW r \in Active, NextLink(r)
  PROVE  /\ req' \in [Requests -> Working \cup {New, Done}]
         /\ \A q \in Requests : q # r => req'[q] = req[q]
         /\ r \in Active' => /\ req'[r] \in Working
                             /\ ~req'[r].half /\ req'[r].kind = req[r].kind
                             /\ \A l \in Ahead(r)' : l \in Ahead(r)
         /\ \A l \in Ahead(r) : l # Link(req[r].row) => r \in Active' /\ l \in Ahead(r)'
<1>1. /\ r \in Requests /\ req \in [Requests -> Working \cup {New, Done}]
      /\ req[r] \in Working /\ req[r].row \in Rows
  BY RowsAhead DEF Active, TypeOK
<1>2. CASE req[r].todo = {}
  <2>1. req' = [req EXCEPT ![r] = Done]
    BY <1>2 DEF NextLink
  <2>2. r \notin Active'
    BY <1>1, <2>1 DEF Active
  <2>3. Ahead(r) = {Link(req[r].row)}
    BY <1>2 DEF Ahead
  <2> QED
    BY <1>1, <2>1, <2>2, <2>3
<1>3. CASE req[r].todo # {}
  <2>1. PICK b \in req[r].todo :
          req' = [req EXCEPT ![r].row = <<@[1], b, @[3]>>, ![r].half = FALSE, ![r].todo = @ \ {b}]
    BY <1>3 DEF NextLink
  <2> DEFINE entry == <<req[r].row[1], b, req[r].row[3]>>
  <2>2. entry \in Rows /\ b \in Issues
    BY <1>1, <2>1, RowsAhead DEF Working
  <2>3. /\ req'[r] = [kind |-> req[r].kind, row |-> entry, half |-> FALSE, todo |-> req[r].todo \ {b}]
        /\ \A q \in Requests : q # r => req'[q] = req[q]
        /\ DOMAIN req' = Requests
    BY <1>1, <2>1 DEF Working
  <2>4. req'[r] \in Working
    BY <1>1, <2>2, <2>3 DEF Working
  <2>5. req' \in [Requests -> Working \cup {New, Done}]
    BY <1>1, <2>1, <2>3, <2>4
  <2>6. req'[r] \notin {New, Done}
    BY <2>3 DEF New, Done
  <2>7. r \in Active'
    BY <1>1, <2>6 DEF Active
  <2>8. Ahead(r)' = {Link(entry)} \cup {Link(<<entry[1], c, entry[3]>>) : c \in req[r].todo \ {b}}
    BY <2>3, <2>7 DEF Ahead
  <2>9. Ahead(r) = {Link(req[r].row)}
                   \cup {Link(<<req[r].row[1], c, req[r].row[3]>>) : c \in req[r].todo}
    BY DEF Ahead
  <2>10. /\ \A l \in Ahead(r)' : l \in Ahead(r)
         /\ \A l \in Ahead(r) : l # Link(req[r].row) => l \in Ahead(r)'
    BY <2>1, <2>8, <2>9
  <2> QED
    BY <2>3, <2>4, <2>5, <2>7, <2>10
<1> QED
  BY <1>2, <1>3

-----------------------------------------------------------------------------
(* The invariant.                                                          *)

LEMMA Starts == Init => IInv
<1> SUFFICES ASSUME Init PROVE IInv
  OBVIOUS
<1>1. PICK there \in SUBSET Links :
        /\ table = UNION there
        /\ last = [l \in Links |-> IF l \in there THEN "add" ELSE "remove"]
  BY DEF Init
<1>2. \A l \in Links : l \subseteq Rows
  BY LinkOfRow DEF Links
<1>3. TypeOK
  BY <1>1, <1>2 DEF Init, TypeOK
<1>4. Active = {}
  BY DEF Init, Active
<1>5. ASSUME NEW e \in Rows PROVE e \in table <=> last[Link(e)] = "add"
  <2>1. e \in Link(e) /\ Link(e) \in Links
    BY LinkOfRow DEF Link
  <2>2. ASSUME NEW l \in there, e \in l PROVE l = Link(e)
    BY <2>2, LinksDisjoint DEF Links
  <2> QED
    BY <1>1, <2>1, <2>2
<1>6. LinkedIffAdded
  BY <1>5 DEF LinkedIffAdded
<1>7. SameKind /\ HalfDone /\ HalfKnown
  BY <1>4 DEF SameKind, HalfDone, HalfKnown, On, Ahead
<1> QED
  BY <1>3, <1>6, <1>7 DEF IInv

\* A new request: every relation on its list where it meets one of the other
\* kind becomes doubtful.
LEMMA BeginStep ==
  ASSUME IInv, NEW r \in Requests, NEW kind \in {"add", "remove"}, NEW e \in Rows,
         NEW more \in SUBSET Issues, Begin(r, kind, e, more)
  PROVE  IInv'
<1> USE DEF IInv
<1> DEFINE job == [kind |-> kind, row |-> e, half |-> FALSE, todo |-> more]
           mine == {Link(<<e[1], b, e[3]>>) : b \in more \cup {e[2]}}
<1>1. /\ req[r] = New /\ req' = [req EXCEPT ![r] = job]
      /\ doubtful' = doubtful \cup {l \in mine : \E q \in On(l) : req[q].kind # kind}
      /\ UNCHANGED <<table, last>>
  BY DEF Begin
<1>2. job \in Working
  BY DEF Working
<1>3. /\ req' \in [Requests -> Working \cup {New, Done}] /\ req'[r] = job
      /\ \A q \in Requests : q # r => req'[q] = req[q]
  BY <1>1, <1>2 DEF TypeOK
<1>4. e = <<e[1], e[2], e[3]>> /\ \A b \in more : <<e[1], b, e[3]>> \in Rows
  BY DEF Rows
<1>5. mine \subseteq Links
  BY <1>4 DEF Links
<1>6. TypeOK'
  BY <1>1, <1>3, <1>5 DEF TypeOK
<1>7. r \notin Active /\ r \in Active' /\ \A q \in Requests : q # r => (q \in Active' <=> q \in Active)
  BY <1>1, <1>3 DEF Active, New, Done
<1>8. Ahead(r)' = mine
  <2>1. job.row = e /\ job.todo = more
    OBVIOUS
  <2>2. Ahead(r)' = {Link(e)} \cup {Link(<<e[1], b, e[3]>>) : b \in more}
    BY <1>3, <1>7, <2>1 DEF Ahead
  <2>3. Link(e) = Link(<<e[1], e[2], e[3]>>)
    BY <1>4
  <2>4. mine = {Link(<<e[1], b, e[3]>>) : b \in more} \cup {Link(<<e[1], e[2], e[3]>>)}
    OBVIOUS
  <2> QED
    BY <2>2, <2>3, <2>4
<1>9. ASSUME NEW l
      PROVE  On(l)' = IF l \in mine THEN On(l) \cup {r} ELSE On(l)
  <2>1. \A q \in Requests : q # r => Ahead(q)' = Ahead(q)
    BY <1>3, <1>7 DEF Ahead
  <2>2. Ahead(r) = {}
    BY <1>7 DEF Ahead
  <2> QED
    BY <1>8, <2>1, <2>2 DEF On
<1>10. \A l : r \notin On(l)
  BY <1>7 DEF On, Ahead
<1>11. SameKind'
  <2> SUFFICES ASSUME NEW l \in Links, l \notin doubtful', NEW p \in On(l)', NEW q \in On(l)'
               PROVE  req'[p].kind = req'[q].kind
    BY DEF SameKind
  <2>1. l \notin doubtful
    BY <1>1
  <2>2. \A s \in On(l) : s \in Requests /\ s # r /\ req'[s] = req[s]
    BY <1>3, <1>10 DEF On
  <2>3. CASE l \in mine
    BY <1>1, <1>3, <1>9, <2>2, <2>3
  <2>4. CASE l \notin mine
    BY <1>9, <2>1, <2>2, <2>4 DEF SameKind
  <2> QED
    BY <2>3, <2>4
<1>12. HalfDone' /\ HalfKnown'
  BY <1>1, <1>3, <1>7 DEF HalfDone, HalfKnown, Active
<1>13. LinkedIffAdded'
  <2> SUFFICES ASSUME NEW f \in Rows, Link(f) \notin doubtful'
               PROVE  \/ f \in table' <=> last'[Link(f)] = "add"
                      \/ \E q \in On(Link(f))' : req'[q].kind # last'[Link(f)]
    BY DEF LinkedIffAdded
  <2>1. CASE f \in table <=> last[Link(f)] = "add"
    BY <1>1, <2>1
  <2>2. CASE \E q \in On(Link(f)) : req[q].kind # last[Link(f)]
    BY <1>1, <1>3, <1>9, <1>10, <2>2 DEF On
  <2> QED
    BY <1>1, <2>1, <2>2 DEF LinkedIffAdded
<1> QED
  BY <1>6, <1>11, <1>12, <1>13

-----------------------------------------------------------------------------
(* The statements of a request.                                            *)

\* How a statement leaves a request: half way through its relation, or past it.
Moves(r) == req' = [req EXCEPT ![r].half = TRUE] \/ NextLink(r)

\* A statement takes its request off the relation it is at, at most; all other
\* requests stay where they are, and nobody changes sides.
LEMMA MovesOn ==
  ASSUME TypeOK, NEW r \in Active, Moves(r)
  PROVE  /\ req' \in [Requests -> Working \cup {New, Done}]
         /\ \A q \in Requests : q # r => req'[q] = req[q] /\ (q \in Active' <=> q \in Active)
         /\ \A l : On(l)' \subseteq On(l)
         /\ \A l : \A q \in On(l) : q \in On(l)' \/ (q = r /\ l = Link(req[r].row))
         /\ \A l : \A q \in On(l)' : req'[q].kind = req[q].kind
<1>1. /\ r \in Requests /\ req \in [Requests -> Working \cup {New, Done}]
      /\ req[r] \in Working /\ Active \subseteq Requests
  BY RowsAhead DEF Active, TypeOK
<1>2. /\ req' \in [Requests -> Working \cup {New, Done}]
      /\ \A q \in Requests : q # r => req'[q] = req[q]
      /\ r \in Active' => req'[r].kind = req[r].kind
      /\ Ahead(r)' \subseteq Ahead(r)
      /\ \A l \in Ahead(r) : l # Link(req[r].row) => l \in Ahead(r)'
  <2>1. CASE req' = [req EXCEPT ![r].half = TRUE]
    <3>1. /\ req'[r] = [kind |-> req[r].kind, row |-> req[r].row, half |-> TRUE,
                        todo |-> req[r].todo]
          /\ \A q \in Requests : q # r => req'[q] = req[q]
      BY <1>1, <2>1 DEF Working
    <3>2. req'[r] \in Working
      BY <1>1, <3>1 DEF Working
    <3>3. req' \in [Requests -> Working \cup {New, Done}]
      BY <1>1, <2>1, <3>1, <3>2
    <3>4. req'[r] \notin {New, Done}
      BY <3>1 DEF New, Done
    <3>5. r \in Active'
      BY <1>1, <3>4 DEF Active
    <3>6. Ahead(r)' = Ahead(r)
      BY <3>1, <3>5 DEF Ahead
    <3> QED
      BY <3>1, <3>3, <3>6
  <2>2. CASE NextLink(r)
    <3>1. r \notin Active' => Ahead(r)' = {}
      BY DEF Ahead
    <3> QED
      BY <2>2, <3>1, NextLinkAhead
  <2> QED
    BY <2>1, <2>2 DEF Moves
<1>3. \A q \in Requests : q # r => (q \in Active' <=> q \in Active) /\ Ahead(q)' = Ahead(q)
  BY <1>2 DEF Active, Ahead
<1>4. \A l : On(l)' \subseteq On(l)
  BY <1>2, <1>3 DEF On
<1>5. \A l : \A q \in On(l) : q \in On(l)' \/ (q = r /\ l = Link(req[r].row))
  BY <1>2, <1>3 DEF On
<1>6. \A l : r \in On(l)' => r \in Active'
  BY DEF On, Ahead
<1>7. \A l : \A q \in On(l)' : req'[q].kind = req[q].kind
  BY <1>2, <1>6 DEF On
<1> QED
  BY <1>2, <1>3, <1>4, <1>5, <1>7

\* So requests on a relation keep agreeing.
LEMMA SameKindKept ==
  ASSUME TypeOK, SameKind, NEW r \in Active, Moves(r), doubtful \subseteq doubtful'
  PROVE  SameKind'
<1> SUFFICES ASSUME NEW l \in Links, l \notin doubtful', NEW p \in On(l)', NEW q \in On(l)'
             PROVE  req'[p].kind = req'[q].kind
  BY DEF SameKind
<1>1. p \in On(l) /\ q \in On(l) /\ req'[p].kind = req[p].kind /\ req'[q].kind = req[q].kind
  BY MovesOn
<1> QED
  BY <1>1 DEF SameKind

\* Requests at the same relation, unless it is doubtful, want the same of it.
LEMMA Agree ==
  ASSUME TypeOK, SameKind, NEW r \in Active, NEW q \in Active,
         Link(req[q].row) = Link(req[r].row), Link(req[r].row) \notin doubtful
  PROVE  req[q].kind = req[r].kind
<1>1. Link(req[r].row) \in Links /\ r \in On(Link(req[r].row)) /\ q \in On(Link(req[r].row))
  BY RowsAhead DEF On, Active
<1> QED
  BY <1>1 DEF SameKind

\* A statement that writes row e of its own relation: what requests have done by
\* half stays done.
LEMMA HalfDoneKept ==
  ASSUME TypeOK, SameKind, HalfDone, NEW r \in Active, Moves(r), UNCHANGED doubtful,
         NEW e \in Link(req[r].row), Write(r, e),
         r \in Active' /\ req'[r].half => req'[r].row = e /\ req'[r].kind = req[r].kind
  PROVE  HalfDone'
<1> SUFFICES ASSUME NEW q \in Active', req'[q].half, Link(req'[q].row) \notin doubtful
             PROVE  req'[q].row \in table' <=> req'[q].kind = "add"
  BY DEF HalfDone
<1>1. e \in table' <=> req[r].kind = "add"
  BY RowsAhead DEF Write, Working
<1>2. CASE q = r
  BY <1>1, <1>2
<1>3. CASE q # r
  <2>1. q \in Active /\ req'[q] = req[q]
    BY <1>3, MovesOn DEF Active
  <2>2. CASE req[q].row = e
    <3>1. Link(req[q].row) = Link(req[r].row)
      BY <2>2, RowsAhead, LinkOfRow
    <3>2. req[q].kind = req[r].kind
      BY <2>1, <3>1, Agree
    <3> QED
      BY <1>1, <2>1, <2>2, <3>2
  <2>3. CASE req[q].row # e
    <3>1. req[q].row \in table' <=> req[q].row \in table
      BY <2>3 DEF Write
    <3> QED
      BY <2>1, <3>1 DEF HalfDone
  <2> QED
    BY <2>2, <2>3
<1> QED
  BY <1>2, <1>3

\* Nothing changes for the rows of other relations.
LEMMA OthersLinked ==
  ASSUME TypeOK, LinkedIffAdded, NEW r \in Active, Moves(r), doubtful \subseteq doubtful',
         NEW f \in Rows, Link(f) # Link(req[r].row), Link(f) \notin doubtful',
         f \in table' <=> f \in table, last'[Link(f)] = last[Link(f)]
  PROVE  \/ f \in table' <=> last'[Link(f)] = "add"
         \/ \E q \in On(Link(f))' : req'[q].kind # last'[Link(f)]
<1>1. \A q \in On(Link(f)) : q \in On(Link(f))' /\ req'[q].kind = req[q].kind
  BY MovesOn
<1> QED
  BY <1>1 DEF LinkedIffAdded

-----------------------------------------------------------------------------

LEMMA FirstRowStep ==
  ASSUME IInv, NEW r \in Requests, FirstRow(r)
  PROVE  IInv'
<1> USE DEF IInv
<1>1. /\ r \in Active /\ ~req[r].half /\ Write(r, req[r].row) /\ UNCHANGED doubtful
      /\ req[r] \in Working /\ req[r].row \in Rows
  BY RowsAhead DEF FirstRow
<1>2. Link(req[r].row) \in Links /\ req[r].row \in Link(req[r].row)
  BY <1>1, LinkOfRow DEF Link
<1>3. Moves(r)
  BY DEF FirstRow, Moves, Finish
<1>4. table' \subseteq Rows
  BY <1>1 DEF TypeOK, Write
<1>5. req[r].row \in table' <=> req[r].kind = "add"
  BY <1>1 DEF Write, Working
<1>6. \A f \in Rows : f # req[r].row => (f \in table' <=> f \in table)
  BY <1>1 DEF Write
<1>7. SameKind'
  BY <1>1, <1>3, SameKindKept
<1>8. CASE req[r].row[3] \in Known
  <2>1. req' = [req EXCEPT ![r].half = TRUE] /\ UNCHANGED last
    BY <1>8 DEF FirstRow
  <2>2. req'[r].row = req[r].row /\ req'[r].kind = req[r].kind
    BY <1>1, <2>1 DEF TypeOK, Working
  <2>3. TypeOK'
    BY <1>1, <1>3, <1>4, <2>1, MovesOn DEF TypeOK
  <2>4. HalfDone'
    BY <1>1, <1>2, <1>3, <2>2, HalfDoneKept
  <2>5. HalfKnown'
    BY <1>1, <1>3, <1>8, <2>2, MovesOn DEF HalfKnown, Active
  <2>6. LinkedIffAdded'
    <3> SUFFICES ASSUME NEW f \in Rows, Link(f) \notin doubtful'
                 PROVE  \/ f \in table' <=> last'[Link(f)] = "add"
                        \/ \E q \in On(Link(f))' : req'[q].kind # last'[Link(f)]
      BY DEF LinkedIffAdded
    <3>0. r \in Active' /\ \A l : On(l) \subseteq On(l)' /\ \A q \in On(l) : req'[q].kind = req[q].kind
      <4>1. \A q \in Requests : req'[q] \in {New, Done} <=> req[q] \in {New, Done}
        BY <1>1, <2>1, <2>2 DEF TypeOK, Working, New, Done
      <4>2. Active' = Active
        BY <4>1 DEF Active
      <4>3. \A q \in Active : /\ req'[q].row = req[q].row /\ req'[q].kind = req[q].kind
                              /\ req'[q].todo = req[q].todo
        BY <1>1, <2>1 DEF TypeOK, Working, Active
      <4>4. \A q : Ahead(q)' = Ahead(q)
        BY <4>2, <4>3 DEF Ahead
      <4>5. \A l : On(l) \subseteq Active
        BY DEF On, Ahead
      <4> QED
        BY <1>1, <4>2, <4>3, <4>4, <4>5 DEF On
    <3>1. CASE f = req[r].row /\ req[r].kind = last[Link(f)]
      BY <1>5, <2>1, <3>1
    <3>2. CASE f = req[r].row /\ req[r].kind # last[Link(f)]
      <4>1. r \in On(Link(f))
        BY <1>1, <3>2, RowsAhead DEF On
      <4> QED
        BY <2>1, <3>0, <3>2, <4>1
    <3>3. CASE f # req[r].row
      BY <1>1, <1>6, <2>1, <3>0, <3>3 DEF LinkedIffAdded
    <3> QED
      BY <3>1, <3>2, <3>3
  <2> QED
    BY <1>7, <2>3, <2>4, <2>5, <2>6
<1>9. CASE req[r].row[3] \notin Known
  <2>1. Finish(r)
    BY <1>9 DEF FirstRow
  <2>2. NextLink(r) /\ last' = [last EXCEPT ![Link(req[r].row)] = req[r].kind]
    BY <2>1 DEF Finish
  <2>3. TypeOK'
    BY <1>1, <1>2, <1>3, <1>4, <2>2, MovesOn DEF TypeOK, Working
  <2>4. r \in Active' => ~req'[r].half
    BY <1>1, <2>2, NextLinkAhead
  <2>5. HalfDone'
    BY <1>1, <1>2, <1>3, <2>4, HalfDoneKept
  <2>6. HalfKnown'
    BY <1>1, <1>3, <2>4, MovesOn DEF HalfKnown, Active
  <2>7. LinkedIffAdded'
    <3> SUFFICES ASSUME NEW f \in Rows, Link(f) \notin doubtful'
                 PROVE  \/ f \in table' <=> last'[Link(f)] = "add"
                        \/ \E q \in On(Link(f))' : req'[q].kind # last'[Link(f)]
      BY DEF LinkedIffAdded
    <3>1. CASE f = req[r].row
      BY <1>2, <1>5, <2>2, <3>1 DEF TypeOK
    <3>2. CASE f # req[r].row
      <4>1. Link(f) # Link(req[r].row)
        BY <1>9, <3>2 DEF Link
      <4>2. last'[Link(f)] = last[Link(f)]
        BY <2>2, <4>1, LinkOfRow DEF TypeOK, Links
      <4> QED
        BY <1>1, <1>3, <1>6, <3>2, <4>1, <4>2, OthersLinked
    <3> QED
      BY <3>1, <3>2
  <2> QED
    BY <1>7, <2>3, <2>5, <2>6, <2>7
<1> QED
  BY <1>8, <1>9

LEMMA MirrorRowStep ==
  ASSUME IInv, NEW r \in Requests, MirrorRow(r)
  PROVE  IInv'
<1> USE DEF IInv
<1> DEFINE entry == req[r].row
           mirror == Mirror(req[r].row)
<1>1. /\ r \in Active /\ req[r].half /\ Write(r, mirror) /\ Finish(r) /\ UNCHANGED doubtful
      /\ req[r] \in Working /\ entry \in Rows /\ entry[3] \in Known
  BY RowsAhead DEF MirrorRow, HalfKnown
<1>2. mirror \in Rows /\ Link(entry) = {entry, mirror} /\ Link(entry) \in Links
  BY <1>1, MirrorOfMirror DEF Link, Links
<1>3. NextLink(r) /\ last' = [last EXCEPT ![Link(entry)] = req[r].kind] /\ Moves(r)
  BY <1>1 DEF Finish, Moves
<1>4. TypeOK'
  BY <1>1, <1>2, <1>3, MovesOn DEF TypeOK, Working, Write
<1>5. SameKind'
  BY <1>1, <1>3, SameKindKept
<1>6. r \in Active' => ~req'[r].half
  BY <1>1, <1>3, NextLinkAhead
<1>7. HalfDone'
  BY <1>1, <1>2, <1>3, <1>6, HalfDoneKept
<1>8. HalfKnown'
  BY <1>1, <1>3, <1>6, MovesOn DEF HalfKnown, Active
<1>9. LinkedIffAdded'
  <2> SUFFICES ASSUME NEW f \in Rows, Link(f) \notin doubtful'
               PROVE  \/ f \in table' <=> last'[Link(f)] = "add"
                      \/ \E q \in On(Link(f))' : req'[q].kind # last'[Link(f)]
    BY DEF LinkedIffAdded
  <2>1. CASE f \in Link(entry)
    <3>1. Link(f) = Link(entry)
      BY <1>1, <2>1, LinkOfRow
    <3>2. last'[Link(f)] = req[r].kind
      BY <1>2, <1>3, <3>1 DEF TypeOK
    <3>3. mirror \in table' <=> req[r].kind = "add"
      BY <1>1 DEF Write, Working
    <3>4. entry \in table <=> req[r].kind = "add"
      BY <1>1, <3>1 DEF HalfDone
    <3>5. entry # mirror => (entry \in table' <=> entry \in table)
      BY <1>1 DEF Write
    <3> QED
      BY <1>2, <2>1, <3>2, <3>3, <3>4, <3>5
  <2>2. CASE f \notin Link(entry)
    <3>1. f \in Link(f) /\ Link(f) # Link(entry)
      BY <2>2 DEF Link
    <3>2. last'[Link(f)] = last[Link(f)]
      BY <1>3, <3>1, LinkOfRow DEF TypeOK, Links
    <3>3. f \in table' <=> f \in table
      BY <1>1, <1>2, <2>2 DEF Write
    <3> QED
      BY <1>1, <1>3, <3>1, <3>2, <3>3, OthersLinked
  <2> QED
    BY <2>1, <2>2
<1> QED
  BY <1>4, <1>5, <1>7, <1>8, <1>9

LEMMA StatementFailsStep ==
  ASSUME IInv, NEW r \in Requests, StatementFails(r)
  PROVE  IInv'
<1> USE DEF IInv
<1>1. /\ r \in Active /\ UNCHANGED <<table, last>>
      /\ doubtful' = doubtful \cup {Link(req[r].row)}
      /\ req[r] \in Working /\ req[r].row \in Rows
  BY RowsAhead DEF StatementFails
<1>2. Moves(r)
  BY DEF StatementFails, Moves
<1>3. TypeOK'
  BY <1>1, <1>2, MovesOn DEF TypeOK, Links
<1>4. SameKind'
  BY <1>1, <1>2, SameKindKept
<1>5. r \in Active' /\ req'[r].half =>
        req'[r].row = req[r].row /\ req[r].row[3] \in Known
  <2>1. CASE ~req[r].half /\ req[r].row[3] \in Known
    BY <1>1, <2>1 DEF StatementFails, TypeOK, Working
  <2>2. CASE ~(~req[r].half /\ req[r].row[3] \in Known)
    BY <1>1, <2>2, NextLinkAhead DEF StatementFails
  <2> QED
    BY <2>1, <2>2
<1>6. HalfKnown'
  BY <1>1, <1>2, <1>5, MovesOn DEF HalfKnown, Active
<1>7. HalfDone'
  BY <1>1, <1>2, <1>5, MovesOn DEF HalfDone, Active
<1>8. LinkedIffAdded'
  <2> SUFFICES ASSUME NEW f \in Rows, Link(f) \notin doubtful'
               PROVE  \/ f \in table' <=> last'[Link(f)] = "add"
                      \/ \E q \in On(Link(f))' : req'[q].kind # last'[Link(f)]
    BY DEF LinkedIffAdded
  <2> QED
    BY <1>1, <1>2, OthersLinked
<1> QED
  BY <1>3, <1>4, <1>6, <1>7, <1>8

-----------------------------------------------------------------------------
(* Theorems.                                                               *)

LEMMA EveryStep == IInv /\ [Next]_vars => IInv'
<1> SUFFICES ASSUME IInv, [Next]_vars PROVE IInv'
  OBVIOUS
<1>1. CASE \E r \in Requests, kind \in {"add", "remove"}, e \in Rows, more \in SUBSET Issues :
             Begin(r, kind, e, more)
  BY <1>1, BeginStep
<1>2. CASE \E r \in Requests : FirstRow(r) \/ MirrorRow(r) \/ StatementFails(r)
  BY <1>2, FirstRowStep, MirrorRowStep, StatementFailsStep
<1>3. CASE UNCHANGED vars
  <2>1. table' = table /\ req' = req /\ last' = last /\ doubtful' = doubtful
    BY <1>3 DEF vars
  <2>2. Active' = Active
    BY <2>1 DEF Active
  <2>3. \A q : Ahead(q)' = Ahead(q)
    BY <2>1, <2>2 DEF Ahead
  <2>4. \A l : On(l)' = On(l)
    BY <2>3 DEF On
  <2>5. TypeOK' /\ HalfDone' /\ HalfKnown'
    BY <2>1, <2>2 DEF IInv, TypeOK, HalfDone, HalfKnown
  <2>6. SameKind'
    BY <2>1, <2>4 DEF IInv, SameKind
  <2>7. LinkedIffAdded'
    BY <2>1, <2>4 DEF IInv, LinkedIffAdded
  <2> QED
    BY <2>5, <2>6, <2>7 DEF IInv
<1> QED
  BY <1>1, <1>2, <1>3 DEF Next

LEMMA RelationsInvariance == Spec => []IInv
<1>1. IInv /\ [Next]_vars => IInv'
  BY EveryStep
<1> QED
  BY Starts, <1>1, PTL DEF Spec

\* The table holds only rows of relations, for any overlapping and failing
\* requests (issue/actions.go:137-187).
THEOREM RelationsTypes == Spec => []TypeOK
<1>1. IInv => TypeOK
  BY DEF IInv
<1> QED
  BY RelationsInvariance, <1>1, PTL

\* Both rows of a relation follow the last request that finished on it, for any
\* issues, relation types and overlapping requests (issue/actions.go:137-187).
THEOREM LinkedAsAsked == Spec => []LinkedIffAdded
<1>1. IInv => LinkedIffAdded
  BY DEF IInv
<1> QED
  BY RelationsInvariance, <1>1, PTL
=============================================================================
