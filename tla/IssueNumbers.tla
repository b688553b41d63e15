---------------------------- MODULE IssueNumbers -----------------------------
(***************************************************************************)
(* How the issues of one project get their sequence_id.  Three handlers    *)
(* create issues: issue.create, intake.createIssue and the promotion of a  *)
(* draft.  Each reads the highest number in use in one statement and       *)
(* inserts its row in a later one, with no transaction around them, so     *)
(* requests interleave between the two.  Any statement may fail.           *)
(***************************************************************************)
EXTENDS Integers, FiniteSets

CONSTANTS Creates,     \* requests of issue.create
          Intakes,     \* requests of intake.createIssue
          Promotions,  \* requests of draftToIssue
          Drafts,      \* draft issues of the project
          NoDraft

Creations == Creates \cup Intakes \cup Promotions

ASSUME CreationsFinite == IsFiniteSet(Creations)
ASSUME RoutesDisjoint == /\ Creates \cap Intakes = {}
                         /\ Creates \cap Promotions = {}
                         /\ Intakes \cap Promotions = {}
ASSUME NoDraftIsNone == NoDraft \notin Drafts

VARIABLES pc,       \* pc[r]: the next statement of request r
          number,   \* number[r]: the sequence number r has read (its local seq)
          row,      \* row[r]: the issue r inserted: none, live or soft-deleted
          draftOf,  \* draftOf[r]: the draft a promotion has loaded
          drafts,   \* rows of draft_issues
          queued,   \* requests whose issue has its intake_issues row
          older,    \* history: the issues that existed when r read its number
          discarded \* history: drafts deleted by their owner

numberVars == <<pc, number, row, draftOf, drafts, queued, older, discarded>>

Steps == {"start", "read", "insert", "follow_up", "done", "failed"}

NumbersOK == /\ pc \in [Creations -> Steps]
             /\ number \in [Creations -> Nat]
             /\ row \in [Creations -> {"none", "live", "deleted"}]
             /\ draftOf \in [Creations -> Drafts \cup {NoDraft}]
             /\ drafts \subseteq Drafts
             /\ queued \subseteq Intakes
             /\ older \in [Creations -> SUBSET Creations]
             /\ discarded \subseteq Drafts

\* An issue is named by the request that inserted it; deleted rows stay.
Inserted == {r \in Creations : row[r] # "none"}

NumbersInit == /\ pc = [r \in Creations |-> "start"]
               /\ number = [r \in Creations |-> 0]
               /\ row = [r \in Creations |-> "none"]
               /\ draftOf = [r \in Creations |-> NoDraft]
               /\ drafts = Drafts
               /\ queued = {}
               /\ older = [r \in Creations |-> {}]
               /\ discarded = {}

Goto(r, step) == pc' = [pc EXCEPT ![r] = step]

-----------------------------------------------------------------------------
\* scope, validation and, for the intake, ensureIntake.
Prepare(r) ==
  /\ r \in Creates \cup Intakes
  /\ pc[r] = "start"
  /\ Goto(r, "read")
  /\ UNCHANGED <<number, row, draftOf, drafts, queued, older, discarded>>

\* draftToIssue loads the draft; one that is gone is a 404.
LoadDraft(r, d) ==
  /\ r \in Promotions
  /\ pc[r] = "start"
  /\ IF d \in drafts
     THEN Goto(r, "read") /\ draftOf' = [draftOf EXCEPT ![r] = d]
     ELSE Goto(r, "failed") /\ UNCHANGED draftOf
  /\ UNCHANGED <<number, row, drafts, queued, older, discarded>>

\* coalesce(max(sequence_id), 0) + 1 over every issue of the project, the
\* soft-deleted ones included.
NumbersIn(rows) == {number[r] : r \in rows}
NextOf(numbers) == IF numbers = {} THEN 1
                   ELSE 1 + CHOOSE n \in numbers : \A m \in numbers : m <= n
NextIssueSequenceLiveOnly == NextOf(NumbersIn({r \in Creations : row[r] = "live"}))
NextIssueSequenceByCount == 1 + Cardinality(Inserted)
NextIssueSequence == NextOf(NumbersIn(Inserted))

ReadNumber(r) ==
  /\ pc[r] = "read"
  /\ number' = [number EXCEPT ![r] = NextIssueSequence]
  /\ older' = [older EXCEPT ![r] = Inserted]
  /\ Goto(r, "insert")
  /\ UNCHANGED <<row, draftOf, drafts, queued, discarded>>

\* issue.create answers 500; the other two drop the error and keep seq = 0.
ReadFails(r) ==
  /\ pc[r] = "read"
  /\ Goto(r, IF r \in Creates THEN "failed" ELSE "insert")
  /\ UNCHANGED <<number, row, draftOf, drafts, queued, older, discarded>>

Insert(r) ==
  /\ pc[r] = "insert"
  /\ row' = [row EXCEPT ![r] = "live"]
  /\ Goto(r, IF r \in Creates THEN "done" ELSE "follow_up")
  /\ UNCHANGED <<number, draftOf, drafts, queued, older, discarded>>

InsertFailsUnchecked(r) ==
  /\ pc[r] = "insert"
  /\ Goto(r, IF r \in Promotions THEN "follow_up" ELSE "failed")
  /\ UNCHANGED <<number, row, draftOf, drafts, queued, older, discarded>>
InsertFails(r) ==
  /\ pc[r] = "insert"
  /\ Goto(r, "failed")
  /\ UNCHANGED <<number, row, draftOf, drafts, queued, older, discarded>>

InsertIntakeRowAnyRoute(r) ==
  /\ pc[r] = "follow_up"
  /\ queued' = queued \cup {r}
  /\ Goto(r, "done")
  /\ UNCHANGED <<number, row, draftOf, drafts, older, discarded>>
InsertIntakeRow(r) ==
  /\ r \in Intakes
  /\ pc[r] = "follow_up"
  /\ queued' = queued \cup {r}
  /\ Goto(r, "done")
  /\ UNCHANGED <<number, row, draftOf, drafts, older, discarded>>

ConsumeDraft(r) ==
  /\ r \in Promotions
  /\ pc[r] = "follow_up"
  /\ drafts' = drafts \ {draftOf[r]}
  /\ Goto(r, "done")
  /\ UNCHANGED <<number, row, draftOf, queued, older, discarded>>

\* The intake answers 500 and leaves the issue behind; the promotion ignores
\* the error of its delete and answers 201.
FollowUpFails(r) ==
  /\ pc[r] = "follow_up"
  /\ Goto(r, IF r \in Intakes THEN "failed" ELSE "done")
  /\ UNCHANGED <<number, row, draftOf, drafts, queued, older, discarded>>

\* SoftDeleteIssue and the delete of a draft by its owner, both one statement.
Destroy(r) ==
  /\ row[r] = "live"
  /\ row' = [row EXCEPT ![r] = "deleted"]
  /\ UNCHANGED <<pc, number, draftOf, drafts, queued, older, discarded>>

DestroyDraft(d) ==
  /\ d \in drafts
  /\ drafts' = drafts \ {d}
  /\ discarded' = discarded \cup {d}
  /\ UNCHANGED <<pc, number, row, draftOf, queued, older>>

-----------------------------------------------------------------------------
Create(r) == \/ Prepare(r) \/ (\E d \in Drafts : LoadDraft(r, d))
             \/ ReadNumber(r) \/ ReadFails(r)
             \/ Insert(r) \/ InsertFails(r)
             \/ InsertIntakeRow(r) \/ ConsumeDraft(r) \/ FollowUpFails(r)

NumbersNext == \/ \E r \in Creations : Create(r) \/ Destroy(r)
               \/ \E d \in Drafts : DestroyDraft(d)

NumbersSpec == NumbersInit /\ [][NumbersNext]_numberVars

-----------------------------------------------------------------------------
(* Properties.                                                             *)

\* Apart from the 0 of a failed read, the numbers of a project have no gap and
\* none is skipped, however creations interleave, fail or get deleted.
NumbersDense == \A r \in Inserted : 1..number[r] \subseteq NumbersIn(Inserted)

\* An issue whose creation read its number after another one was inserted gets
\* a larger number than that one, whether or not it was deleted meanwhile: a
\* number is never used again, and only overlapping creations share one.
NumbersFollowTime ==
  \A r \in Inserted : number[r] # 0 => \A o \in older[r] : number[o] < number[r]

\* A draft leaves the table only by its owner's delete or once an issue made
\* from it exists, so a failing promotion never loses the user's text.
NoDraftLost ==
  \A d \in Drafts \ drafts : d \in discarded \/ \E r \in Inserted : draftOf[r] = d

=============================================================================
