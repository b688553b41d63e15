------------------------------- MODULE Intake --------------------------------
(***************************************************************************)
(* The triage inbox of one project.  Every intake handler first makes sure *)
(* that the project has an intake (ensureIntake, three statements), then    *)
(* works on an intake_issues row and on the issue under it, one statement   *)
(* each.  issue.update and issue.destroy run beside them, the project may   *)
(* be renamed at any time, and any statement may fail.                      *)
(***************************************************************************)
EXTENDS Naturals, Sequences, FiniteSets, SequencesExt

CONSTANTS Issues,     \* ids of issues, each created by one POST on the inbox
          Names,      \* names the project has had
          NoName,     \* the empty name that a failed read leaves
          Requests    \* goroutines serving requests

ASSUME NamesReal == NoName \notin Names
ASSUME RequestsFinite == IsFiniteSet(Requests)

\* The statuses -2 and 1, and one for -1, 0 and 2, which are treated alike.
Statuses == {"pending", "closed", "accepted"}

VARIABLES intakes,   \* rows of intakes by created_at; (project, name) is unique
          item,      \* item[i]: the intake_issues row of issue i, or NoItem
          issueRow,  \* issueRow[i]: absent, live or soft-deleted
          stateOf,   \* stateOf[i]: in triage or in a state of the workflow
          req,       \* req[r]: the handler r is in, its next statement, its locals
          fault,     \* history: a statement failed or found no default state
          seen,      \* history: the names that first accesses have read
          lost,      \* history: the issues that a PATCH has put back into triage
          crossed    \* history: an item's status changed while it was being deleted

rows == <<intakes, item, issueRow, stateOf>>
history == <<fault, seen, lost, crossed>>
vars == <<rows, req, history>>

Intakes == Names \cup {NoName}
NoItem == [intake |-> NoName, status |-> "none"]
Items == [intake : Intakes, status : Statuses] \cup {NoItem}
Idle == [op |-> "idle", at |-> "idle", i |-> "none", status |-> "none",
         intake |-> NoName, state |-> "none"]
Ops == {"idle", "read", "create", "triage", "destroy", "patch"}
Steps == {"idle", "ensure", "name", "insert_intake", "work", "row", "write", "default",
          "move", "soft_delete", "unlist"}
Request == [op : Ops, at : Steps, i : Issues \cup {"none"}, status : Statuses \cup {"none"},
            intake : Intakes, state : {"none", "triage", "workflow"}]

TypeOK == /\ intakes \in Seq(Intakes) /\ IsInjective(intakes)
          /\ item \in [Issues -> Items]
          /\ issueRow \in [Issues -> {"absent", "live", "deleted"}]
          /\ stateOf \in [Issues -> {"triage", "workflow"}]
          /\ req \in [Requests -> Request]
          /\ fault \in BOOLEAN /\ seen \subseteq Intakes /\ lost \subseteq Issues /\ crossed \in BOOLEAN

Init == /\ intakes = <<>>
        /\ item = [i \in Issues |-> NoItem]
        /\ issueRow = [i \in Issues |-> "absent"]
        /\ stateOf = [i \in Issues |-> "triage"]
        /\ req = [r \in Requests |-> Idle]
        /\ fault = FALSE /\ seen = {} /\ lost = {} /\ crossed = FALSE

Goto(r, step) == req' = [req EXCEPT ![r].at = step]
Return(r) == req' = [req EXCEPT ![r] = Idle]
On(i) == {r \in Requests : req[r].i = i}

-----------------------------------------------------------------------------
(* The requests, and ensureIntake.                                         *)

\* GET, POST, PATCH with or without a status, and DELETE on the inbox.
Begin(r, op, i, status) ==
  /\ req[r] = Idle
  /\ \/ op = "read" /\ i = "none" /\ status = "none"
     \/ op = "create" /\ i \in Issues /\ issueRow[i] = "absent" /\ On(i) = {} /\ status = "none"
     \/ op = "triage" /\ i \in Issues /\ issueRow[i] # "absent" /\ status \in Statuses \cup {"none"}
     \/ op = "destroy" /\ i \in Issues /\ issueRow[i] # "absent" /\ status = "none"
  /\ req' = [req EXCEPT ![r] = [Idle EXCEPT !.op = op, !.at = "ensure", !.i = i, !.status = status]]
  /\ UNCHANGED <<rows, history>>

\* select ... order by created_at limit 1
FindIntake(r) ==
  /\ req[r].at = "ensure"
  /\ IF intakes = <<>> THEN Goto(r, "name")
     ELSE req' = [req EXCEPT ![r].at = "work", ![r].intake = Head(intakes)]
  /\ UNCHANGED <<rows, history>>

ReadNamePerActor(r) ==
  /\ req[r].at = "name"
  /\ \E n, k \in Intakes : /\ req' = [req EXCEPT ![r].at = "insert_intake", ![r].intake = k]
                            /\ seen' = seen \cup {n}
  /\ UNCHANGED <<rows, fault, lost, crossed>>
\* The name of the moment; the error of the read is dropped and leaves none.
ReadName(r) ==
  /\ req[r].at = "name"
  /\ \E n \in Intakes : /\ req' = [req EXCEPT ![r].at = "insert_intake", ![r].intake = n]
                         /\ seen' = seen \cup {n}
  /\ UNCHANGED <<rows, fault, lost, crossed>>

\* The unique (project_id, name) refuses a second row of the same name.
InsertIntake(r) ==
  /\ req[r].at = "insert_intake"
  /\ IF Contains(intakes, req[r].intake) THEN Return(r) /\ UNCHANGED intakes
     ELSE intakes' = Append(intakes, req[r].intake) /\ Goto(r, "work")
  /\ UNCHANGED <<item, issueRow, stateOf, history>>

-----------------------------------------------------------------------------
(* What each handler does with the intake.                                 *)

FinishRead(r) ==
  /\ req[r].at = "work" /\ req[r].op = "read"
  /\ Return(r)
  /\ UNCHANGED <<rows, history>>

\* createIssue: the issue in the triage state, then its row in the inbox.
InsertIssue(r) ==
  /\ req[r].at = "work" /\ req[r].op = "create"
  /\ issueRow' = [issueRow EXCEPT ![req[r].i] = "live"]
  /\ Goto(r, "row")
  /\ UNCHANGED <<intakes, item, stateOf, history>>

InsertItem(r) ==
  /\ req[r].at = "row"
  /\ item' = [item EXCEPT ![req[r].i] = [intake |-> req[r].intake, status |-> "pending"]]
  /\ Return(r)
  /\ UNCHANGED <<intakes, issueRow, stateOf, history>>

\* findIntakeIssue looks only in the intake that ensureIntake returned.
Listed(i, k) == item[i] # NoItem /\ item[i].intake = k

FindItem(r) ==
  /\ req[r].at = "work" /\ req[r].op = "triage"
  /\ IF Listed(req[r].i, req[r].intake) THEN Goto(r, "write") ELSE Return(r)
  /\ UNCHANGED <<rows, history>>

\* update intake_issues where id = $1: any status to any other, and nothing
\* when the row is gone.  Only an accepting PATCH goes on.
DeletesOf(i) == {q \in On(i) : req[q].at \in {"soft_delete", "unlist"}}
SetStatus(i, s) == item' = IF s = "none" \/ item[i] = NoItem THEN item
                           ELSE [item EXCEPT ![i].status = s]

WriteStatusNoMove(r) ==
  /\ req[r].op = "triage" /\ req[r].at = "write"
  /\ SetStatus(req[r].i, req[r].status)
  /\ crossed' = (crossed \/ DeletesOf(req[r].i) # {})
  /\ IF req[r].status = "accepted" /\ item[req[r].i].status = "closed"
     THEN Goto(r, "default") ELSE Return(r)
  /\ UNCHANGED <<intakes, issueRow, stateOf, fault, seen, lost>>
WriteStatus(r) ==
  /\ req[r].op = "triage" /\ req[r].at = "write"
  /\ SetStatus(req[r].i, req[r].status)
  /\ crossed' = (crossed \/ DeletesOf(req[r].i) # {})
  /\ IF req[r].status = "accepted" THEN Goto(r, "default") ELSE Return(r)
  /\ UNCHANGED <<intakes, issueRow, stateOf, fault, seen, lost>>

FindDefault(r) ==
  /\ req[r].at = "default"
  /\ Goto(r, "move")
  /\ UNCHANGED <<rows, history>>

MoveIssue(r) ==
  /\ req[r].at = "move"
  /\ stateOf' = [stateOf EXCEPT ![req[r].i] = "workflow"]
  /\ lost' = lost \ {req[r].i}
  /\ Return(r)
  /\ UNCHANGED <<intakes, item, issueRow, fault, seen, crossed>>

\* destroyIssue: reads the status; takes the issue along unless it was accepted.
FindItemStatusAnyStatus(r) ==
  /\ req[r].at = "work" /\ req[r].op = "destroy"
  /\ IF Listed(req[r].i, req[r].intake) THEN Goto(r, "soft_delete") ELSE Return(r)
  /\ UNCHANGED <<rows, history>>
FindItemStatus(r) ==
  /\ req[r].at = "work" /\ req[r].op = "destroy"
  /\ IF ~Listed(req[r].i, req[r].intake) THEN Return(r)
     ELSE Goto(r, IF item[req[r].i].status = "accepted" THEN "unlist" ELSE "soft_delete")
  /\ UNCHANGED <<rows, history>>

SoftDeleteIssue(r) ==
  /\ req[r].at = "soft_delete"
  /\ issueRow' = [issueRow EXCEPT ![req[r].i] = "deleted"]
  /\ Goto(r, "unlist")
  /\ UNCHANGED <<intakes, item, stateOf, history>>

DeleteItem(r) ==
  /\ req[r].at = "unlist"
  /\ item' = [item EXCEPT ![req[r].i] = NoItem]
  /\ Return(r)
  /\ UNCHANGED <<intakes, issueRow, stateOf, history>>

-----------------------------------------------------------------------------
(* Beside the inbox.                                                       *)

\* issue.update reads the issue, then writes all columns back; without a state
\* in the body the one it has read.  Any state may be named, that of the triage
\* too: GET intake-state hands out its id.
BeginPatch(r, i, s) ==
  /\ req[r] = Idle
  /\ issueRow[i] = "live" /\ s \in {"triage", "workflow"}
  /\ req' = [req EXCEPT ![r] = [Idle EXCEPT !.op = "patch", !.at = "write", !.i = i, !.state = s]]
  /\ UNCHANGED <<rows, history>>

WritePatch(r) ==
  /\ req[r].op = "patch" /\ req[r].at = "write"
  /\ LET i == req[r].i
         new == IF issueRow[i] = "live" THEN req[r].state ELSE stateOf[i]
     IN /\ stateOf' = [stateOf EXCEPT ![i] = new]
        /\ lost' = IF new = stateOf[i] THEN lost
                   ELSE IF new = "triage" THEN lost \cup {i} ELSE lost \ {i}
  /\ Return(r)
  /\ UNCHANGED <<intakes, item, issueRow, fault, seen, crossed>>

DestroyIssue(i) ==
  /\ issueRow[i] = "live"
  /\ issueRow' = [issueRow EXCEPT ![i] = "deleted"]
  /\ UNCHANGED <<intakes, item, stateOf, req, history>>

\* A failing statement changes no row.  The move of an accepted issue and the
\* soft delete drop the error, a failing read of the default state is taken
\* for none; everything else answers an error.
StatementFails(r) ==
  /\ req[r] # Idle /\ req[r].at # "name"
  /\ fault' = TRUE
  /\ IF req[r].at = "soft_delete" THEN Goto(r, "unlist") ELSE Return(r)
  /\ UNCHANGED <<rows, seen, lost, crossed>>

-----------------------------------------------------------------------------
Ensuring == \E r \in Requests : FindIntake(r) \/ ReadName(r) \/ InsertIntake(r)
Handling == \E r \in Requests :
              \/ FinishRead(r) \/ InsertIssue(r) \/ InsertItem(r)
              \/ FindItem(r) \/ WriteStatus(r) \/ FindDefault(r) \/ MoveIssue(r)
              \/ FindItemStatus(r) \/ SoftDeleteIssue(r) \/ DeleteItem(r)
              \/ WritePatch(r) \/ StatementFails(r)
Arriving == \/ \E r \in Requests, op \in Ops, i \in Issues \cup {"none"},
                  s \in Statuses \cup {"none"} : Begin(r, op, i, s)
            \/ \E r \in Requests, i \in Issues, s \in {"triage", "workflow"} : BeginPatch(r, i, s)
            \/ \E i \in Issues : DestroyIssue(i)

Next == Ensuring \/ Handling \/ Arriving

Spec == Init /\ [][Next]_vars

-----------------------------------------------------------------------------
(* Properties.                                                             *)

Settled(i) == On(i) = {}

\* However many requests are the first, they agree on one inbox and every item
\* is in the one later requests look in, as long as they have read the same name:
\* only a rename or a failing read between them hides items in a second inbox.
ItemsInOneInbox ==
  Cardinality(seen) <= 1 =>
    \A i \in Issues : item[i] # NoItem => item[i].intake = Head(intakes)

\* "PATCH status=1 (accept) moves the issue out of TRIAGE" (intake/handlers.go:16):
\* an accepted item's issue is out of triage, whatever overlaps with the acceptance,
\* unless an issue PATCH has put it back, with the triage state's id or with the state
\* it read before the issue was moved.
AcceptedOutOfTriage ==
  \A i \in Issues \ lost : item[i].status = "accepted" /\ Settled(i) /\ ~fault
                             => stateOf[i] = "workflow"

\* The handlers of the inbox leave no live issue in limbo, in triage but on no list,
\* once the requests on it are done; only an issue PATCH that puts it back into triage
\* does.
TriageListed ==
  \A i \in Issues \ lost : issueRow[i] = "live" /\ stateOf[i] = "triage" /\ Settled(i)
                               /\ ~fault
                             => item[i] # NoItem

\* Deleting an item takes the issue along only if it is not accepted
\* (handlers.go:431), unless its status changes while it is being deleted.
DeleteSparesAccepted ==
  [][\A i \in Issues : issueRow[i] = "live" /\ issueRow'[i] = "deleted" /\ req' # req /\ ~crossed
                       => item[i].status # "accepted"]_vars

\* The types, with one inbox for all items and every issue in triage on its list.
IntakeInv == TypeOK /\ ItemsInOneInbox /\ TriageListed
=============================================================================
