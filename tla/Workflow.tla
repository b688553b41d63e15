------------------------------ MODULE Workflow -------------------------------
(***************************************************************************)
(* The states of one project and the issues that are in them: the state    *)
(* handlers (create, mark-default, delete) and the issue handlers that     *)
(* write or test an issue's state (create, PATCH, delete, archive).  Each  *)
(* handler is a few separate statements with no transaction; requests      *)
(* interleave between them and any statement may fail.                     *)
(***************************************************************************)
EXTENDS Naturals, Sequences, FiniteSets

CONSTANTS States,      \* ids of states rows
          Foreign,     \* other ids: the triage state's, states of other projects, none
          Done,        \* those whose group is completed or cancelled
          Seeds,       \* the default states in the order they are inserted
          Issues,      \* ids of issues rows
          NoState,     \* a null state_id
          Requests     \* goroutines serving requests

ASSUME StateSets == /\ Done \subseteq States \cup Foreign /\ Seeds \in Seq(States)
                    /\ States \cap Foreign = {} /\ NoState \notin States \cup Foreign
ASSUME RequestsFinite == IsFiniteSet(Requests)

VARIABLES stateRow,   \* stateRow[s]: is the row of s absent, present or deleted?
          isDefault,  \* the present states whose is_default is true
          issueRow,   \* issueRow[i]: absent, live or soft-deleted
          stateOf,    \* stateOf[i]: state_id
          archived,   \* issues with archived_at set
          req,        \* req[r]: the handler r is in, its next statement, its locals
          doubtful    \* history: states and issues that two requests in progress
                      \* contended for, states on which a statement failed, and
                      \* deleted states that a request named

rows == <<stateRow, isDefault, issueRow, stateOf, archived>>
vars == <<rows, req, doubtful>>

\* s is the state id the request carries, todo the issue ids left to treat,
\* all the ids it was given.
Idle == [at |-> "idle", s |-> NoState, todo |-> {}, all |-> {}]
Steps == {"idle", "clear", "set", "count", "delete", "insert", "write", "check", "archive"}
StateIds == States \cup Foreign \cup {NoState}
Request == [at : Steps, s : StateIds, todo : SUBSET Issues, all : SUBSET Issues]

TypeOK == /\ stateRow \in [States -> {"absent", "present", "deleted"}]
          /\ isDefault \subseteq {s \in States : stateRow[s] = "present"}
          /\ issueRow \in [Issues -> {"absent", "live", "deleted"}]
          /\ stateOf \in [Issues -> StateIds]
          /\ archived \subseteq {i \in Issues : issueRow[i] # "absent"}
          /\ req \in [Requests -> Request]
          /\ doubtful \subseteq States \cup Issues

Present == {s \in States : stateRow[s] = "present"}
Live == {i \in Issues : issueRow[i] = "live"}

\* A state id in a request is parsed and not looked up: it may be of a state that has
\* been deleted, or of none that the project ever had.
Nameable == {s \in States : stateRow[s] # "absent"} \cup Foreign \cup {NoState}

\* project.create seeds the default states one insert at a time, stops at the
\* first that fails and ignores the error; only Seeds[1] is the default one.
Init == /\ \E n \in 0..Len(Seeds) :
             /\ stateRow = [s \in States |-> IF \E k \in 1..n : Seeds[k] = s
                                             THEN "present" ELSE "absent"]
             /\ isDefault = IF n = 0 THEN {} ELSE {Seeds[1]}
        /\ issueRow = [i \in Issues |-> "absent"]
        /\ stateOf = [i \in Issues |-> NoState]
        /\ archived = {}
        /\ req = [r \in Requests |-> Idle]
        /\ doubtful = {}

Begin(r, step, s, is) ==
  /\ req[r] = Idle
  /\ req' = [req EXCEPT ![r] = [at |-> step, s |-> s, todo |-> is, all |-> is]]

Goto(r, step) == req' = [req EXCEPT ![r].at = step]
Return(r) == req' = [req EXCEPT ![r] = Idle]

-----------------------------------------------------------------------------
(* State handlers.                                                         *)

\* create: a fresh row that is not the default; names are left out.
CreateState(s) ==
  /\ stateRow[s] = "absent"
  /\ stateRow' = [stateRow EXCEPT ![s] = "present"]
  /\ UNCHANGED <<isDefault, issueRow, stateOf, archived, req>>

\* markDefault: clear every flag of the project, then set the one of s, which
\* changes nothing when there is no such row.
BeginMarkDefault(r, s) ==
  /\ s \in Nameable \ {NoState}
  /\ Begin(r, "clear", s, {})
  /\ UNCHANGED rows

ClearDefaultStatesSkipped(r) ==
  /\ req[r].at = "clear"
  /\ Goto(r, "set")
  /\ UNCHANGED rows
ClearDefaultStates(r) ==
  /\ req[r].at = "clear"
  /\ isDefault' = {}
  /\ Goto(r, "set")
  /\ UNCHANGED <<stateRow, issueRow, stateOf, archived>>

SetDefaultState(r) ==
  /\ req[r].at = "set"
  /\ isDefault' = isDefault \cup ({req[r].s} \cap Present)
  /\ Return(r)
  /\ UNCHANGED <<stateRow, issueRow, stateOf, archived>>

\* destroy: refuses the default state, then a state with live issues.
BeginDestroy(r, s) ==
  /\ stateRow[s] = "present" /\ s \notin isDefault
  /\ Begin(r, "count", s, {})
  /\ UNCHANGED rows

CountIssuesByStateArchivedOut(s) == {i \in Live \ archived : stateOf[i] = s}
CountIssuesByState(s) == {i \in Live : stateOf[i] = s}

CountIssues(r) ==
  /\ req[r].at = "count"
  /\ IF CountIssuesByState(req[r].s) = {} THEN Goto(r, "delete") ELSE Return(r)
  /\ UNCHANGED rows

DeleteState(r) ==
  /\ req[r].at = "delete"
  /\ stateRow' = [stateRow EXCEPT ![req[r].s] = "deleted"]
  /\ isDefault' = isDefault \ {req[r].s}
  /\ Return(r)
  /\ UNCHANGED <<issueRow, stateOf, archived>>

-----------------------------------------------------------------------------
(* Issue handlers.                                                         *)

\* create, and the promotion of a draft with its stored state: the row comes later, after
\* the sequence number has been read.
BeginCreate(r, i, s) ==
  /\ issueRow[i] = "absent"
  /\ \A q \in Requests : i \notin req[q].all
  /\ s \in Nameable
  /\ Begin(r, "insert", s, {i})
  /\ UNCHANGED rows

CreateIssue(r) ==
  /\ req[r].at = "insert"
  /\ \E i \in req[r].all : /\ issueRow' = [issueRow EXCEPT ![i] = "live"]
                           /\ stateOf' = [stateOf EXCEPT ![i] = req[r].s]
  /\ Return(r)
  /\ UNCHANGED <<stateRow, isDefault, archived>>

\* PATCH: reads the issue, then writes all of its columns back.  With no state
\* in the body it writes the state it has read; an id that does not parse
\* writes null.
BeginUpdate(r, i, s) ==
  /\ i \in Live
  /\ s \in Nameable \cup {stateOf[i]}
  /\ Begin(r, "write", s, {i})
  /\ UNCHANGED rows

UpdateIssue(r) ==
  /\ req[r].at = "write"
  /\ stateOf' = [i \in Issues |-> IF i \in req[r].all \cap Live THEN req[r].s ELSE stateOf[i]]
  /\ Return(r)
  /\ UNCHANGED <<stateRow, isDefault, issueRow, archived>>

\* destroy and bulkDelete are one statement each.
DeleteIssues(is) ==
  /\ is # {} /\ is \subseteq Live
  /\ issueRow' = [i \in Issues |-> IF i \in is THEN "deleted" ELSE issueRow[i]]
  /\ UNCHANGED <<stateRow, isDefault, stateOf, archived, req>>

\* archive and bulkArchive: test the state group of every issue, one query
\* each, then archive them one by one.
BeginArchive(r, is) ==
  /\ is # {}
  /\ \A i \in is : issueRow[i] # "absent"
  /\ Begin(r, "check", NoState, is)
  /\ UNCHANGED rows

\* The group is the state row's, of whatever project; a null state, or one whose row is
\* gone, counts as backlog.
Archivable(i) == stateOf[i] \in Done \cap (Present \cup Foreign)

CheckGroupOfOneIssue(r, i) ==
  /\ req[r].at = "check" /\ i \in req[r].todo
  /\ IF ~Archivable(i) THEN Return(r)
     ELSE req' = [req EXCEPT ![r].todo = req[r].all, ![r].at = "archive"]
  /\ UNCHANGED rows
CheckGroup(r, i) ==
  /\ req[r].at = "check" /\ i \in req[r].todo
  /\ IF ~Archivable(i) THEN Return(r)
     ELSE req' = [req EXCEPT ![r].todo = IF @ = {i} THEN req[r].all ELSE @ \ {i},
                             ![r].at = IF req[r].todo = {i} THEN "archive" ELSE @]
  /\ UNCHANGED rows

DoneWith(r, i) == IF req[r].todo = {i} THEN Return(r)
                  ELSE req' = [req EXCEPT ![r].todo = @ \ {i}]

ArchiveIssue(r, i) ==
  /\ req[r].at = "archive" /\ i \in req[r].todo
  /\ archived' = archived \cup {i}
  /\ DoneWith(r, i)
  /\ UNCHANGED <<stateRow, isDefault, issueRow, stateOf>>

UnarchiveIssue(i) ==
  /\ i \in archived
  /\ archived' = archived \ {i}
  /\ UNCHANGED <<stateRow, isDefault, issueRow, stateOf, req>>

\* A statement that fails changes no row.  markDefault, destroy's count and the
\* archives drop the error and go on; the count then reads as zero, the group
\* of an issue as none.  The other handlers answer 500.
StatementFails(r) ==
  /\ req[r] # Idle
  /\ \/ req[r].at = "clear" /\ Goto(r, "set")
     \/ req[r].at = "count" /\ Goto(r, "delete")
     \/ req[r].at = "archive" /\ \E i \in req[r].todo : DoneWith(r, i)
     \/ req[r].at \in {"set", "delete", "insert", "write", "check"} /\ Return(r)
  /\ UNCHANGED rows

-----------------------------------------------------------------------------
(* What two requests in progress contend for.                              *)

Marking == {r \in Requests : req[r].at \in {"clear", "set"}}
Destroying == {r \in Requests : req[r].at \in {"count", "delete"}}
Writing == {r \in Requests : req[r].at \in {"insert", "write"}}
Archiving == {r \in Requests : req[r].at \in {"check", "archive"}}

\* The states of two mark-defaults, a state that one request deletes while
\* another carries its id, or that an issue is written with when it is gone, and
\* an issue that leaves its state, or whose state leaves, while it is being
\* archived.
Contended ==
  {s \in States : \/ \E r, q \in Marking : r # q /\ req[r].s = s
                  \/ \E r \in Destroying, q \in Marking \cup Writing :
                       req[r].s = s /\ req[q].s = s
                  \/ s \notin Present /\ \E r \in Writing : req[r].s = s}
  \cup {i \in Issues : \E r \in Archiving :
          /\ i \in req[r].all
          /\ \/ \E q \in Writing : i \in req[q].all
             \/ \E q \in Destroying : req[q].s = stateOf[i]}

\* A doubt is over with the archiving of its issue, and for a state when it is
\* neither deleted nor the default and no request carries it.
Open == {i \in Issues : \E r \in Archiving : i \in req[r].all}
        \cup {s \in States : s \notin Present \ isDefault \/ \E r \in Requests : req[r].s = s}
Doubt(more) == doubtful' = (doubtful \cup more \cup Contended') \cap Open'

-----------------------------------------------------------------------------
StateStep == \/ \E s \in States : CreateState(s)
             \/ \E r \in Requests, s \in States \cup Foreign : BeginMarkDefault(r, s)
             \/ \E r \in Requests, s \in States : BeginDestroy(r, s)
             \/ \E r \in Requests : \/ ClearDefaultStates(r) \/ SetDefaultState(r)
                                    \/ CountIssues(r) \/ DeleteState(r)

IssueStep == \/ \E r \in Requests, i \in Issues, s \in StateIds :
                  BeginCreate(r, i, s) \/ BeginUpdate(r, i, s)
             \/ \E r \in Requests : CreateIssue(r) \/ UpdateIssue(r)
             \/ \E r \in Requests, is \in SUBSET Issues : BeginArchive(r, is)
             \/ \E r \in Requests, i \in Issues : CheckGroup(r, i) \/ ArchiveIssue(r, i)
             \/ \E is \in SUBSET Issues : DeleteIssues(is)
             \/ \E i \in Issues : UnarchiveIssue(i)

Next == \/ (StateStep \/ IssueStep) /\ Doubt({})
        \/ \E r \in Requests : StatementFails(r) /\ Doubt({req[r].s})

Spec == Init /\ [][Next]_vars

-----------------------------------------------------------------------------
(* Properties.                                                             *)

\* A delete leaves no live issue in the state (destroy counts them first,
\* state/handlers.go:251), unless the count failed or a request with the state's id was
\* in progress at the same time.  Afterwards an issue gets into the deleted state, or into
\* one of another project, by being written with its id only.
IssuesHaveStates ==
  \A i \in Live : stateOf[i] \in Present \cup {NoState} \cup Foreign \cup doubtful

\* A second default state takes two mark-defaults that overlap, or one whose
\* clearing statement failed.
DefaultsBounded == Cardinality(isDefault \ doubtful) <= 1

\* An issue becomes archived only out of a completed or cancelled state ("Can
\* only archive completed or cancelled state group issue", actions.go:49), with
\* bulkArchive all of them or none, unless a PATCH or the delete of its state
\* was in progress at the same time.
ArchivesOnlyDone ==
  [][\A i \in archived' \ archived : Archivable(i) \/ i \in doubtful]_vars

\* Deleting the default state is refused (state/handlers.go:248), unless it is
\* being made the default at the same time.
DefaultNeverDeleted == [][\A s \in Present \ Present' : s \notin isDefault \ doubtful]_vars

\* The types, and what no overlap of mark-defaults changes, in one invariant.
WorkflowInv == TypeOK /\ DefaultsBounded

\* A check of a state before its issue is archived, or before it is deleted, holds
\* when the statement comes, but for the overlaps named above.
GuardsHold == ArchivesOnlyDone /\ DefaultNeverDeleted
=============================================================================
