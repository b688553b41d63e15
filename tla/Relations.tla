------------------------------ MODULE Relations ------------------------------
(***************************************************************************)
(* The relations between issues.  A relation is kept as two rows of        *)
(* issue_relations, one on either issue, with inverse types.  addRelation  *)
(* and removeRelation write the two in separate statements, drop their     *)
(* errors, and overlap with one another.                                   *)
(***************************************************************************)
EXTENDS Naturals, FiniteSets

CONSTANTS Issues,   \* ids of issues
          Types,    \* relation types that clients send
          Requests  \* the requests that arrive, each served once

\* A type without an inverse is stored on one side only.
relationInverse == [ blocking |-> "blocked_by", blocked_by |-> "blocking",
                     duplicate |-> "duplicate", relates_to |-> "relates_to",
                     start_after |-> "start_before", start_before |-> "start_after",
                     finish_after |-> "finish_before", finish_before |-> "finish_after" ]

Known == DOMAIN relationInverse
Inverse(t) == IF t \in Known THEN relationInverse[t] ELSE ""

ASSUME TypesClosed == \A t \in Types \cap Known : relationInverse[t] \in Types

Rows == Issues \X Issues \X Types

\* The row on the other issue, and the one or two rows of a relation.
Mirror(e) == <<e[2], e[1], Inverse(e[3])>>
Link(e) == IF e[3] \in Known THEN {e, Mirror(e)} ELSE {e}
Links == {Link(e) : e \in Rows}

VARIABLES table,    \* rows of issue_relations; the unique index makes it a set
          req,      \* req[r]: what request r is doing
          last,     \* history: last[l]: the kind of request that last finished on l
          doubtful  \* history: links on which an add met a remove or a statement failed

vars == <<table, req, last, doubtful>>

\* kind: the handler; row: the row it is at; half: its first statement is done;
\* todo: the related issues still to come.
New == [kind |-> "new"]
Done == [kind |-> "done"]
Working == [kind : {"add", "remove"}, row : Rows, half : BOOLEAN, todo : SUBSET Issues]

TypeOK == /\ table \subseteq Rows
          /\ req \in [Requests -> Working \cup {New, Done}]
          /\ last \in [Links -> {"add", "remove"}]
          /\ doubtful \subseteq Links

\* The table as earlier requests have left it.
Init == \E there \in SUBSET Links :
          /\ table = UNION there
          /\ req = [r \in Requests |-> New]
          /\ last = [l \in Links |-> IF l \in there THEN "add" ELSE "remove"]
          /\ doubtful = {}

\* Requests at work on link l, or with it still before them.
Active == {r \in Requests : req[r] \notin {New, Done}}
Ahead(r) == IF r \notin Active THEN {}
            ELSE {Link(req[r].row)}
                 \cup {Link(<<req[r].row[1], b, req[r].row[3]>>) : b \in req[r].todo}
On(l) == {r \in Requests : l \in Ahead(r)}

-----------------------------------------------------------------------------
\* addRelation takes a list of issues, removeRelation a single one.
Begin(r, kind, e, more) ==
  /\ req[r] = New
  /\ kind = "remove" => more = {}
  /\ req' = [req EXCEPT ![r] = [kind |-> kind, row |-> e, half |-> FALSE, todo |-> more]]
  /\ doubtful' = doubtful \cup
       {l \in {Link(<<e[1], b, e[3]>>) : b \in more \cup {e[2]}} :
          \E q \in On(l) : req[q].kind # kind}
  /\ UNCHANGED <<table, last>>

\* After the last statement on a link: the next issue of the list, or 201/204.
NextLink(r) ==
  IF req[r].todo = {} THEN req' = [req EXCEPT ![r] = Done]
  ELSE \E b \in req[r].todo :
         req' = [req EXCEPT ![r].row = <<@[1], b, @[3]>>, ![r].half = FALSE, ![r].todo = @ \ {b}]

\* One statement: insert ... on conflict do nothing, or delete.
Write(r, e) == table' = IF req[r].kind = "add" THEN table \cup {e} ELSE table \ {e}

\* The request is done with its link.
Finish(r) == /\ last' = [last EXCEPT ![Link(req[r].row)] = req[r].kind]
             /\ NextLink(r)

FirstRowUnlisted(r) ==
  /\ r \in Active /\ ~req[r].half
  /\ Write(r, req[r].row)
  /\ req' = [req EXCEPT ![r].half = TRUE]
  /\ UNCHANGED <<last, doubtful>>
FirstRow(r) ==
  /\ r \in Active /\ ~req[r].half
  /\ Write(r, req[r].row)
  /\ IF req[r].row[3] \in Known THEN req' = [req EXCEPT ![r].half = TRUE] /\ UNCHANGED last
     ELSE Finish(r)
  /\ UNCHANGED doubtful

MirrorRowSameType(r) ==
  /\ r \in Active /\ req[r].half
  /\ Write(r, <<req[r].row[2], req[r].row[1], req[r].row[3]>>)
  /\ Finish(r)
  /\ UNCHANGED doubtful
MirrorRow(r) ==
  /\ r \in Active /\ req[r].half
  /\ Write(r, Mirror(req[r].row))
  /\ Finish(r)
  /\ UNCHANGED doubtful

\* The error is dropped and the handler goes on to the next statement.
StatementFails(r) ==
  /\ r \in Active
  /\ doubtful' = doubtful \cup {Link(req[r].row)}
  /\ IF ~req[r].half /\ req[r].row[3] \in Known
     THEN req' = [req EXCEPT ![r].half = TRUE] ELSE NextLink(r)
  /\ UNCHANGED <<table, last>>

-----------------------------------------------------------------------------
Next == \/ \E r \in Requests, kind \in {"add", "remove"}, e \in Rows, more \in SUBSET Issues :
             Begin(r, kind, e, more)
        \/ \E r \in Requests : FirstRow(r) \/ MirrorRow(r) \/ StatementFails(r)

Spec == Init /\ [][Next]_vars

-----------------------------------------------------------------------------
(* Property.                                                               *)

\* A row is there exactly when the last request that finished on its relation
\* was an add, from whichever side and however often the adds, or the removes,
\* overlap, list an issue twice or relate it to itself, unless a request that
\* would change it is at work.  So both issues agree whenever none is; only an
\* add that met a remove of the same relation, or a failing statement, leaves
\* one side behind.
LinkedIffAdded ==
  \A e \in Rows : Link(e) \notin doubtful =>
    \/ e \in table <=> last[Link(e)] = "add"
    \/ \E r \in On(Link(e)) : req[r].kind # last[Link(e)]
=============================================================================
