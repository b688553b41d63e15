------------------------------- MODULE Records -------------------------------
(***************************************************************************)
(* Rows that handlers create, PATCH and delete one at a time, and the      *)
(* statements they use for it.  A handler of a PATCH reads the row, puts   *)
(* the given fields over what it has read and writes: all the columns it   *)
(* knows (Store with those columns), or the given ones alone (Merge, or    *)
(* Store with the fields asked for).  Each statement is atomic; nothing    *)
(* holds the row between the read and the write.                           *)
(***************************************************************************)
EXTENDS Naturals

CONSTANTS Rows,     \* ids of rows, drawn at random and never drawn twice
          Keys,     \* what a unique index compares: a name, a url, an entity and its user
          Folded,   \* Folded[k]: a name in lower case
          Values,   \* the contents of other columns; numbers, so that dates have an order
          Requests, \* goroutines serving the requests
          None

ASSUME RecordSets == /\ Values \subseteq Nat /\ Values # {}
                      /\ None \notin Values \cup Keys \cup Rows

VARIABLES row,      \* row[i]
          req,      \* req[r]: the statement r executes next and its locals
          asked,    \* history: asked[i]: each field as it was last asked for
          doubtful, \* history: <<i, f>> where a handler has written f back as it had read
                    \* it, over what another request had written since, or has not been
                    \* told that its statement failed
          slipped   \* history: rows written on the word of a lookup that no longer held,
                    \* had failed or was not made

recordVars == <<row, req, asked, doubtful, slipped>>

Kinds == {"label", "state", "view", "webhook", "token", "export", "theme", "saved analytic",
          "estimate", "point", "workspace", "names", "profile", "user properties",
          "entity properties", "draft", "issue", "sub-issue", "favorite", "comment", "link",
          "reaction", "subscriber"}
ASSUME NoneIsNoKind == None \notin Kinds
\* The tables with a unique index on the key of their rows (of those not deleted).
Indexed == {"label", "state", "webhook", "theme", "user properties", "entity properties",
            "favorite", "reaction", "subscriber"}

Fields == {"key", "one", "two", "status"}
Blank == [kind |-> None, key |-> None, one |-> None, two |-> None, status |-> "none"]
New(kind, key, one, two) ==
  [kind |-> kind, key |-> key, one |-> one, two |-> two, status |-> "live"]
Record == [kind : Kinds, key : Keys \cup {None}, one : Values \cup {None},
           two : Values \cup {None}, status : {"live", "deleted", "gone"}] \cup {Blank}

\* id is None while the row is not yet there; new is the row as r wants it, fields are
\* those that were asked for, and old those that others have changed since r has read.
Idle == [at |-> "idle", id |-> None, new |-> Blank, fields |-> {}, old |-> {}]
Request == [at : {"idle", "insert", "write", "points", "values", "start", "target", "promote",
                  "consume"},
            id : Rows \cup {None}, new : Record, fields : SUBSET Fields, old : SUBSET Fields]

RecordsOK == /\ row \in [Rows -> Record]
             /\ asked \in [Rows -> Record]
             /\ req \in [Requests -> Request]
             /\ doubtful \subseteq Rows \X Fields
             /\ slipped \subseteq Rows

\* Some of the rows given are there already.
RecordsInit(given) == /\ row \in [Rows -> given \cup {Blank}]
                      /\ asked = row
                      /\ req = [r \in Requests |-> Idle]
                      /\ doubtful = {} /\ slipped = {}

Live(kind) == {i \in Rows : row[i].kind = kind /\ row[i].status = "live"}
Free(i, new) == new.kind \in Indexed /\ new.status = "live" /\ new.key # None
                => \A j \in Live(new.kind) \ {i} : row[j].key # new.key

Serving(r, kind, at) == req[r].at = at /\ req[r].new.kind = kind
Changed(i, new) == {f \in Fields : row[i][f] # new[f]}

\* The requests after row i has become new: those that have read it, or that have looked
\* for a row like it, now know something old.
Noticed(i, new) ==
  [q \in Requests |->
     IF req[q].id = i \/ (req[q].at = "insert" /\ req[q].new.kind = new.kind)
     THEN [req[q] EXCEPT !.old = @ \cup Changed(i, new)] ELSE req[q]]

\* INSERT of one row by a handler with no earlier statement; a duplicate is refused.
Create(new) ==
  /\ UNCHANGED <<doubtful, slipped>>
  /\ \E i \in Rows : /\ row[i] = Blank /\ Free(i, new)
                     /\ row' = [row EXCEPT ![i] = new]
                     /\ asked' = [asked EXCEPT ![i] = new]
                     /\ req' = Noticed(i, new)

Slip(i, if) == slipped' = IF if THEN slipped \cup {i} ELSE slipped

\* INSERT of row i by a request with statements before or after it.
Insert(r, i, new, then) ==
  /\ row[i] = Blank /\ Free(i, new) /\ UNCHANGED doubtful
  /\ row' = [row EXCEPT ![i] = new]
  /\ asked' = [asked EXCEPT ![i] = new]
  /\ Slip(i, "key" \in req[r].old)
  /\ req' = [Noticed(i, new) EXCEPT ![r] = then]

Ask(i, new, fields) ==
  asked' = [asked EXCEPT ![i] = [f \in DOMAIN @ |-> IF f \in fields THEN new[f] ELSE @[f]]]

\* UPDATE or DELETE of the given fields by a single statement.
Merge(i, new, fields) ==
  /\ UNCHANGED slipped
  /\ row' = [row EXCEPT ![i] = new]
  /\ Ask(i, new, fields)
  /\ doubtful' = doubtful \ ({i} \X fields)
  /\ req' = Noticed(i, new)
Remove(kind, status) ==
  \E i \in Live(kind) : Merge(i, [row[i] EXCEPT !.status = status], {"status"})

\* The same where the handler drops the error: the answer is that of success either way.
MergeUnnoticed(i, new, fields) ==
  \/ Merge(i, new, fields)
  \/ /\ Ask(i, new, fields)
     /\ doubtful' = doubtful \cup ({i} \X fields)
     /\ UNCHANGED <<row, req, slipped>>
RemoveUnnoticed(kind, status) ==
  \E i \in Live(kind) : MergeUnnoticed(i, [row[i] EXCEPT !.status = status], {"status"})

\* The read of a PATCH, and the row it is going to write.
Begin(r, at, i, fields, new) ==
  /\ req[r] = Idle
  /\ req' = [req EXCEPT ![r] = [at |-> at, id |-> i, new |-> new, fields |-> fields,
                                old |-> {}]]
  /\ UNCHANGED <<row, asked, doubtful, slipped>>
\* Mutant: the row to write is built from the body alone.
PatchFromScratch(r, kind, fields) ==
  \E i \in Live(kind), f \in fields :
    \E v \in IF f = "key" THEN Keys ELSE Values :
      Begin(r, "write", i, {f}, [row[i] EXCEPT !.one = None, !.two = None, ![f] = v])
Patch(r, kind, fields) ==
  \E i \in Live(kind), f \in fields :
    \E v \in IF f = "key" THEN Keys ELSE Values :
      Begin(r, "write", i, {f}, [row[i] EXCEPT ![f] = v])

\* The UPDATE of a PATCH: it writes the fields written, whoever has changed them since.
Store(r, written, then) ==
  LET i == req[r].id
      new == [f \in DOMAIN Blank |-> IF f \in written THEN req[r].new[f] ELSE row[i][f]]
  IN /\ Free(i, new)
     /\ row' = [row EXCEPT ![i] = new]
     /\ asked' = [asked EXCEPT ![i] =
                    [f \in DOMAIN @ |-> IF f \in req[r].fields THEN new[f] ELSE @[f]]]
     /\ doubtful' = (doubtful \ ({i} \X req[r].fields))
                    \cup ({i} \X ((req[r].old \cap written) \ req[r].fields))
     /\ req' = [Noticed(i, new) EXCEPT ![r] = then]
IsLive(r) == row[req[r].id].status = "live"

\* The statement matches no row, meets the index or fails, and the answer says so.
Refused(r) == /\ req[r].at \in {"insert", "write", "promote"}
              /\ req[r].new.kind # "subscriber" \* whose error is dropped
              /\ req' = [req EXCEPT ![r] = Idle]
              /\ UNCHANGED <<row, asked, doubtful, slipped>>
=============================================================================
