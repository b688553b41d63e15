------------------------------ MODULE Timeboxes ------------------------------
(***************************************************************************)
(* The cycles and modules of one project, the issues in them, their        *)
(* archives and the favorites that point at them.  A handler reads the     *)
(* row first and writes it with a later statement, and only the reads look *)
(* at archived_at.                                                         *)
(***************************************************************************)
EXTENDS Integers, FiniteSets

CONSTANTS Cycles, Modules, \* ids of cycles and of modules rows
          Issues, Users,
          Names,           \* names of modules
          Folded,          \* Folded[n]: the name n in lower case
          Times,           \* moments, two to a day
          None,            \* null dates, no box
          Requests         \* goroutines serving requests

Boxes == Cycles \cup Modules

ASSUME BoxSets == Cycles \cap Modules = {} /\ None \notin Boxes \cup (Int \X Int)
ASSUME TimeSet == Times \subseteq Int
ASSUME Folding == Folded \in [Names -> Names]

VARIABLES row,       \* row[b]: is the row of b absent, present or deleted?
          archived,  \* boxes with archived_at set
          dates,     \* dates[c]: start_date and end_date of a cycle
          status,    \* status[m]: done when completed or cancelled, else open
          name,      \* name[m]
          inside,    \* rows of cycle_issues and module_issues
          favorites, \* rows of user_favorites
          now,       \* the clock
          req,       \* req[r]: the handler r is in, its next statement, its locals
          doubtful,  \* history: boxes that an update and an archive met on
          unsure,    \* history: boxes written without a check, or past one
          late,      \* history: favorites that no archive request will remove
          drained    \* history: cycles that a transfer has emptied, and nobody refilled

rows == <<row, archived, dates, status, name, inside, favorites>>
vars == <<rows, now, req, doubtful, unsure, late, drained>>

Dates == {None} \cup {d \in Times \X Times : d[1] <= d[2]}
Rows == {"absent", "present", "deleted"}
CycleRow == [row : Rows, archived : BOOLEAN, dates : Dates]
ModuleRow == [row : Rows, archived : BOOLEAN, status : {"open", "done"}, name : Names]

\* box: the row the request is about; val: the values to write, or the cycle a
\* transfer goes to; todo: issues left to add; stale: have a cycle's dates or a
\* module's name been written since the request made its check?
Idle == [at |-> "idle", box |-> None, val |-> None, todo |-> {}, stale |-> FALSE]
Steps == {"idle", "checked", "insert", "write", "delete", "add", "remove", "transfer",
          "archive", "unfavorite"}
ValueAt(r) == CASE req[r].at = "checked" -> req[r].val \in Dates
                [] req[r].at = "transfer" -> req[r].val \in Cycles
                [] req[r].at = "insert" -> req[r].val \in Names \X {"open", "done"}
                [] req[r].at = "write" -> IF req[r].box \in Cycles
                                          THEN req[r].val \in Dates
                                          ELSE req[r].val \in Names \X {"open", "done"}
                [] OTHER -> req[r].val = None

TypeOK == /\ \A c \in Cycles : [row |-> row[c], archived |-> c \in archived,
                                dates |-> dates[c]] \in CycleRow
          /\ \A m \in Modules : [row |-> row[m], archived |-> m \in archived,
                                 status |-> status[m], name |-> name[m]] \in ModuleRow
          /\ archived \subseteq {b \in Boxes : row[b] # "absent"}
          /\ inside \subseteq Boxes \X Issues
          /\ favorites \subseteq Users \X Boxes
          /\ now \in Int
          /\ \A r \in Requests : /\ req[r].at \in Steps /\ req[r].box \in Boxes \cup {None}
                                  /\ ValueAt(r) /\ req[r].todo \subseteq Issues
                                  /\ req[r].stale \in BOOLEAN
          /\ doubtful \subseteq Boxes /\ unsure \subseteq Boxes
          /\ late \subseteq favorites /\ drained \subseteq Cycles

Init == /\ row = [b \in Boxes |-> "absent"]
        /\ archived = {} /\ inside = {} /\ favorites = {}
        /\ dates = [c \in Cycles |-> None]
        /\ status = [m \in Modules |-> "open"]
        /\ name \in [Modules -> Names]
        /\ now = 0
        /\ req = [r \in Requests |-> Idle]
        /\ doubtful = {} /\ unsure = {} /\ late = {} /\ drained = {}

Present == {b \in Boxes : row[b] = "present"}

\* What the handlers of cycles and of modules find.
GetCycle == (Cycles \cap Present) \ archived
GetModule == (Modules \cap Present) \ archived

Begin(r, step, b, val, is) ==
  /\ req[r] = Idle
  /\ req' = [req EXCEPT ![r] = [at |-> step, box |-> b, val |-> val, todo |-> is, stale |-> FALSE]]

Return(r) == req' = [req EXCEPT ![r] = Idle]

\* r returns, and what others have checked is out of date.
ReturnWritten(r) ==
  req' = [q \in Requests |-> IF q = r THEN Idle ELSE [req[q] EXCEPT !.stale = (req[q] # Idle)]]

-----------------------------------------------------------------------------
(* The cycle handlers.                                                     *)

\* The dates that a start and an end in a body are accepted as: both or none,
\* in order.
ParseDatePair(start, end) ==
  {d \in Dates : d = IF start = None /\ end = None THEN None ELSE <<start, end>>}

Overlap(d, e) == d # None /\ e # None /\ d[1] <= e[2] /\ e[1] <= d[2]
CountOverlappingCyclesInside(d) == {c \in Cycles \cap Present :
                                      dates[c] # None /\ d[1] <= dates[c][1] /\ dates[c][2] <= d[2]}
CountOverlappingCycles(d) == {c \in Cycles \cap Present : Overlap(dates[c], d)}

\* dateCheck is asked for days, whatever the time of day of the dates that the
\* client then creates a cycle with.  (When the count fails it answers yes,
\* which is no more than no check.)
Day(t) == t - (t % 2)
DateCheck(r, d) ==
  /\ d # None
  /\ CountOverlappingCycles(<<Day(d[1]), Day(d[2])>>) = {}
  /\ Begin(r, "checked", None, d, {})
  /\ UNCHANGED <<rows, unsure, late, drained>>

NewCycle(c, d) == /\ row[c] = "absent"
                  /\ row' = [row EXCEPT ![c] = "present"]
                  /\ dates' = [dates EXCEPT ![c] = d]
                  /\ UNCHANGED <<archived, status, name, inside, favorites, late, drained>>

CreateCheckedCycle(r, c) ==
  /\ req[r].at = "checked"
  /\ NewCycle(c, req[r].val)
  /\ unsure' = IF req[r].stale THEN unsure \cup {c} ELSE unsure
  /\ ReturnWritten(r)
\* create itself checks nothing.
CreateCycle(r, c, start, end) ==
  /\ req[r] = Idle
  /\ \E d \in ParseDatePair(start, end) : NewCycle(c, d)
  /\ unsure' = unsure \cup {c}
  /\ ReturnWritten(r)

\* update: with no date in the body it writes back the dates it has read.
BeginUpdateCycle(r, c, start, end) ==
  /\ c \in GetCycle
  /\ \E d \in {dates[c]} \cup ParseDatePair(start, end) : Begin(r, "write", c, d, {})
  /\ UNCHANGED <<rows, unsure, late, drained>>

UpdateCycle(r) ==
  /\ req[r].at = "write" /\ req[r].box \in Cycles \cap Present
  /\ dates' = [dates EXCEPT ![req[r].box] = req[r].val]
  /\ unsure' = IF dates' = dates THEN unsure ELSE unsure \cup {req[r].box}
  /\ ReturnWritten(r)
  /\ UNCHANGED <<row, archived, status, name, inside, favorites, late, drained>>

BeginDestroyCycle(r, c) ==
  /\ c \in GetCycle
  /\ Begin(r, "delete", c, None, {})
  /\ UNCHANGED <<rows, unsure, late, drained>>

SoftDeleteCycle(r) ==
  /\ req[r].at = "delete" /\ req[r].box \in Cycles
  /\ row' = [row EXCEPT ![req[r].box] = "deleted"]
  /\ Return(r)
  /\ UNCHANGED <<archived, dates, status, name, inside, favorites, unsure, late, drained>>

BeginAddCycleIssues(r, c, is) ==
  /\ c \in GetCycle /\ is # {}
  /\ Begin(r, "add", c, None, is)
  /\ drained' = drained \ {c}
  /\ UNCHANGED <<rows, unsure, late>>

DoneWith(r, i) == IF req[r].todo = {i} THEN Return(r)
                  ELSE req' = [req EXCEPT ![r].todo = @ \ {i}]

AddCycleIssue(r, i) ==
  /\ req[r].at = "add" /\ req[r].box \in Cycles /\ i \in req[r].todo
  /\ inside' = inside \cup {<<req[r].box, i>>}
  /\ DoneWith(r, i)
  /\ UNCHANGED <<row, archived, dates, status, name, favorites, unsure, late, drained>>

\* transferIssues: the target is whatever id the body names.
BeginTransfer(r, c, target) ==
  /\ c \in GetCycle
  /\ Begin(r, "transfer", c, target, {})
  /\ drained' = drained \ {target}
  /\ UNCHANGED <<rows, unsure, late>>

IssuesIn(b) == {i \in Issues : <<b, i>> \in inside}
Moved(c, target, is) == (inside \ ({c} \X is)) \cup ({target} \X is)

\* Requests that may still bring an issue into c.
Filling(c) == {r \in Requests : \/ req[r].at = "add" /\ req[r].box = c
                                \/ req[r].at = "transfer" /\ req[r].val = c}

\* One statement: it fails as a whole when the target has no row, or has one of
\* the issues already, and the answer is "Success" all the same.
Transferable(c, target) == /\ row[target] # "absent"
                           /\ c = target \/ IssuesIn(c) \cap IssuesIn(target) = {}

TransferOneIssue(r) ==
  /\ req[r].at = "transfer"
  /\ LET c == req[r].box  target == req[r].val IN
     IF ~Transferable(c, target) THEN UNCHANGED <<inside, drained>>
     ELSE /\ \E i \in Issues : inside' = Moved(c, target, {i} \cap IssuesIn(c))
          /\ drained' = IF Filling(c) = {} THEN drained \cup {c} ELSE drained
  /\ Return(r)
  /\ UNCHANGED <<row, archived, dates, status, name, favorites, unsure, late>>
TransferCycleIssues(r) ==
  /\ req[r].at = "transfer"
  /\ LET c == req[r].box  target == req[r].val IN
     IF ~Transferable(c, target) THEN UNCHANGED <<inside, drained>>
     ELSE /\ inside' = Moved(c, target, IssuesIn(c))
          /\ drained' = IF Filling(c) = {} THEN drained \cup {c} ELSE drained
  /\ Return(r)
  /\ UNCHANGED <<row, archived, dates, status, name, favorites, unsure, late>>

-----------------------------------------------------------------------------
(* The module handlers.                                                    *)

ModuleNameExistsExactly(n) == \E m \in Modules \cap Present : name[m] = n
ModuleNameExists(n) == \E m \in Modules \cap Present : Folded[name[m]] = Folded[n]

BeginCreateModule(r, n, s) ==
  /\ ~ModuleNameExists(n)
  /\ Begin(r, "insert", None, <<n, s>>, {})
  /\ UNCHANGED <<rows, unsure, late, drained>>

\* A look-up that fails counts as one that found nothing.
NameLookupFails(r, n, s) ==
  /\ req[r] = Idle
  /\ req' = [req EXCEPT ![r] = [at |-> "insert", box |-> None, val |-> <<n, s>>, todo |-> {},
                              stale |-> TRUE]]
  /\ UNCHANGED <<rows, unsure, late, drained>>

\* unique (project_id, name), which deleted rows take part in.
Taken(n, m) == \E k \in Modules \ {m} : row[k] # "absent" /\ name[k] = n

CreateModule(r, m) ==
  /\ req[r].at = "insert" /\ row[m] = "absent"
  /\ IF Taken(req[r].val[1], m)
     THEN UNCHANGED <<row, name, status, unsure>> /\ Return(r)
     ELSE /\ row' = [row EXCEPT ![m] = "present"]
          /\ name' = [name EXCEPT ![m] = req[r].val[1]]
          /\ status' = [status EXCEPT ![m] = req[r].val[2]]
          /\ unsure' = IF req[r].stale THEN unsure \cup {m} ELSE unsure
          /\ ReturnWritten(r)
  /\ UNCHANGED <<archived, dates, inside, favorites, late, drained>>

\* PATCH and PUT: what the body leaves out is written back as it was read, and
\* a new name is not looked up.
ApplyUpdate(r, m, n, s) ==
  /\ m \in GetModule
  /\ Begin(r, "write", m, <<n, s>>, {})
  /\ UNCHANGED <<rows, unsure, late, drained>>

UpdateModule(r) ==
  LET m == req[r].box  n == req[r].val[1] IN
  /\ req[r].at = "write" /\ m \in Modules
  /\ IF m \notin Present \/ Taken(n, m)
     THEN UNCHANGED <<name, status, unsure>> /\ Return(r)
     ELSE /\ name' = [name EXCEPT ![m] = n]
          /\ status' = [status EXCEPT ![m] = req[r].val[2]]
          /\ IF n = name[m] THEN UNCHANGED unsure /\ Return(r)
             ELSE unsure' = unsure \cup {m} /\ ReturnWritten(r)
  /\ UNCHANGED <<row, archived, dates, inside, favorites, late, drained>>

BeginDestroyModule(r, m) ==
  /\ m \in GetModule
  /\ Begin(r, "delete", m, None, {})
  /\ UNCHANGED <<rows, unsure, late, drained>>

SoftDeleteModule(r) ==
  /\ req[r].at = "delete" /\ req[r].box \in Modules
  /\ row' = [row EXCEPT ![req[r].box] = "deleted"]
  /\ Return(r)
  /\ UNCHANGED <<archived, dates, status, name, inside, favorites, unsure, late, drained>>

BeginAddModuleIssues(r, m, is) ==
  /\ m \in GetModule /\ is # {}
  /\ Begin(r, "add", m, None, is)
  /\ UNCHANGED <<rows, unsure, late, drained>>

AddModuleIssue(r, i) ==
  /\ req[r].at = "add" /\ req[r].box \in Modules /\ i \in req[r].todo
  /\ inside' = inside \cup {<<req[r].box, i>>}
  /\ DoneWith(r, i)
  /\ UNCHANGED <<row, archived, dates, status, name, favorites, unsure, late, drained>>

BeginRemoveIssue(r, m, i) ==
  /\ m \in GetModule
  /\ Begin(r, "remove", m, None, {i})
  /\ UNCHANGED <<rows, unsure, late, drained>>

RemoveModuleIssue(r) ==
  /\ req[r].at = "remove"
  /\ inside' = inside \ ({req[r].box} \X req[r].todo)
  /\ Return(r)
  /\ UNCHANGED <<row, archived, dates, status, name, favorites, unsure, late, drained>>

-----------------------------------------------------------------------------
(* Favorites: the box is not looked up, an archived one can be added too.  *)

AddFavorite(u, b) ==
  /\ favorites' = favorites \cup {<<u, b>>}
  /\ late' = IF b \in archived /\ <<u, b>> \notin favorites THEN late \cup {<<u, b>>} ELSE late
  /\ UNCHANGED <<row, archived, dates, status, name, inside, req, unsure, drained>>
AddFavoriteCycle(u, c) == c \in Cycles /\ AddFavorite(u, c)
AddFavoriteModule(u, m) == m \in Modules /\ AddFavorite(u, m)

DeleteFavorite(u, b) ==
  /\ favorites' = favorites \ {<<u, b>>}
  /\ late' = late \ {<<u, b>>}
  /\ UNCHANGED <<row, archived, dates, status, name, inside, req, unsure, drained>>
DelFavoriteCycle(u, c) == c \in Cycles /\ DeleteFavorite(u, c)
DelFavoriteModule(u, m) == m \in Modules /\ DeleteFavorite(u, m)

-----------------------------------------------------------------------------
(* The archives.  The check reads the row, archived or not.                *)

BeginArchiveAnyCycle(r, c) ==
  /\ c \in Cycles \cap Present /\ dates[c] # None /\ dates[c][1] < now
  /\ Begin(r, "archive", c, None, {})
  /\ UNCHANGED <<rows, unsure, late, drained>>
BeginArchiveCycle(r, c) ==
  /\ c \in Cycles \cap Present /\ dates[c] # None /\ dates[c][2] < now
  /\ Begin(r, "archive", c, None, {})
  /\ UNCHANGED <<rows, unsure, late, drained>>

BeginArchiveModule(r, m) ==
  /\ m \in Modules \cap Present /\ status[m] = "done"
  /\ Begin(r, "archive", m, None, {})
  /\ UNCHANGED <<rows, unsure, late, drained>>

SetArchivedAt(r) ==
  /\ req[r].at = "archive"
  /\ archived' = archived \cup {req[r].box}
  /\ req' = [req EXCEPT ![r].at = "unfavorite"]
  /\ UNCHANGED <<row, dates, status, name, inside, favorites, unsure, late, drained>>

\* The favorites of all users.
DropFavorites(r) ==
  /\ req[r].at = "unfavorite"
  /\ favorites' = favorites \ (Users \X {req[r].box})
  /\ late' = late \ (Users \X {req[r].box})
  /\ Return(r)
  /\ UNCHANGED <<row, archived, dates, status, name, inside, unsure, drained>>

Unarchive(b) ==
  /\ b \in Present
  /\ archived' = archived \ {b}
  /\ late' = late \ (Users \X {b})
  /\ UNCHANGED <<row, dates, status, name, inside, favorites, req, unsure, drained>>
UnarchiveCycle(c) == c \in Cycles /\ Unarchive(c)
UnarchiveModule(m) == m \in Modules /\ Unarchive(m)

-----------------------------------------------------------------------------
\* A statement that fails changes no row.  Adding issues and dropping favorites
\* drop the error, the others answer it.
StatementFails(r) ==
  /\ \/ req[r].at = "add" /\ \E i \in req[r].todo : DoneWith(r, i)
     \/ req[r].at \notin {"idle", "add"} /\ Return(r)
  /\ late' = IF req[r].at = "unfavorite"
             THEN late \cup (favorites \cap (Users \X {req[r].box})) ELSE late
  /\ UNCHANGED <<rows, unsure, drained>>

Tick == now' = now + 1 /\ UNCHANGED <<rows, req, unsure, late, drained>>

\* Boxes that one request archives while another updates them; the doubt is
\* over when the box is not archived and nobody is about to archive it.
Contended == {b \in Boxes : \E r, q \in Requests : /\ req[r].at = "archive" /\ req[r].box = b
                                                  /\ req[q].at = "write" /\ req[q].box = b}
Open == archived \cup {req[r].box : r \in {q \in Requests : req[q].at = "archive"}}
Doubt == doubtful' = (doubtful \cup Contended') \cap Open'

CycleStep ==
  \/ \E r \in Requests, d \in Dates : DateCheck(r, d)
  \/ \E r \in Requests, c \in Cycles :
       \/ CreateCheckedCycle(r, c) \/ BeginDestroyCycle(r, c) \/ BeginArchiveCycle(r, c)
       \/ \E start, end \in Times \cup {None} :
            CreateCycle(r, c, start, end) \/ BeginUpdateCycle(r, c, start, end)
       \/ \E is \in SUBSET Issues : BeginAddCycleIssues(r, c, is)
       \/ \E target \in Cycles : BeginTransfer(r, c, target)
  \/ \E r \in Requests : UpdateCycle(r) \/ SoftDeleteCycle(r) \/ TransferCycleIssues(r)
  \/ \E r \in Requests, i \in Issues : AddCycleIssue(r, i)
  \/ \E c \in Cycles : UnarchiveCycle(c)

ModuleStep ==
  \/ \E r \in Requests, n \in Names, s \in {"open", "done"} :
       \/ BeginCreateModule(r, n, s) \/ NameLookupFails(r, n, s)
       \/ \E m \in Modules : ApplyUpdate(r, m, n, s)
  \/ \E r \in Requests, m \in Modules :
       \/ CreateModule(r, m) \/ BeginDestroyModule(r, m) \/ BeginArchiveModule(r, m)
       \/ \E is \in SUBSET Issues : BeginAddModuleIssues(r, m, is)
       \/ \E i \in Issues : BeginRemoveIssue(r, m, i)
  \/ \E r \in Requests : UpdateModule(r) \/ SoftDeleteModule(r) \/ RemoveModuleIssue(r)
  \/ \E r \in Requests, i \in Issues : AddModuleIssue(r, i)
  \/ \E m \in Modules : UnarchiveModule(m)

FavoriteStep == \E u \in Users, b \in Boxes :
                  \/ AddFavoriteCycle(u, b) \/ AddFavoriteModule(u, b)
                  \/ DelFavoriteCycle(u, b) \/ DelFavoriteModule(u, b)

RequestStep == \/ CycleStep \/ ModuleStep \/ FavoriteStep
               \/ \E r \in Requests : SetArchivedAt(r) \/ DropFavorites(r) \/ StatementFails(r)

Next == ((RequestStep /\ UNCHANGED now) \/ Tick) /\ Doubt

Spec == Init /\ [][Next]_vars

-----------------------------------------------------------------------------
(* Properties.                                                             *)

Over(b) == IF b \in Cycles THEN dates[b] # None /\ dates[b][2] < now ELSE status[b] = "done"

\* "Only cycles whose end_date has already passed can ever reach the archived
\* table" (archive/handlers.go:159), and only completed or cancelled modules:
\* a box in the archive is over, unless an update of it was in progress when it
\* was archived.
ArchivedAreOver == \A b \in archived \cap Present : Over(b) \/ b \in doubtful

\* Archiving a box removes it from the favorites of all users: it is in them
\* again only if it was added while in the archive, or the removal failed.
ArchivedNotFavorite ==
  \A f \in favorites \ late :
    f[2] \in archived => \E r \in Requests : req[r].at = "unfavorite" /\ req[r].box = f[2]

\* A transfer that moved the issues of a cycle leaves it empty until a request
\* that began afterwards brings some in, unless one was bringing some in
\* at the time.
TransferDrains == \A c \in drained : IssuesIn(c) = {}

\* Two cycles of a project overlap (cycle/handlers.go:337) only if one was created
\* or moved without a date-check, or something was written between its check and its
\* creation, or if one starts after the midnight that began the other's last day.
OverlapsExplained ==
  \A b, c \in (Cycles \cap Present) \ unsure :
    b # c /\ Overlap(dates[b], dates[c]) =>
      Day(dates[b][2]) < dates[c][1] \/ Day(dates[c][2]) < dates[b][1]

\* "Module with this name already exists" (module/handlers.go:208): names differ
\* by more than their case, unless one was given by a PATCH or PUT, or something
\* was written between the check and the insert.
NamesDistinct ==
  \A m, k \in (Modules \cap Present) \ unsure : Folded[name[m]] = Folded[name[k]] => m = k

\* The types, with the favorites of archived boxes and the names of modules.
TimeboxesInv == TypeOK /\ ArchivedNotFavorite /\ NamesDistinct
=============================================================================
