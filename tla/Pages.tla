-------------------------------- MODULE Pages --------------------------------
(***************************************************************************)
(* The pages of some projects: a tree through parent_id, with an archive,  *)
(* a lock and private pages.  A handler fetches the page in its project,   *)
(* then changes it by statements of their own whose errors are mostly      *)
(* dropped; only create and duplicate insert within a transaction.  Name,  *)
(* text and properties are left out: they are written back like the        *)
(* columns that are here.                                                  *)
(***************************************************************************)
EXTENDS Naturals, FiniteSets

CONSTANTS Pages,   \* ids of pages rows
          Project, \* Project[p]: the project that page p is in, or will be
          Users,
          None,    \* a null parent_id, no page
          Requests \* goroutines serving requests

ASSUME PageSets == IsFiniteSet(Pages) /\ None \notin Pages /\ DOMAIN Project = Pages

VARIABLES row,       \* row[p]: is the row of p absent, present or deleted?
          linked,    \* pages whose project_pages row is not deleted
          parent,    \* parent[p]: parent_id
          archived,  \* pages with archived_at set
          locked,    \* pages with is_locked
          private,   \* pages with access 1
          owner,     \* owner[p]: owned_by
          favorites, \* rows of user_favorites
          req,       \* req[r]: the handler r is in, its next statement, its locals
          doubtful,  \* history: pages out of place that an overlap or a failure explains
          pinned     \* history: pages locked while no PATCH was about to write them

tree == <<row, linked, parent, archived>>
rows == <<tree, locked, private, owner, favorites>>
vars == <<rows, req, doubtful, pinned>>

PageRow == [row : {"absent", "present", "deleted"}, parent : Pages \cup {None},
            archived : BOOLEAN, locked : BOOLEAN, private : BOOLEAN, owner : Users \cup {None}]

\* user, page: who asks for what; private, locked, parent, linked: what was read
\* or is to be written; stale: has another request written the page or the parent
\* meanwhile, or a statement failed?
Idle == [at |-> "idle", user |-> None, page |-> None, private |-> FALSE, locked |-> FALSE,
         parent |-> None, linked |-> FALSE, stale |-> FALSE]
Steps == {"idle", "create", "write", "lock", "access", "archive", "look", "detach", "unarchive",
          "runaway", "free", "delete", "unlink", "forget", "unfavorite", "projects", "copy"}
Request == [at : Steps, user : Users \cup {None}, page : Pages \cup {None}, private : BOOLEAN,
            locked : BOOLEAN, parent : Pages \cup {None}, linked : BOOLEAN, stale : BOOLEAN]

TypeOK == /\ \A p \in Pages :
               [row |-> row[p], parent |-> parent[p], archived |-> p \in archived,
                locked |-> p \in locked, private |-> p \in private, owner |-> owner[p]] \in PageRow
          /\ archived \cup locked \cup private \cup linked \subseteq {p \in Pages : row[p] # "absent"}
          /\ favorites \subseteq Users \X Pages
          /\ req \in [Requests -> Request]
          /\ \A r \in Requests : /\ req[r].at \notin {"idle", "create"} => req[r].page # None
                                /\ req[r].at \in {"look", "detach"} => req[r].parent # None
          /\ doubtful \subseteq Pages /\ pinned \subseteq Pages

Init == /\ row = [p \in Pages |-> "absent"]
        /\ linked = {} /\ archived = {} /\ locked = {} /\ private = {} /\ favorites = {}
        /\ parent = [p \in Pages |-> None]
        /\ owner = [p \in Pages |-> None]
        /\ req = [r \in Requests |-> Idle]
        /\ doubtful = {} /\ pinned = {}

Present == {p \in Pages : row[p] = "present"}
FetchInProject == Present \cap linked

\* The recursive query: a page and everything below it, deleted rows included.
Children(ps) == {q \in Pages : parent[q] \in ps}
Descendants(p) ==
  LET down[n \in 0..Cardinality(Pages)] ==
        IF n = 0 THEN {p} ELSE down[n - 1] \cup Children(down[n - 1])
  IN down[Cardinality(Pages)]
BelowItself(p) == \E q \in Children({p}) : p \in Descendants(q)

\* list: the roots of a project, the private ones for their owner only.  Everything
\* else is found from its parent.
List(u, project) == {p \in FetchInProject : /\ Project[p] = project /\ parent[p] = None
                                            /\ owner[p] = u \/ p \notin private}

-----------------------------------------------------------------------------
(* Pages out of place.                                                     *)

Misfiled == {p \in Present \ archived : parent[p] \in archived}
Stray == {p \in Present : parent[p] # None /\ (\/ row[parent[p]] = "deleted"
                                               \/ Project[parent[p]] # Project[p])}
Lost == (Present \ linked) \cup Stray

\* A page can get out of place when its request is stale, when it is the copy of one
\* that is, and of course when it is put there by name: into the archive, below a
\* deleted page or one of another project.
Explain(more) == doubtful' = (doubtful \cup more) \cap (Misfiled \cup Lost)'
ExplainedBy(r) == Explain(IF req[r].stale THEN (Misfiled \cup Lost)' ELSE {})

-----------------------------------------------------------------------------
Begin(r, step, u, p, more) ==
  /\ req[r] = Idle
  /\ req' = [req EXCEPT ![r] = [more EXCEPT !.at = step, !.user = u, !.page = p]]
  /\ UNCHANGED <<rows, doubtful, pinned>>

\* What r goes on with, and whose locals its write of the pages ps makes stale.
Step(r, step, ps) ==
  req' = [q \in Requests |->
           IF q = r THEN (IF step = "idle" THEN Idle ELSE [req[r] EXCEPT !.at = step])
           ELSE [req[q] EXCEPT !.stale = @ \/ (req[q].page \in ps \/ req[q].parent \in ps)]]

\* Every row a transaction inserts.
Insert(r, p, onProject) ==
  /\ row[p] = "absent"
  /\ row' = [row EXCEPT ![p] = "present"]
  /\ linked' = IF onProject THEN linked \cup {p} ELSE linked
  /\ parent' = [parent EXCEPT ![p] = req[r].parent]
  /\ private' = IF req[r].private THEN private \cup {p} ELSE private
  /\ owner' = [owner EXCEPT ![p] = req[r].user]
  /\ Step(r, "idle", {p, req[r].parent} \ {None})
  /\ UNCHANGED <<archived, locked, favorites, pinned>>
  /\ Explain((IF req[r].stale \/ req[r].page \in doubtful THEN Lost' ELSE {})
             \cup (Misfiled' \cap {p})
             \cup (IF req[r].at = "create" THEN Stray' \cap {p} ELSE {}))

\* The id of a parent is parsed and not looked up; a foreign key asks for its row alone.
Nameable == {q \in Pages : row[q] # "absent"}

BeginCreate(r, u, isPrivate, q) ==
  /\ q \in Nameable \cup {None}
  /\ Begin(r, "create", u, None, [Idle EXCEPT !.private = isPrivate, !.parent = q])
Create(r, p) == req[r].at = "create" /\ Insert(r, p, TRUE)

\* update: a locked page is refused, and so is a change of access by anybody but
\* the owner; what the body leaves out is written back as it was read.
BeginUpdateOfLocked(r, u, p, isPrivate, lock, q) ==
  /\ p \in FetchInProject
  /\ isPrivate # (p \in private) => u = owner[p]
  /\ q \in Nameable \cup {parent[p]}
  /\ Begin(r, "write", u, p, [Idle EXCEPT !.private = isPrivate, !.locked = lock, !.parent = q])
BeginUpdateByAnybody(r, u, p, isPrivate, lock, q) ==
  /\ p \in FetchInProject /\ p \notin locked
  /\ q \in Nameable \cup {parent[p]}
  /\ Begin(r, "write", u, p, [Idle EXCEPT !.private = isPrivate, !.locked = lock, !.parent = q])
BeginUpdate(r, u, p, isPrivate, lock, q) ==
  /\ p \in FetchInProject /\ p \notin locked
  /\ isPrivate # (p \in private) => u = owner[p]
  /\ q \in Nameable \cup {parent[p]}
  /\ Begin(r, "write", u, p, [Idle EXCEPT !.private = isPrivate, !.locked = lock, !.parent = q])

With(s, p, in) == IF in THEN s \cup {p} ELSE s \ {p}

UpdatePage(r) ==
  LET p == req[r].page IN
  /\ req[r].at = "write"
  /\ parent' = [parent EXCEPT ![p] = req[r].parent]
  /\ private' = With(private, p, req[r].private)
  /\ locked' = With(locked, p, req[r].locked)
  /\ Step(r, "idle", {p, req[r].parent} \ {None})
  /\ UNCHANGED <<row, linked, archived, owner, favorites, pinned>>
  /\ Explain((IF req[r].stale THEN Lost' ELSE {})
             \cup (IF parent' # parent THEN (Misfiled \cup Stray)' \cap {p} ELSE {}))

\* lock and unlock, for anybody.
BeginSetLocked(r, u, p, lock) ==
  /\ p \in FetchInProject
  /\ Begin(r, "lock", u, p, [Idle EXCEPT !.locked = lock])

Updating(p) == {r \in Requests : req[r].at = "write" /\ req[r].page = p}
SetLocked(r) ==
  LET p == req[r].page IN
  /\ req[r].at = "lock"
  /\ locked' = With(locked, p, req[r].locked)
  /\ pinned' = With(pinned, p, req[r].locked /\ (p \in pinned \/ Updating(p) = {}))
  /\ Step(r, "idle", {p})
  /\ UNCHANGED <<tree, private, owner, favorites, doubtful>>

\* access: only the owner changes it, a lock does not matter.
BeginAccess(r, u, p, isPrivate) ==
  /\ p \in FetchInProject
  /\ isPrivate # (p \in private) => u = owner[p]
  /\ Begin(r, "access", u, p, [Idle EXCEPT !.private = isPrivate])

SetAccess(r) ==
  /\ req[r].at = "access"
  /\ private' = With(private, req[r].page, req[r].private)
  /\ Step(r, "idle", {req[r].page})
  /\ UNCHANGED <<tree, locked, owner, favorites, doubtful, pinned>>

-----------------------------------------------------------------------------
(* archive and unarchive: a page and all of its descendants.               *)

BeginArchive(r, u, p) == p \in FetchInProject /\ Begin(r, "unfavorite", u, p, Idle)

\* Of all users; destroy ends with it, archive begins with it.
DropFavorites(r) ==
  /\ req[r].at \in {"unfavorite", "forget"}
  /\ favorites' = favorites \ (Users \X {req[r].page})
  /\ Step(r, IF req[r].at = "forget" THEN "idle" ELSE "archive", {})
  /\ UNCHANGED <<tree, locked, private, owner, doubtful, pinned>>

\* union all does not notice a page it has seen: below a page that is below
\* itself the query never ends.
RunsAway(p) == \E q \in Descendants(p) : BelowItself(q)

ArchiveTree(r) ==
  LET p == req[r].page IN
  /\ req[r].at = "archive"
  /\ IF RunsAway(p) THEN archived' = archived /\ Step(r, "runaway", {})
     ELSE archived' = archived \cup Descendants(p) /\ Step(r, "idle", Descendants(p))
  /\ UNCHANGED <<row, linked, parent, locked, private, owner, favorites, pinned>>
  /\ ExplainedBy(r)

\* unarchive first looks at the parent that the page had when it was fetched.
BeginUnarchive(r, u, p) ==
  /\ p \in FetchInProject
  /\ Begin(r, IF parent[p] = None THEN "unarchive" ELSE "look", u, p,
           [Idle EXCEPT !.parent = parent[p]])

LookAtParentNever(r) ==
  /\ req[r].at = "look"
  /\ Step(r, "unarchive", {})
  /\ UNCHANGED <<rows, doubtful, pinned>>
LookAtParent(r) ==
  /\ req[r].at = "look"
  /\ Step(r, IF req[r].parent \in archived THEN "detach" ELSE "unarchive", {})
  /\ UNCHANGED <<rows, doubtful, pinned>>

Detach(r) ==
  /\ req[r].at = "detach"
  /\ parent' = [parent EXCEPT ![req[r].page] = None]
  /\ Step(r, "unarchive", {req[r].page})
  /\ UNCHANGED <<row, linked, archived, locked, private, owner, favorites, pinned>>
  /\ ExplainedBy(r)

UnarchiveTree(r) ==
  LET p == req[r].page IN
  /\ req[r].at = "unarchive"
  /\ IF RunsAway(p) THEN archived' = archived /\ Step(r, "runaway", {})
     ELSE archived' = archived \ Descendants(p) /\ Step(r, "idle", Descendants(p))
  /\ UNCHANGED <<row, linked, parent, locked, private, owner, favorites, pinned>>
  /\ ExplainedBy(r)

-----------------------------------------------------------------------------
(* destroy: an archived page; its children become roots.                   *)

BeginDestroy(r, u, p) ==
  /\ p \in FetchInProject \cap archived
  /\ Begin(r, "free", u, p, Idle)

FreeChildren(r) ==
  LET p == req[r].page IN
  /\ req[r].at = "free"
  /\ parent' = [q \in Pages |-> IF parent[q] = p THEN None ELSE parent[q]]
  /\ Step(r, "delete", Children({p}))
  /\ UNCHANGED <<row, linked, archived, locked, private, owner, favorites, pinned>>
  /\ ExplainedBy(r)

SoftDelete(r) ==
  /\ req[r].at = "delete"
  /\ row' = [row EXCEPT ![req[r].page] = "deleted"]
  /\ Step(r, "unlink", {req[r].page})
  /\ UNCHANGED <<linked, parent, archived, locked, private, owner, favorites, pinned>>
  /\ ExplainedBy(r)

Unlink(r) ==
  /\ req[r].at = "unlink"
  /\ linked' = linked \ {req[r].page}
  /\ Step(r, "forget", {req[r].page})
  /\ UNCHANGED <<row, parent, archived, locked, private, owner, favorites, pinned>>
  /\ ExplainedBy(r)

-----------------------------------------------------------------------------
(* duplicate: a copy for the user, in the projects that the page is in when *)
(* they are read, beside the page as it was when it was fetched.            *)

BeginDuplicate(r, u, p) ==
  /\ p \in FetchInProject
  /\ p \in private => u = owner[p]
  /\ Begin(r, "projects", u, p, [Idle EXCEPT !.private = p \in private, !.parent = parent[p]])

ProjectIDs(r) ==
  /\ req[r].at = "projects"
  /\ req' = [req EXCEPT ![r].at = "copy", ![r].linked = (req[r].page \in linked)]
  /\ UNCHANGED <<rows, doubtful, pinned>>

Duplicate(r, p) == /\ req[r].at = "copy" /\ Project[p] = Project[req[r].page]
                   /\ Insert(r, p, req[r].linked)

-----------------------------------------------------------------------------
\* Neither looks at the page.
Favorite(u, p) == /\ row[p] # "absent"
                  /\ favorites' = favorites \cup {<<u, p>>}
                  /\ UNCHANGED <<tree, locked, private, owner, req, doubtful, pinned>>
Unfavorite(u, p) == /\ favorites' = favorites \ {<<u, p>>}
                    /\ UNCHANGED <<tree, locked, private, owner, req, doubtful, pinned>>

\* A statement that fails changes no row.  archive, unarchive and destroy drop
\* the error and go on with the next one, a parent or the projects that cannot
\* be read count as none; the other handlers answer.
AfterFailure == [unfavorite |-> "archive", look |-> "unarchive", detach |-> "unarchive",
                 free |-> "delete", delete |-> "unlink", unlink |-> "forget", projects |-> "copy"]
StatementFails(r) ==
  /\ req[r].at \notin {"idle", "runaway"}
  /\ req' = [req EXCEPT ![r] =
       IF @.at \notin DOMAIN AfterFailure THEN Idle
       ELSE [req[r] EXCEPT !.at = AfterFailure[req[r].at], !.stale = TRUE]]
  /\ UNCHANGED <<rows, doubtful, pinned>>

Next == \/ \E r \in Requests, u \in Users :
             \/ \E isPrivate \in BOOLEAN, q \in Pages \cup {None} : BeginCreate(r, u, isPrivate, q)
             \/ \E p \in Pages : \/ \E lock \in BOOLEAN : BeginSetLocked(r, u, p, lock)
                                \/ \E isPrivate \in BOOLEAN : BeginAccess(r, u, p, isPrivate)
                                \/ BeginArchive(r, u, p) \/ BeginUnarchive(r, u, p)
                                \/ BeginDestroy(r, u, p) \/ BeginDuplicate(r, u, p)
             \/ \E p \in Pages, isPrivate, lock \in BOOLEAN, q \in Pages \cup {None} :
                  BeginUpdate(r, u, p, isPrivate, lock, q)
        \/ \E r \in Requests, p \in Pages : Create(r, p) \/ Duplicate(r, p)
        \/ \E r \in Requests :
             \/ UpdatePage(r) \/ SetLocked(r) \/ SetAccess(r) \/ DropFavorites(r)
             \/ ArchiveTree(r) \/ LookAtParent(r) \/ Detach(r) \/ UnarchiveTree(r)
             \/ FreeChildren(r) \/ SoftDelete(r) \/ Unlink(r) \/ ProjectIDs(r) \/ StatementFails(r)
        \/ \E u \in Users, p \in Pages : Favorite(u, p) \/ Unfavorite(u, p)

Spec == Init /\ [][Next]_vars

-----------------------------------------------------------------------------
(* Properties.                                                             *)

\* archive takes the descendants along and unarchive cuts a page off an archived
\* parent ("so we don't break the hierarchy", page/handlers.go:525): a page outside
\* the archive has no parent inside, unless it was moved or created there, or two
\* requests overlapped on it, or a statement failed.
SubtreesArchived == Misfiled \subseteq doubtful

\* Every page can be reached from a root that the list of its project shows, unless it or
\* a page above it was put below itself, below a deleted page or into another project by
\* a request that names the parent, or lost its place to an overlap or a failure.
PagesReachable ==
  \A p \in Present : \E q \in Pages :
    /\ p \in Descendants(q)
    /\ \/ q \in doubtful \/ BelowItself(q)
       \/ \E u \in Users : q \in List(u, Project[p])

\* A page that is locked while no PATCH has read it stays locked until it is
\* unlocked.
LocksHold == pinned \subseteq locked

\* "Only the owner may change access." (page/handlers.go:351), unless a PATCH by
\* somebody else writes back the access it has read before.
AccessByOwner ==
  [][\A p \in Present : (p \in private) # (p \in private') =>
       \E r \in Requests : /\ req'[r] # req[r] /\ req[r].page = p
                          /\ (req[r].user = owner[p] \/ req[r].stale)]_vars

\* The types, with the two halves of a sound tree: nothing listed below the archive,
\* nothing out of reach.
PagesInv == TypeOK /\ SubtreesArchived /\ PagesReachable
=============================================================================
