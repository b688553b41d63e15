------------------------------ MODULE Membership ------------------------------
(***************************************************************************)
(* Workspaces, invitations to them, projects and who may do what there.    *)
(* Every handler runs behind Require; the user it has put into the context *)
(* and the rows the handler has read may be out of date when it writes.    *)
(* Names, colors and time zones are left out; the eight switches of a      *)
(* project stand for everything its PATCH writes back.                     *)
(***************************************************************************)
EXTENDS Accounts

CONSTANTS Workspaces, \* the slugs of workspaces
          Invites,    \* ids of workspace_member_invites rows
          Projects,   \* ids of projects rows
          Switches,   \* module_view, cycle_view, ...
          DefaultStates, \* how many states a new project is given
          Requests    \* goroutines serving the requests of this module

ASSUME MembershipSets == DefaultStates \in Nat \ {0} /\ None \notin Users \cup Workspaces

Guest == 5
Member == 15
Admin == 20
Roles == {Guest, Member, Admin}
NoRole == 0 \* no row

VARIABLES owner,    \* owner[w]: owner_id of the workspace, None before it is created
          seat,     \* seat[w][u]: role in workspace_members
          invite,   \* invite[i]: a row of workspace_member_invites
          project,  \* project[p]: a row of projects
          crew,     \* crew[p][u]: role in project_members
          req,      \* req[r]: the handler r is in, its next statement, its locals
          botched,  \* history: workspaces, invitations and projects that a failing
                    \* statement or an invitation accepted too early has left incomplete
          accepted, \* history: who has accepted which invitation
          asked,    \* history: asked[p]: roles and switches as they were last asked for
          doubtful  \* history: projects where one PATCH has written what it read
                    \* before another one wrote

memberRows == <<owner, seat, invite, project, crew>>
histories == <<botched, accepted, asked, doubtful>>
vars == <<accountVars, memberRows, req, histories>>

NoInvite == [to |-> None, ws |-> None, role |-> NoRole, accepted |-> FALSE]
Invite == [to : Users, ws : Workspaces, role : Roles, accepted : BOOLEAN] \cup {NoInvite}
NoProject == [ws |-> None, creator |-> None, deleted |-> FALSE, archived |-> FALSE,
              on |-> {}, states |-> 0]
Project == [ws : Workspaces, creator : Users, deleted : BOOLEAN, archived : BOOLEAN,
            on : SUBSET Switches, states : 0..DefaultStates] \cup {NoProject}

Idle == [at |-> "idle", user |-> None, ws |-> None, id |-> None, role |-> NoRole,
         on |-> {}, switch |-> None, member |-> None, old |-> FALSE]
Steps == {"idle", "create workspace", "seat", "join", "mark", "create project", "lead", "seed",
          "switch", "enlist", "role", "keep role"}
Request == [at : Steps, user : Users \cup {None}, ws : Workspaces \cup {None},
            id : Invites \cup Projects \cup {None}, role : Roles \cup {NoRole},
            on : SUBSET Switches, switch : Switches \cup {None}, member : Users \cup {None},
            old : BOOLEAN]

TypeOK == /\ AccountsOK
          /\ owner \in [Workspaces -> Users \cup {None}]
          /\ seat \in [Workspaces -> [Users -> Roles \cup {NoRole}]]
          /\ \A w \in Workspaces, u \in Users : seat[w][u] # NoRole => owner[w] # None
          /\ invite \in [Invites -> Invite]
          /\ project \in [Projects -> Project]
          /\ crew \in [Projects -> [Users -> Roles \cup {NoRole}]]
          /\ req \in [Requests -> Request]
          /\ botched \subseteq Workspaces \cup Invites \cup Projects
          /\ accepted \subseteq Invites \X Users
          /\ doubtful \subseteq Projects

NoRoles == [u \in Users |-> NoRole]

Init == /\ AccountsInit
        /\ owner = [w \in Workspaces |-> None]
        /\ seat = [w \in Workspaces |-> NoRoles]
        /\ invite = [i \in Invites |-> NoInvite]
        /\ project = [p \in Projects |-> NoProject]
        /\ crew = [p \in Projects |-> NoRoles]
        /\ req = [r \in Requests |-> Idle]
        /\ botched = {} /\ accepted = {} /\ doubtful = {}
        /\ asked = [p \in Projects |-> [on |-> {}, role |-> NoRoles]]

-----------------------------------------------------------------------------
SignedIn(u) == \E k \in Keys : Require(u, k)

Begin(r, step, u, more) ==
  /\ req[r] = Idle /\ SignedIn(u)
  /\ req' = [req EXCEPT ![r] = [more EXCEPT !.at = step, !.user = u]]
  /\ UNCHANGED <<accountVars, memberRows, histories>>

At(r, step) == req[r].at = step /\ UNCHANGED accountVars

Continue(r, step) == req' = [req EXCEPT ![r] = IF step = "idle" THEN Idle
                                                ELSE [req[r] EXCEPT !.at = step]]

\* Like Continue; whatever another request has read of the project is out of date now.
Outdate(r, step, p) == req' = [q \in Requests |->
  IF q = r THEN (IF step = "idle" THEN Idle ELSE [req[r] EXCEPT !.at = step])
  ELSE [req[q] EXCEPT !.old = @ \/ req[q].id = p]]

\* GetWorkspaceBySlug, GetProjectByID.
GetWorkspaceBySlug(w) == owner[w] # None
GetProjectByID(w, p) == project[p].ws = w /\ ~project[p].deleted

-----------------------------------------------------------------------------
(* Workspaces and invitations.                                             *)

BeginCreateWorkspace(r, u, w) == Begin(r, "create workspace", u, [Idle EXCEPT !.ws = w])

\* The slug is unique.
CreateWorkspace(r) ==
  LET w == req[r].ws IN
  /\ At(r, "create workspace")
  /\ IF owner[w] # None THEN Continue(r, "idle") /\ owner' = owner
     ELSE owner' = [owner EXCEPT ![w] = req[r].user] /\ Continue(r, "seat")
  /\ UNCHANGED <<seat, invite, project, crew, histories>>

\* on conflict do nothing: whoever has a seat keeps it as it is.
SeatedUpdate(w, u, role) == [seat EXCEPT ![w][u] = role]
Seated(w, u, role) == [seat EXCEPT ![w][u] = IF @ = NoRole THEN role ELSE @]

AddOwnerAsMember(r) == /\ At(r, "seat")
              /\ seat' = Seated(req[r].ws, req[r].user, Member)
              /\ Continue(r, "idle")
              /\ UNCHANGED <<owner, invite, project, crew, histories>>
AddOwner(r) ==
  LET w == req[r].ws u == req[r].user IN
  /\ At(r, "seat")
  /\ seat' = Seated(w, u, Admin)
  /\ botched' = IF seat[w][u] # NoRole THEN botched \cup {w} ELSE botched
  /\ Continue(r, "idle")
  /\ UNCHANGED <<owner, invite, project, crew, accepted, asked, doubtful>>

\* The workspaces of a user, each with the role there.
ListUserWorkspaces(u) == [w \in {x \in Workspaces : owner[x] # None /\ seat[x][u] # NoRole}
                            |-> seat[w][u]]

\* createInvites, one address at a time; nobody asks whether it has a seat already.
CreateWorkspaceInvite(u, w, i, to, role) ==
  /\ SignedIn(u) /\ GetWorkspaceBySlug(w) /\ invite[i] = NoInvite
  /\ invite' = [invite EXCEPT ![i] = [to |-> to, ws |-> w, role |-> role, accepted |-> FALSE]]
  /\ UNCHANGED <<accountVars, owner, seat, project, crew, req, histories>>

\* The invitations a user is shown, each until somebody has accepted it.
ListInvitesForEmail(u) == {i \in Invites : invite[i].to = u /\ ~invite[i].accepted}

\* acceptInvites: the invitation is read by its id, the seat is added, the row is
\* marked.  Neither its address nor whether it was accepted before is looked at.
GetInvite(r, u, i) ==
  /\ invite[i] # NoInvite
  /\ Begin(r, "join", u, [Idle EXCEPT !.id = i, !.ws = invite[i].ws, !.role = invite[i].role])

AddInvitedAsMember(r) ==
  /\ At(r, "join")
  /\ seat' = Seated(req[r].ws, req[r].user, Member)
  /\ Continue(r, "mark")
  /\ UNCHANGED <<owner, invite, project, crew, histories>>
AddInvited(r) ==
  /\ At(r, "join")
  /\ seat' = Seated(req[r].ws, req[r].user, req[r].role)
  /\ Continue(r, "mark")
  /\ UNCHANGED <<owner, invite, project, crew, histories>>

AcceptInvite(r) ==
  LET i == req[r].id IN
  /\ At(r, "mark")
  /\ invite' = [invite EXCEPT ![i].accepted = TRUE]
  /\ accepted' = accepted \cup {<<i, req[r].user>>}
  /\ Continue(r, "idle")
  /\ UNCHANGED <<owner, seat, project, crew, botched, asked, doubtful>>

-----------------------------------------------------------------------------
(* Projects.                                                               *)

BeginCreateProject(r, u, w, p) ==
  /\ GetWorkspaceBySlug(w)
  /\ Begin(r, "create project", u, [Idle EXCEPT !.ws = w, !.id = p])

CreateProject(r) ==
  LET p == req[r].id IN
  /\ At(r, "create project")
  /\ IF project[p] # NoProject THEN Continue(r, "idle") /\ project' = project
     ELSE /\ project' = [project EXCEPT ![p] = [NoProject EXCEPT !.ws = req[r].ws,
                                                                 !.creator = req[r].user]]
          /\ Continue(r, "lead")
  /\ UNCHANGED <<owner, seat, invite, crew, histories>>

\* Writes a row of project_members.
Enlist(p, u, role) == crew' = [crew EXCEPT ![p][u] = role]

AddCreator(r) ==
  LET p == req[r].id u == req[r].user IN
  /\ At(r, "lead")
  /\ Enlist(p, u, Admin)
  /\ asked' = [asked EXCEPT ![p].role[u] = Admin]
  /\ Outdate(r, "seed", p)
  /\ UNCHANGED <<owner, seat, invite, project, botched, accepted, doubtful>>

\* SeedDefaults: one state after the other.
SeedDefaults(r) ==
  LET p == req[r].id IN
  /\ At(r, "seed")
  /\ project' = [project EXCEPT ![p].states = @ + 1]
  /\ Continue(r, IF project[p].states + 1 = DefaultStates THEN "idle" ELSE "seed")
  /\ UNCHANGED <<owner, seat, invite, crew, histories>>

\* retrieve: what a user is answered.
Retrieve(u, w, p) == CASE ~GetProjectByID(w, p) \/ project[p].archived -> 404
                       [] seat[w][u] = NoRole -> 403
                       [] crew[p][u] = NoRole -> 409
                       [] OTHER -> 200

With(on, s, value) == IF value THEN on \cup {s} ELSE on \ {s}

\* update: an admin of the workspace or of the project sets a switch; the others
\* are written back as they were read.
IsWorkspaceOrProjectAdmin(u, w, p) == seat[w][u] = Admin \/ crew[p][u] = Admin

BeginUpdateProjectBlank(r, u, w, p, s, value) ==
  /\ GetProjectByID(w, p) /\ IsWorkspaceOrProjectAdmin(u, w, p)
  /\ Begin(r, "switch", u, [Idle EXCEPT !.ws = w, !.id = p, !.switch = s,
                                        !.on = With({}, s, value)])
BeginUpdateProject(r, u, w, p, s, value) ==
  /\ GetProjectByID(w, p) /\ IsWorkspaceOrProjectAdmin(u, w, p)
  /\ Begin(r, "switch", u, [Idle EXCEPT !.ws = w, !.id = p, !.switch = s,
                                        !.on = With(project[p].on, s, value)])

UpdateProjectFeatures(r) ==
  LET p == req[r].id
      s == req[r].switch IN
  /\ At(r, "switch")
  /\ IF project[p].deleted THEN Continue(r, "idle") /\ UNCHANGED <<project, asked, doubtful>>
     ELSE /\ project' = [project EXCEPT ![p].on = req[r].on]
          /\ asked' = [asked EXCEPT ![p].on = With(@, s, s \in req[r].on)]
          /\ doubtful' = IF req[r].old THEN doubtful \cup {p} ELSE doubtful
          /\ Outdate(r, "idle", p)
  /\ UNCHANGED <<owner, seat, invite, crew, botched, accepted>>

\* destroy, archive and unarchive: one statement each, on whatever project of the
\* workspace.  One that fails changes nothing; the last two do not even answer so.
Mark(u, w, p, row) == /\ SignedIn(u) /\ GetWorkspaceBySlug(w) /\ project[p].ws = w
                      /\ project' = [project EXCEPT ![p] = row]
                      /\ UNCHANGED <<accountVars, owner, seat, invite, crew, req, histories>>
SoftDeleteProject(u, w, p) == Mark(u, w, p, [project[p] EXCEPT !.deleted = TRUE])
ArchiveProject(u, w, p) == Mark(u, w, p, [project[p] EXCEPT !.archived = TRUE])
UnarchiveProject(u, w, p) == Mark(u, w, p, [project[p] EXCEPT !.archived = FALSE])

-----------------------------------------------------------------------------
(* Members of a project.                                                   *)

\* addMembers, one member at a time: somebody with a seat in the workspace of the
\* path, which need not be the project's.
GetWorkspaceMemberRole(r, u, w, p, m, role) ==
  /\ seat[w][m] # NoRole /\ project[p] # NoProject
  /\ Begin(r, "enlist", u, [Idle EXCEPT !.ws = w, !.id = p, !.member = m, !.role = role])

\* on conflict the role is replaced.
AddProjectMember(r) ==
  LET p == req[r].id m == req[r].member IN
  /\ At(r, "enlist")
  /\ Enlist(p, m, req[r].role)
  /\ asked' = [asked EXCEPT ![p].role[m] = req[r].role]
  /\ Outdate(r, "idle", p)
  /\ UNCHANGED <<owner, seat, invite, project, botched, accepted, doubtful>>

\* updateMember: without a role in the body, the role that was read is written back.
BeginUpdateMember(r, u, w, p, m, role) ==
  /\ GetWorkspaceBySlug(w) /\ crew[p][m] # NoRole
  /\ Begin(r, IF role = NoRole THEN "keep role" ELSE "role", u,
           [Idle EXCEPT !.ws = w, !.id = p, !.member = m,
                        !.role = IF role = NoRole THEN crew[p][m] ELSE role])

UpdateProjectMemberRole(r) ==
  LET p == req[r].id m == req[r].member IN
  /\ req[r].at \in {"role", "keep role"} /\ UNCHANGED accountVars
  /\ Enlist(p, m, req[r].role)
  /\ IF req[r].at = "role"
     THEN asked' = [asked EXCEPT ![p].role[m] = req[r].role] /\ doubtful' = doubtful
     ELSE asked' = asked /\ doubtful' = IF req[r].old THEN doubtful \cup {p} ELSE doubtful
  /\ Outdate(r, "idle", p)
  /\ UNCHANGED <<owner, seat, invite, project, botched, accepted>>

\* A statement that fails ends the handler.  acceptInvites drops the error of the
\* seat and marks the invitation all the same; create drops that of the states.
StatementFails(r) ==
  /\ req[r].at # "idle" /\ UNCHANGED accountVars
  /\ Continue(r, IF req[r].at = "join" THEN "mark" ELSE "idle")
  /\ botched' = botched \cup (CASE req[r].at = "seat" -> {req[r].ws}
                                [] req[r].at \in {"join", "lead", "seed"} -> {req[r].id}
                                [] OTHER -> {})
  /\ UNCHANGED <<memberRows, accepted, asked, doubtful>>

Next ==
  \/ AccountsNext /\ UNCHANGED <<memberRows, req, histories>>
  \/ \E r \in Requests, u \in Users, w \in Workspaces :
       \/ BeginCreateWorkspace(r, u, w)
       \/ \E p \in Projects : \/ BeginCreateProject(r, u, w, p)
                             \/ \E s \in Switches, value \in BOOLEAN :
                                  BeginUpdateProject(r, u, w, p, s, value)
       \/ \E p \in Projects, m \in Users : \E role \in Roles :
            \/ GetWorkspaceMemberRole(r, u, w, p, m, role)
            \/ BeginUpdateMember(r, u, w, p, m, role) \/ BeginUpdateMember(r, u, w, p, m, NoRole)
  \/ \E r \in Requests, u \in Users, i \in Invites : GetInvite(r, u, i)
  \/ \E r \in Requests : \/ CreateWorkspace(r) \/ AddOwner(r) \/ AddInvited(r) \/ AcceptInvite(r)
                        \/ CreateProject(r) \/ AddCreator(r) \/ SeedDefaults(r)
                        \/ UpdateProjectFeatures(r) \/ AddProjectMember(r)
                        \/ UpdateProjectMemberRole(r) \/ StatementFails(r)
  \/ \E u, to \in Users, w \in Workspaces, i \in Invites, role \in Roles :
       CreateWorkspaceInvite(u, w, i, to, role)
  \/ \E u \in Users, w \in Workspaces, p \in Projects :
       SoftDeleteProject(u, w, p) \/ ArchiveProject(u, w, p) \/ UnarchiveProject(u, w, p)

Spec == Init /\ [][Next]_vars

-----------------------------------------------------------------------------
(* Properties.                                                             *)

Making(id) == \E r \in Requests : /\ req[r].at \in {"seat", "lead", "seed"}
                                  /\ id \in {req[r].ws, req[r].id}

\* What create answers with 201 is whole: the owner administers the workspace, the
\* creator of a project is on its crew and its default states are there.  Only a
\* statement that failed, or an invitation that the owner accepted before the owner's
\* own seat was added, leaves less.
CreatedWhole ==
  /\ \A w \in Workspaces \ botched :
       owner[w] # None /\ ~Making(w) =>
         w \in DOMAIN ListUserWorkspaces(owner[w]) /\ ListUserWorkspaces(owner[w])[w] = Admin
  /\ \A p \in Projects \ botched : LET row == project[p] IN
       row # NoProject /\ ~Making(p) => /\ Retrieve(row.creator, row.ws, p) # 409
                                        /\ row.states = DefaultStates

\* The type invariant, and that nothing incomplete is left behind unexplained.
MembershipInv == TypeOK /\ CreatedWhole

\* An invitation leaves the list of its user only when somebody who accepted it has a
\* seat, and every seat is the owner's or has the role of an invitation to the
\* workspace; an invitation whose seat could not be added is marked all the same.
InvitesMatchSeats ==
  /\ \A i \in Invites \ botched :
       invite[i] # NoInvite /\ i \notin ListInvitesForEmail(invite[i].to) =>
         \E u \in Users : <<i, u>> \in accepted /\ seat[invite[i].ws][u] # NoRole
  /\ \A w \in Workspaces, u \in Users : seat[w][u] # NoRole =>
       \/ u = owner[w] /\ seat[w][u] = Admin
       \/ \E i \in Invites : invite[i].ws = w /\ invite[i].role = seat[w][u]

\* No second invitation, and no other way, changes the role of a seat.
SeatsStay == [][\A w \in Workspaces, u \in Users :
                  seat[w][u] # NoRole => seat'[w][u] = seat[w][u]]_vars

\* Roles and switches are as they were last asked for, unless a PATCH has written back
\* what it had read before another request wrote.
AsLastAsked == \A p \in Projects \ doubtful : /\ project[p].on = asked[p].on
                                             /\ crew[p] = asked[p].role
=============================================================================
