----------------------------- MODULE MCMembership -----------------------------
EXTENDS Membership, TLC

CONSTANTS u1, u2, k1, k2, w1, i1, p1

VARIABLES spent, \* requests that have begun
          theme \* which handlers run: "accounts", "workspaces" or "projects"

\* Accounts begin with nobody.  Otherwise u1 and u2 are signed in and w1 is there,
\* with a seat for u2 when the projects are looked at.
MCInit ==
  /\ theme \in {"accounts", "workspaces", "projects"}
  /\ LET there == theme # "accounts" IN
     /\ account = [u \in Users |-> IF there THEN "active" ELSE "absent"]
     /\ password = [u \in Users |-> IF there THEN CHOOSE pw \in Passwords : TRUE ELSE None]
     /\ drawn = IF there THEN {k1, k2} ELSE {}
     /\ sessions = IF there THEN {[key |-> k1, user |-> u1, expired |-> FALSE],
                                  [key |-> k2, user |-> u2, expired |-> FALSE]} ELSE {}
     /\ entered = [u \in Users |-> IF there THEN 1 ELSE 0]
     /\ owner = [w \in Workspaces |-> IF there /\ w = w1 THEN u1 ELSE None]
     /\ seat = [w \in Workspaces |->
                  [u \in Users |-> CASE there /\ w = w1 /\ u = u1 -> Admin
                                     [] theme = "projects" /\ w = w1 /\ u = u2 -> Member
                                     [] OTHER -> NoRole]]
     /\ invite = [i \in Invites |->
          IF theme = "projects" /\ i = i1
          THEN [to |-> u2, ws |-> w1, role |-> Member, accepted |-> TRUE] ELSE NoInvite]
  /\ call = [c \in Calls |-> Quiet] /\ overlap = {} /\ unrotated = {}
  /\ project = [p \in Projects |->
       IF p = p1 /\ theme = "projects"
       THEN [NoProject EXCEPT !.ws = w1, !.creator = u1, !.states = DefaultStates]
       ELSE NoProject]
  /\ crew = [p \in Projects |->
       IF p = p1 /\ theme = "projects" THEN [NoRoles EXCEPT ![u1] = Admin] ELSE NoRoles]
  /\ asked = [p \in Projects |-> [on |-> {}, role |-> crew[p]]]
  /\ req = [r \in Requests |-> Idle]
  /\ botched = {} /\ doubtful = {}
  /\ accepted = IF theme = "projects" THEN {<<i1, u2>>} ELSE {}
  /\ spent = 0

Budget == [accounts |-> 3, workspaces |-> 4, projects |-> 3]
Themes == [accounts |-> {"scramble", "set", "create", "start"},
           workspaces |-> {"create workspace", "join"},
           projects |-> {"create project", "switch", "enlist", "role", "keep role"}]

Begun == {call'[c].at : c \in {d \in Calls : call[d] = Quiet /\ call'[d] # Quiet}} \cup
         {req'[r].at : r \in {q \in Requests : req[q] = Idle /\ req'[q] # Idle}} 
OneStatement == req' = req /\ (invite' # invite \/ project' # project)
MCNext ==
  /\ Next
  /\ theme' = theme
  /\ Begun \subseteq Themes[theme]
  /\ theme # "accounts" => accountVars' = accountVars
  /\ invite' # invite => theme = "workspaces"
  /\ spent' = IF Begun # {} \/ OneStatement THEN spent + 1 ELSE spent
  /\ spent' <= Budget[theme]
MCSpec == MCInit /\ [][MCNext]_<<vars, spent, theme>>

Symmetric == Permutations(Requests) \cup Permutations(Calls)
=============================================================================
