------------------------------- MODULE MCPages -------------------------------
EXTENDS Pages, TLC

CONSTANTS Budget,     \* requests that begin, and favorites
          a, b, c, d, u1 \* pages, and the user who has created them

VARIABLES spent,
          theme \* "tree": what moves pages; "rights": who may write a page;
                \* "abroad": what moves pages of two projects

MCProject == [p \in Pages |-> IF p = d THEN "other" ELSE "home"]

\* u1 has created a and b, public, b below a or not; perhaps c below b, perhaps
\* a and b are archived.  Or else a, and d in the other project.
MCInit ==
  /\ theme \in {"tree", "rights", "abroad"}
  /\ \E made \in {{a, b}, {a, b, c}, {a, d}}, pb \in {None, a} :
       /\ row = [p \in Pages |-> IF p \in made THEN "present" ELSE "absent"]
       /\ linked = made
       /\ parent = [p \in Pages |-> CASE p = b -> pb
                                      [] p = c /\ c \in made -> b
                                      [] OTHER -> None]
       /\ owner = [p \in Pages |-> IF p \in made THEN u1 ELSE None]
       /\ d \in made <=> theme = "abroad"
       /\ IF theme = "tree" THEN c \in made => pb = a ELSE c \notin made /\ pb = None
       /\ archived = {} \/ (theme = "tree" /\ made = {a, b} /\ pb = a /\ archived = made)
  /\ locked = {} /\ private = {} /\ favorites = {}
  /\ req = [r \in Requests |-> Idle]
  /\ doubtful = {} /\ pinned = {}
  /\ spent = 0

OfTree(q) == /\ q.at \notin {"lock", "access"}
             /\ q.user = u1 /\ ~q.private /\ ~q.locked
OfRights(q) == /\ q.at \in {"create", "write", "lock", "access", "unfavorite", "projects"}
               /\ q.page # b /\ q.parent = None
Begins(r) == req[r] = Idle /\ req'[r] # Idle
OfTheme ==
  /\ \A r \in Requests :
       Begins(r) => IF theme = "rights" THEN OfRights(req'[r]) ELSE OfTree(req'[r])
  /\ theme # "rights" => favorites' = favorites
  /\ row'[IF theme = "abroad" THEN c ELSE d] = "absent"

MCNext == /\ Next
          /\ spent' = IF (\E r \in Requests : Begins(r)) \/ favorites' \ favorites # {}
                      THEN spent + 1 ELSE spent
          /\ spent' <= Budget
          /\ theme' = theme /\ OfTheme
MCSpec == MCInit /\ [][MCNext]_<<vars, spent, theme>>

Symmetric == Permutations(Requests)
=============================================================================
