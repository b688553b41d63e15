----------------------------- MODULE MCWorkflow ------------------------------
(* Two of the five seeded states, the default one and a completed one, and  *)
(* an id that is of none of them.  A seeding that stops early leaves the    *)
(* user to create them.                                                     *)
EXTENDS Workflow, TLC

CONSTANTS backlog, done, other

VARIABLES theme \* "home": two issues; "abroad": one, and requests that name the other id

MCSeeds == <<backlog, done>>

OfTheme == /\ theme = "home" => \A r \in Requests : req[r].s # other
           /\ theme = "abroad" => \E i \in Issues : /\ issueRow[i] = "absent"
                                                   /\ \A r \in Requests : i \notin req[r].all

MCInit == Init /\ theme \in {"home", "abroad"}
MCNext == Next /\ theme' = theme /\ OfTheme'
MCSpec == MCInit /\ [][MCNext]_<<vars, theme>>

Symmetric == Permutations(Issues) \cup Permutations(Requests)
=============================================================================
