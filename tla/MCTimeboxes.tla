----------------------------- MODULE MCTimeboxes -----------------------------
EXTENDS Timeboxes, TLC

CONSTANTS Docs, docs, \* two names of modules that differ in case
          Budget,     \* rows, favorites and requests that begin, together
          LastNow     \* where the clock stops

VARIABLE spent

MCFolded == [n \in Names |-> docs]

\* Cycles and modules share no rows, issues touch neither dates nor favorites: a
\* behaviour has one kind of box, and either issues or a clock and favorites.
Without(bs) == \A b \in bs : row[b] = "absent"
WithIssues == \/ inside # {}
              \/ \E r \in Requests : req[r].at \in {"add", "remove", "transfer"}
WithTime == \/ now > 0 \/ favorites # {}
            \/ \E c \in Cycles : dates[c] # None
            \/ \E r \in Requests : req[r].at \in {"checked", "archive"}
OneTheme == (Without(Cycles) \/ Without(Modules)) /\ ~(WithIssues /\ WithTime)

MCInit == Init /\ spent = 0 /\ name = [m \in Modules |-> docs]
Begins == \E r \in Requests : req[r] = Idle /\ req'[r] # Idle
Spends == Begins \/ row' # row \/ favorites' # favorites
MCNext == /\ Next
          /\ now' <= LastNow
          /\ spent' = IF Spends THEN spent + 1 ELSE spent
          /\ spent' <= IF favorites' = {} THEN Budget ELSE Budget - 1
          /\ OneTheme'
MCSpec == MCInit /\ [][MCNext]_<<vars, spent>>

Symmetric == Permutations(Requests) \cup Permutations(Cycles) \cup Permutations(Modules)
=============================================================================
