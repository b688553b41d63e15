---------------------------- MODULE MCDeliveries -----------------------------
EXTENDS Deliveries, FiniteSetsExt, TLC

CONSTANTS Budget,    \* what arrives: a PATCH counts 3, a visit 2
          FieldsSent \* fields that the bodies of the PATCHes set, together

Begun == {p \in Patches : patch[p].at # "new"}
Arrived == 3 * Cardinality(Begun) + 2 * Cardinality({v \in Visits : visit[v].at # "new"})
Sent == MapThenSumSet(LAMBDA p : Cardinality(DOMAIN patch[p].body), Begun)

\* Two hooks concern the event of one PATCH, two PATCHes the events for one hook.
Involved == hooks \cup UNION {window[p].ever : p \in Patches}
OneEventOrHook == Cardinality(Begun) <= 1 \/ Cardinality(Involved) <= 1

NameThenPriority == <<"name", "priority">>

MCInit == Init /\ \A f \in Fields : issue[f] = "low"
MCNext == Next /\ Arrived' <= Budget /\ Sent' <= FieldsSent /\ OneEventOrHook'
MCSpec == MCInit /\ [][MCNext]_vars

Symmetric == Permutations(Patches) \cup Permutations(Visits) \cup Permutations(Hooks)
=============================================================================
