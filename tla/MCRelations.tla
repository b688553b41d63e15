----------------------------- MODULE MCRelations -----------------------------
EXTENDS Relations, TLC

\* At most two rows at the start: requests on other relations do not meet.
FewRows == Init /\ Cardinality(table) <= 2
MCSpec == FewRows /\ [][Next]_vars

Symmetric == Permutations(Issues) \cup Permutations(Requests)
=============================================================================
