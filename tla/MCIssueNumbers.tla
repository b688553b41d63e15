--------------------------- MODULE MCIssueNumbers ----------------------------
(* Creations of one route, and drafts, are interchangeable.                  *)
EXTENDS IssueNumbers, TLC

Symmetric == Permutations(Creates) \cup Permutations(Intakes)
             \cup Permutations(Promotions) \cup Permutations(Drafts)
=============================================================================
