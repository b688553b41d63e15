---------------------------- MODULE MCDispatcher -----------------------------
(* Small pools for TLC: workers and stoppers are interchangeable.           *)
EXTENDS Dispatcher, TLC

Symmetric == Permutations(Workers) \cup Permutations(Stoppers)
=============================================================================
