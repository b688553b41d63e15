------------------------------ MODULE MCIntake -------------------------------
(* Requests are interchangeable.                                            *)
EXTENDS Intake, TLC

Symmetric == Permutations(Requests)
=============================================================================
