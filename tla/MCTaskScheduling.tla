-------------------------- MODULE MCTaskScheduling --------------------------
(* Model-checking instance of TaskScheduling: execution slots are             *)
(* interchangeable, so safety runs reduce by their symmetry.                  *)
EXTENDS TaskScheduling, TLC

Slots == Permutations(Pool) \cup Permutations(Handlers)
=============================================================================
