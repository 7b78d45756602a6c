----------------------------- MODULE MCCommands -----------------------------
(* Commands for TLC: processes and caller keys are interchangeable.         *)
EXTENDS Commands, TLC

Symmetry == Permutations(Procs) \cup Permutations(Keys)
=============================================================================
