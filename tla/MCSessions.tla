------------------------------ MODULE MCSessions -----------------------------
(* Sessions for TLC.  Clients are interchangeable.                          *)
EXTENDS Sessions, TLC

Symmetry == Permutations(Clients)
=============================================================================
