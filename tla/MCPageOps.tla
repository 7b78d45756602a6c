------------------------------ MODULE MCPageOps ------------------------------
(* PageOps for TLC: the constants get their values in the .cfg files.       *)
EXTENDS PageOps, TLC

(* Trees are opaque, and clients and trees are interchangeable.             *)
Symmetry == Permutations(Trees) \cup Permutations(Clients)
=============================================================================
