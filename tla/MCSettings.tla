------------------------------ MODULE MCSettings ------------------------------
(***************************************************************************)
(* Two tabs and one collecting process over two interests and two sources. *)
(***************************************************************************)
EXTENDS Settings, TLC

Symmetry == Permutations(Tabs) \cup Permutations(Topics) \cup Permutations(Keys)
=============================================================================
