------------------------------- MODULE MCMesh -------------------------------
(* Model-checking instances of Mesh: keys, addresses and cells are interchangeable. *)
EXTENDS Mesh, TLC

Symmetry == Permutations(Keys) \cup Permutations(VIPs) \cup Permutations(Peers)
=============================================================================
