------------------------------ MODULE MCSession ------------------------------
(* Model-checking instances of Session: symmetry of the goroutines. *)
EXTENDS Session, TLC

Symmetry == Permutations(Senders) \cup Permutations(Receivers)
=============================================================================
