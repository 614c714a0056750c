----------------------------- MODULE MCLongPoll -----------------------------
(* Model-checking instances of LongPoll: the clients are interchangeable. *)
(* Runs with liveness properties use no symmetry. *)
EXTENDS LongPoll, TLC

Symmetry == Permutations(Clients)
=============================================================================
