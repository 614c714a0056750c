------------------------------ MODULE MCRelay ------------------------------
(* Model-checking instances of Relay: one node reconnects, another does not. *)
EXTENDS Relay, TLC

CONSTANTS c1, c2, c3, k1, k2

MCKeyOf == (c1 :> k1) @@ (c2 :> k1) @@ (c3 :> k2)
=============================================================================
