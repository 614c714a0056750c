--------------------------- MODULE MCLiveUpdates ----------------------------
(* Model-checking instance of LiveUpdates: messages of one kind, on two      *)
(* connections, so that an old one may still be ending when the next stands. *)
EXTENDS LiveUpdates

OneKind == <<"stats">>
=============================================================================
