------------------------------- MODULE Views --------------------------------
(***************************************************************************)
(* What the web UI promises of everything it shows: a view is a version    *)
(* its source has, or has had, and never goes back to an older one.        *)
(***************************************************************************)
EXTENDS Integers

CONSTANT Keys       \* what is shown

VARIABLES
    current,        \* per key: the version its source has
    view            \* per key: the version shown, 0 when there is none

Init ==
    /\ current = [k \in Keys |-> 1]
    /\ view = [k \in Keys |-> 0]

\* The source changes.
Change(k) ==
    /\ current' = [current EXCEPT ![k] = @ + 1]
    /\ UNCHANGED view

\* The view catches up, as far as it may.
Refresh(k) ==
    /\ \E v \in 1..current[k] :
        /\ v >= view[k]
        /\ view' = [view EXCEPT ![k] = v]
    /\ UNCHANGED current

Next == \E k \in Keys : Change(k) \/ Refresh(k)

Spec == Init /\ [][Next]_<<current, view>>
=============================================================================
