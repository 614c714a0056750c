----------------------------- MODULE MCRegistry -----------------------------
(* Model-checking instances of Registry.  A scenario, chosen at the start,  *)
(* bounds what happens: requests that overlap while writes fail and the     *)
(* server crashes, or the life of the nodes and keys, one request at a time. *)
(* Goroutines and nodes are interchangeable.                                *)
EXTENDS Registry, TLC

VARIABLE scenario

Symmetry == Permutations(Handlers) \cup Permutations(PubKeys)

Within ==
    \/ /\ scenario = "crash"
       /\ minted \subseteq Ephemeral /\ now = 0 /\ version < MaxVersion
       /\ Cardinality(approved \cup removed) <= 1
    \/ /\ scenario = "life"
       /\ \A x, y \in {h \in Handlers : pc[h] # "idle"} \cup touching : x = y
       /\ lastId < MaxIds /\ fails = 0 /\ lapsed = {}

MCInit == Init /\ scenario \in {"crash", "life"}

\* A step within the scenario.
Stays == UNCHANGED scenario /\ Within'

\* Next, with its actions told apart.
MCNext ==
    \/ \E h \in Handlers :
        \/ \E k \in PubKeys, a \in AuthKeys : RegStart(h, k, a) /\ Stays
        \/ RegLookup(h) /\ Stays
        \/ RegUpdate(h) /\ Stays
        \/ RegAllocate(h) /\ Stays
        \/ RegAdd(h) /\ Stays
        \/ RegMark(h) /\ Stays
    \/ \E k \in PubKeys :
        \/ TouchVerify(k) /\ Stays
        \/ TouchUpdate(k) /\ Stays
    \/ \E n \in nodes :
        \/ Approve(n) /\ Stays
        \/ DeleteNode(n) /\ Stays
    \/ \E a \in AuthKeys :
        \/ AddAuthKey(a) /\ Stays
        \/ DeleteAuthKey(a) /\ Stays
        \/ Lapse(a) /\ Stays
    \/ Tick /\ Stays
    \/ RunGC /\ Stays
    \/ Crash /\ Stays

MCSpec == MCInit /\ [][MCNext]_<<vars, scenario>>

-----------------------------------------------------------------------------

\* A node's address and an ephemeral key's single use, of VIPStable and
\* EphemeralOnceIfUp, are promised for registrations that do not overlap.
VIPStableAlone == scenario = "life" => VIPStable
EphemeralOnceAlone == scenario = "life" => EphemeralOnceIfUp
=============================================================================
