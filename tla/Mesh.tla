-------------------------------- MODULE Mesh --------------------------------
(***************************************************************************)
(* The peers that a node knows: the tables of the mesh manager             *)
(* (internal/mesh/manager.go), the life of a Peer (peer.go), the updates   *)
(* from the coordinator (topology.go), the collector (gcLoop), and what    *)
(* the engine does to a Peer that it has at hand.                          *)
(*                                                                         *)
(* The manager's lock protects the tables and every Peer has a lock of its *)
(* own: the collector keeps the manager's for a whole run, during which    *)
(* the engine goes on changing peers.  A Peer is a memory cell, which is   *)
(* free again when no table has it; what is done to a peer that has left   *)
(* the tables never shows in them and is left out.  A peer that is         *)
(* connecting counts as discovered and a relayed one as direct: nothing    *)
(* here tells them apart.                                                  *)
(***************************************************************************)
EXTENDS Integers

CONSTANTS
    Keys,           \* public keys of the other nodes
    VIPs,           \* virtual addresses
    Peers,          \* memory cells for peers
    NoPeer,         \* nil
    Collecting      \* gcLoop runs

ASSUME MeshAssumption ==
    /\ NoPeer \notin Peers
    /\ Collecting \in BOOLEAN

VARIABLES
    peers, byVIP,           \* Manager.peers and Manager.byVIP
    peer,                   \* what each cell contains, or NoPeer
    phase, list, todo,      \* the Apply in progress: its nodes, those not yet applied
    unlisted, found,        \* its keys to remove, and the peer that Remove has found
    gc, left,               \* the run of gcLoop: its loop, and the peers left in it
    shared,                 \* history: addresses given to a peer while another had them
    heard, dialled          \* history: peers that the engine moved since the removing
                            \* of the last update began, having heard from them or not

applyVars == <<phase, list, todo, unlisted, found>>
gcVars == <<gc, left>>
moved == <<heard, dialled>>
vars == <<peers, byVIP, peer, applyVars, gcVars, shared, moved>>

\* age: 0, 1 after idleTimeout (5 minutes), 2 after expiredTimeout (10 minutes).
PeerRecords ==
    [key : Keys, vip : VIPs, state : {"discovered", "direct", "idle", "expired"}, age : 0 .. 2]

\* An active node of an update.  The coordinator gives no address to two nodes, but
\* registrations that overlap may leave two nodes of one key.
Nodes == [key : Keys, vip : VIPs]

Lists == {l \in SUBSET Nodes : \A m, n \in l : m.vip = n.vip => m = n}

Known == {peers[k] : k \in Keys} \ {NoPeer}

Free == Peers \ (Known \cup {byVIP[v] : v \in VIPs} \cup {found})

\* The manager's lock is free (the write lock of gcLoop excludes all others).
Unlocked == gc = "off"

Init ==
    /\ peers = [k \in Keys |-> NoPeer] /\ byVIP = [v \in VIPs |-> NoPeer]
    /\ peer = [p \in Peers |-> NoPeer]
    /\ phase = "idle" /\ list = {} /\ todo = {} /\ unlisted = {} /\ found = NoPeer
    /\ gc = "off" /\ left = {}
    /\ shared = {} /\ heard = {} /\ dialled = {}

-----------------------------------------------------------------------------
(* Apply, on the goroutine that polls. *)

ApplyStart(l) ==
    /\ phase = "idle"
    /\ phase' = "adding" /\ list' = l /\ todo' = l
    /\ heard' = {} /\ dialled' = {}
    /\ UNCHANGED <<peers, byVIP, peer, unlisted, found, gcVars, shared>>

NewPeer(n) == [key |-> n.key, vip |-> n.vip, state |-> "discovered", age |-> 0]

\* AddOrUpdate of an unknown key, under the manager's lock.
Add(n) ==
    /\ peers[n.key] = NoPeer
    /\ \E p \in Free :
           /\ peer' = [peer EXCEPT ![p] = NewPeer(n)]
           /\ peers' = [peers EXCEPT ![n.key] = p]
           /\ byVIP' = [byVIP EXCEPT ![n.vip] = p]
    /\ shared' = IF byVIP[n.vip] = NoPeer THEN shared ELSE shared \cup {n.vip}

\* MUTANT of Updated: the peer takes the new address, and byVIP is not told.
UpdatedVIP(p, n) ==
    [p EXCEPT !.state = IF @ = "expired" THEN "discovered" ELSE @, !.vip = n.vip]

\* A known peer keeps its address, also when the update gives it another (or its key
\* comes a second time in one update), and the time it was last heard from.
Updated(p, n) == [p EXCEPT !.state = IF @ = "expired" THEN "discovered" ELSE @]

Update(n) ==
    /\ peers[n.key] # NoPeer
    /\ peer' = [peer EXCEPT ![peers[n.key]] = Updated(@, n)]
    /\ UNCHANGED <<peers, byVIP, shared>>

AddOrUpdate(n) ==
    /\ phase = "adding" /\ n \in todo
    /\ Unlocked
    /\ Add(n) \/ Update(n)
    /\ todo' = todo \ {n}
    /\ UNCHANGED <<phase, list, unlisted, found, gcVars, moved>>

\* ListPeers, and which of the peers have not been seen in the update.
ListPeers ==
    /\ phase = "adding" /\ todo = {}
    /\ Unlocked
    /\ phase' = "removing"
    /\ unlisted' = {k \in Keys : peers[k] # NoPeer} \ {n.key : n \in list}
    /\ UNCHANGED <<peers, byVIP, peer, list, todo, found, gcVars, shared, moved>>

\* Remove finds the peer under the lock, and marks it after releasing it.
RemoveFind(k) ==
    /\ phase = "removing" /\ found = NoPeer /\ k \in unlisted
    /\ Unlocked
    /\ found' = peers[k]
    /\ unlisted' = unlisted \ {k}
    /\ UNCHANGED <<peers, byVIP, peer, phase, list, todo, gcVars, shared, moved>>

\* MUTANT of Marked: a peer that is not connected is left as it is.
MarkedConnected(p) == IF p.state = "direct" THEN [p EXCEPT !.state = "expired"] ELSE p

Marked(p) == [p EXCEPT !.state = "expired"]

RemoveMark ==
    /\ found # NoPeer
    /\ peer' = IF found \in Known THEN [peer EXCEPT ![found] = Marked(@)] ELSE peer
    /\ found' = NoPeer
    /\ heard' = heard \ {found} /\ dialled' = dialled \ {found}
    /\ UNCHANGED <<peers, byVIP, phase, list, todo, unlisted, gcVars, shared>>

ApplyEnd ==
    /\ phase = "removing" /\ unlisted = {} /\ found = NoPeer
    /\ phase' = "idle"
    /\ UNCHANGED <<peers, byVIP, peer, list, todo, unlisted, found, gcVars, shared, moved>>

-----------------------------------------------------------------------------
(* gcLoop: one run, under the manager's lock. *)

GCStart ==
    /\ Collecting
    /\ gc = "off"
    /\ gc' = "idle" /\ left' = Known
    /\ UNCHANGED <<peers, byVIP, peer, applyVars, shared, moved>>

\* IdleCheck: an old peer passes from direct to expired in one call.
Idled(p) ==
    LET idle == p.state = "idle" \/ (p.state = "direct" /\ p.age >= 1)
    IN  [p EXCEPT !.state = IF idle /\ p.age = 2 THEN "expired" ELSE IF idle THEN "idle" ELSE @]

GCIdle(p) ==
    /\ gc = "idle" /\ p \in left
    /\ peer' = [peer EXCEPT ![p] = Idled(@)]
    /\ left' = left \ {p}
    /\ UNCHANGED <<peers, byVIP, applyVars, gc, shared, moved>>

\* MUTANT of Delete: the index by address is forgotten.
DeleteByKey(p) ==
    /\ peers' = [peers EXCEPT ![peer[p].key] = NoPeer]
    /\ UNCHANGED byVIP

\* The entry of its address goes, whichever peer it is for.
Delete(p) ==
    /\ peers' = [peers EXCEPT ![peer[p].key] = NoPeer]
    /\ byVIP' = [byVIP EXCEPT ![peer[p].vip] = NoPeer]

IsExpired(p) == p.state = "expired" \/ p.age = 2

GCExpire(p) ==
    /\ gc = "expire" /\ p \in left
    /\ IF IsExpired(peer[p])
       THEN /\ Delete(p)
            /\ peer' = [peer EXCEPT ![p] = NoPeer]
            /\ heard' = heard \ {p} /\ dialled' = dialled \ {p}
       ELSE UNCHANGED <<peers, byVIP, peer, moved>>
    /\ left' = left \ {p}
    /\ UNCHANGED <<applyVars, gc, shared>>

\* The second loop, or the end of the run.
GCNext ==
    /\ gc # "off" /\ left = {}
    /\ IF gc = "idle" THEN gc' = "expire" /\ left' = Known
                      ELSE gc' = "off" /\ left' = {}
    /\ UNCHANGED <<peers, byVIP, peer, applyVars, shared, moved>>

-----------------------------------------------------------------------------
(* The engine, with the pointers it has, and time.  Under the peer's lock only. *)

Moved(p, s) == [p EXCEPT !.state = s]

Touched(p) ==
    [key |-> p.key, vip |-> p.vip, state |-> IF p.state = "idle" THEN "direct" ELSE p.state, age |-> 0]

Aged(p) == [p EXCEPT !.age = @ + 1]

Recorded(p, s) ==
    IF s = "direct" THEN heard' = heard \cup {p} /\ UNCHANGED dialled
                    ELSE dialled' = dialled \cup {p} /\ UNCHANGED heard

\* The engine makes a peer direct when a handshake with it or a packet from it has
\* been verified, and discovered when it dials the peer or a handshake times out:
\* for these it need not have heard anything from the peer.
Transition(p, s) ==
    /\ p \in Known
    /\ peer[p].state # s
    /\ peer' = [peer EXCEPT ![p] = Moved(@, s)]
    /\ \/ phase = "adding" /\ UNCHANGED moved
       \/ phase # "adding" /\ Recorded(p, s)
    /\ UNCHANGED <<peers, byVIP, applyVars, gcVars, shared>>

\* A packet has been received from the peer.
Touch(p) ==
    /\ p \in Known
    /\ peer' = [peer EXCEPT ![p] = Touched(@)]
    /\ UNCHANGED <<peers, byVIP, applyVars, gcVars, shared, moved>>

\* Five minutes without a packet from the peer.
Pass(p) ==
    /\ p \in Known
    /\ peer[p].age < 2
    /\ peer' = [peer EXCEPT ![p] = Aged(@)]
    /\ UNCHANGED <<peers, byVIP, applyVars, gcVars, shared, moved>>

Next ==
    \/ \E l \in Lists : ApplyStart(l)
    \/ \E n \in Nodes : AddOrUpdate(n)
    \/ ListPeers \/ (\E k \in Keys : RemoveFind(k)) \/ RemoveMark \/ ApplyEnd
    \/ GCStart \/ (\E p \in Peers : GCIdle(p) \/ GCExpire(p)) \/ GCNext
    \/ \E p \in Peers : Touch(p) \/ Pass(p) \/ \E s \in {"discovered", "direct"} : Transition(p, s)

Spec == Init /\ [][Next]_vars

-----------------------------------------------------------------------------
(* Properties. *)

TypeOK ==
    /\ peers \in [Keys -> Peers \cup {NoPeer}] /\ byVIP \in [VIPs -> Peers \cup {NoPeer}]
    /\ peer \in [Peers -> PeerRecords \cup {NoPeer}] /\ \A p \in Known : peer[p] \in PeerRecords
    /\ phase \in {"idle", "adding", "removing"} /\ list \in Lists /\ todo \subseteq list
    /\ unlisted \subseteq Keys /\ found \in Peers \cup {NoPeer}
    /\ gc \in {"off", "idle", "expire"} /\ left \subseteq Peers
    /\ shared \subseteq VIPs /\ heard \subseteq Peers /\ dialled \subseteq Peers

\* The two tables agree: what is found at an address has that address, and is the
\* peer that is known by its key, never one that has been collected or replaced.
\* Packets for an address are encrypted for the key of the peer found there.
IndexSound ==
    \A v \in VIPs : byVIP[v] # NoPeer =>
        \E k \in Keys : byVIP[v] = peers[k] /\ peer[peers[k]].key = k /\ peer[peers[k]].vip = v

\* Every known peer can be found at its address, unless that was given to a second
\* peer while another still had it.
IndexComplete ==
    \A k \in Keys : peers[k] # NoPeer =>
        \/ byVIP[peer[peers[k]].vip] = peers[k]
        \/ peer[peers[k]].vip \in shared

\* After an update a peer missing from it is not routable, whatever the collector did
\* meanwhile, unless the engine has heard from it since it was marked, or is dialling
\* it: the router asks only whether a peer is expired, so a dial or the timeout of a
\* handshake makes a peer that has left routable again.  It does not pass for
\* connected on that account.
UnlistedExpired ==
    phase = "idle" =>
        \A p \in Known :
            \/ \E n \in list : n.key = peer[p].key
            \/ peer[p].state = "expired"
            \/ p \in heard
            \/ p \in dialled /\ peer[p].state = "discovered"
=============================================================================
