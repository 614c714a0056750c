----------------------------- MODULE MeshProofs -----------------------------
(***************************************************************************)
(* Proofs about Mesh, for any numbers of keys, addresses and cells.        *)
(*                                                                         *)
(* The tables agree because both point to cells that are known by the key  *)
(* they contain, and because a cell that enters the tables was in neither. *)
(* The collector deletes what it finds in left, so that this contains only *)
(* known peers has to be part of the invariant.                            *)
(***************************************************************************)
EXTENDS Mesh, TLAPS

\* A peer is known by its own key.
Keyed == \A k \in Keys : peers[k] # NoPeer => peer[peers[k]].key = k

\* The collector has only known peers before it, and none when it does not run.
LeftKnown == left \subseteq Known /\ (gc = "off" => left = {})

IInv ==
    /\ TypeOK
    /\ Keyed
    /\ LeftKnown
    /\ IndexSound
    /\ IndexComplete

-----------------------------------------------------------------------------

\* Initially no peer is known.
LEMMA InitIInv == Init => IInv
<1> SUFFICES ASSUME Init PROVE IInv
  OBVIOUS
<1> USE DEF Init
<1>1. Known = {}
  BY DEF Known
<1>2. list \in Lists
  BY DEF Lists
<1>3. TypeOK
  BY <1>1, <1>2 DEF TypeOK
<1>4. Keyed /\ LeftKnown /\ IndexSound /\ IndexComplete
  BY <1>1 DEF Keyed, LeftKnown, IndexSound, IndexComplete
<1>5. QED
  BY <1>3, <1>4 DEF IInv

\* A step that changes neither table, and of a known peer neither key nor address.
LEMMA TablesKept ==
    ASSUME IInv, TypeOK', UNCHANGED <<peers, byVIP, shared>>,
           \A p \in Known : peer'[p].key = peer[p].key /\ peer'[p].vip = peer[p].vip,
           LeftKnown'
    PROVE  IInv'
<1> USE DEF IInv
<1>1. \A k \in Keys : peers[k] # NoPeer => peers[k] \in Known
  BY DEF Known
<1>2. Keyed'
  BY <1>1 DEF Keyed
<1>3. IndexSound'
  <2> SUFFICES ASSUME NEW v \in VIPs, byVIP[v] # NoPeer
               PROVE  \E k \in Keys :
                          byVIP[v] = peers[k] /\ peer'[peers[k]].key = k /\ peer'[peers[k]].vip = v
    BY DEF IndexSound
  <2>1. PICK k \in Keys : byVIP[v] = peers[k] /\ peer[peers[k]].key = k /\ peer[peers[k]].vip = v
    BY DEF IndexSound
  <2>2. QED
    BY <1>1, <2>1
<1>4. IndexComplete'
  <2> SUFFICES ASSUME NEW k \in Keys, peers[k] # NoPeer
               PROVE  byVIP[peer'[peers[k]].vip] = peers[k] \/ peer'[peers[k]].vip \in shared
    BY DEF IndexComplete
  <2>1. peer'[peers[k]].vip = peer[peers[k]].vip
    BY <1>1
  <2>2. QED
    BY <2>1 DEF IndexComplete
<1>5. QED
  BY <1>2, <1>3, <1>4

\* A new peer is put into a cell that was in no table.
LEMMA AddStep ==
    ASSUME IInv, TypeOK', NEW n \in Nodes, Add(n), Unlocked, UNCHANGED gcVars
    PROVE  IInv'
<1> USE DEF IInv, TypeOK
<1>1. PICK p \in Free :
          /\ peer' = [peer EXCEPT ![p] = NewPeer(n)]
          /\ peers' = [peers EXCEPT ![n.key] = p]
          /\ byVIP' = [byVIP EXCEPT ![n.vip] = p]
  BY DEF Add
<1>2. n.key \in Keys /\ n.vip \in VIPs /\ p \in Peers /\ p # NoPeer
  BY MeshAssumption DEF Nodes, Free
<1>3. /\ \A k \in Keys : peers[k] # p
      /\ \A v \in VIPs : byVIP[v] # p
  BY <1>2 DEF Free, Known
<1>4. peer'[p].key = n.key /\ peer'[p].vip = n.vip
  BY <1>1, <1>2 DEF NewPeer
<1>5. peers[n.key] = NoPeer
  BY DEF Add
<1>6. \A k \in Keys : peers[k] # NoPeer => k # n.key /\ peers'[k] = peers[k] /\ peer'[peers[k]] = peer[peers[k]]
  BY <1>1, <1>2, <1>3, <1>5
<1>7. peers'[n.key] = p /\ byVIP'[n.vip] = p
  BY <1>1, <1>2
<1>8. Keyed'
  <2> SUFFICES ASSUME NEW k \in Keys, peers'[k] # NoPeer PROVE peer'[peers'[k]].key = k
    BY DEF Keyed
  <2>1. CASE k = n.key
    BY <2>1, <1>4, <1>7
  <2>2. CASE k # n.key
    <3>1. peers'[k] = peers[k]
      BY <2>2, <1>1
    <3>2. QED
      BY <3>1, <1>6 DEF Keyed
  <2>3. QED
    BY <2>1, <2>2
<1>9. LeftKnown'
  BY DEF LeftKnown, Unlocked, gcVars
<1>10. IndexSound'
  <2> SUFFICES ASSUME NEW v \in VIPs, byVIP'[v] # NoPeer
               PROVE  \E k \in Keys :
                          byVIP'[v] = peers'[k] /\ peer'[peers'[k]].key = k /\ peer'[peers'[k]].vip = v
    BY DEF IndexSound
  <2>1. CASE v = n.vip
    BY <2>1, <1>2, <1>4, <1>7
  <2>2. CASE v # n.vip
    <3>1. byVIP'[v] = byVIP[v]
      BY <2>2, <1>1
    <3>2. PICK k \in Keys : byVIP[v] = peers[k] /\ peer[peers[k]].key = k /\ peer[peers[k]].vip = v
      BY <3>1 DEF IndexSound
    <3>3. QED
      BY <3>1, <3>2, <1>6
  <2>3. QED
    BY <2>1, <2>2
<1>11. IndexComplete'
  <2> SUFFICES ASSUME NEW k \in Keys, peers'[k] # NoPeer
               PROVE  byVIP'[peer'[peers'[k]].vip] = peers'[k] \/ peer'[peers'[k]].vip \in shared'
    BY DEF IndexComplete
  <2>1. CASE k = n.key
    BY <2>1, <1>4, <1>7
  <2>2. CASE k # n.key
    <3>1. peers'[k] = peers[k] /\ peer'[peers[k]] = peer[peers[k]] /\ peers[k] # NoPeer
      BY <2>2, <1>1, <1>6
    <3>2. byVIP[peer[peers[k]].vip] = peers[k] \/ peer[peers[k]].vip \in shared
      BY <3>1 DEF IndexComplete
    <3>3. shared \subseteq shared' /\ (byVIP[n.vip] # NoPeer => n.vip \in shared')
      BY DEF Add
    <3>4. peer[peers[k]].vip \in VIPs
      BY <3>1 DEF Known, PeerRecords
    <3>5. CASE peer[peers[k]].vip = n.vip
      BY <3>1, <3>2, <3>3, <3>5
    <3>6. CASE peer[peers[k]].vip # n.vip
      BY <3>1, <3>2, <3>3, <3>4, <3>6, <1>1
    <3>7. QED
      BY <3>5, <3>6
  <2>3. QED
    BY <2>1, <2>2
<1>12. QED
  BY <1>8, <1>9, <1>10, <1>11

\* The collector takes a peer out of both tables.
LEMMA ExpireStep ==
    ASSUME IInv, TypeOK', NEW p \in Peers, GCExpire(p), IsExpired(peer[p])
    PROVE  IInv'
<1> USE DEF IInv, TypeOK
<1> DEFINE j == peer[p].key
<1>1. p \in Known /\ p # NoPeer /\ peer[p] \in PeerRecords
  BY MeshAssumption DEF GCExpire, LeftKnown
<1>2. j \in Keys /\ peer[p].vip \in VIPs /\ peers[j] = p
  BY <1>1 DEF Known, Keyed, PeerRecords
<1>3. /\ peers' = [peers EXCEPT ![j] = NoPeer]
      /\ byVIP' = [byVIP EXCEPT ![peer[p].vip] = NoPeer]
      /\ peer' = [peer EXCEPT ![p] = NoPeer]
      /\ left' = left \ {p} /\ gc' = gc /\ shared' = shared /\ gc = "expire"
  BY DEF GCExpire, Delete
<1>4. \A k \in Keys : peers'[k] # NoPeer =>
          k # j /\ peers'[k] = peers[k] /\ peers[k] # p /\ peer'[peers[k]] = peer[peers[k]]
  BY <1>2, <1>3 DEF Keyed
<1>5. Keyed'
  BY <1>4 DEF Keyed
<1>6. LeftKnown'
  <2>1. \A q \in left' : q \in Known'
    BY <1>2, <1>3 DEF LeftKnown, Known
  <2>2. QED
    BY <2>1, <1>3 DEF LeftKnown
<1>7. IndexSound'
  <2> SUFFICES ASSUME NEW v \in VIPs, byVIP'[v] # NoPeer
               PROVE  \E k \in Keys :
                          byVIP'[v] = peers'[k] /\ peer'[peers'[k]].key = k /\ peer'[peers'[k]].vip = v
    BY DEF IndexSound
  <2>1. byVIP'[v] = byVIP[v] /\ v # peer[p].vip
    BY <1>2, <1>3
  <2>2. PICK k \in Keys : byVIP[v] = peers[k] /\ peer[peers[k]].key = k /\ peer[peers[k]].vip = v
    BY <2>1 DEF IndexSound
  <2>3. peers[k] # p /\ k # j
    BY <2>1, <2>2, <1>2
  <2>4. peers'[k] = peers[k] /\ peer'[peers[k]] = peer[peers[k]]
    BY <2>3, <1>3
  <2>5. QED
    BY <2>1, <2>2, <2>4
<1>8. IndexComplete'
  <2> SUFFICES ASSUME NEW k \in Keys, peers'[k] # NoPeer
               PROVE  byVIP'[peer'[peers'[k]].vip] = peers'[k] \/ peer'[peers'[k]].vip \in shared'
    BY DEF IndexComplete
  <2>1. k # j /\ peers'[k] = peers[k] /\ peers[k] # p /\ peer'[peers[k]] = peer[peers[k]]
    BY <1>4
  <2>2. byVIP[peer[peers[k]].vip] = peers[k] \/ peer[peers[k]].vip \in shared
    BY <2>1 DEF IndexComplete
  <2>3. CASE peer[peers[k]].vip \in shared
    BY <2>1, <2>3, <1>3
  <2>4. CASE byVIP[peer[peers[k]].vip] = peers[k] /\ peer[peers[k]].vip = peer[p].vip
    <3>1. byVIP[peer[p].vip] # p
      BY <2>1, <2>4
    <3>2. peer[p].vip \in shared
      BY <3>1, <1>1, <1>2 DEF IndexComplete
    <3>3. QED
      BY <2>1, <2>4, <1>3, <3>2
  <2>5. CASE byVIP[peer[peers[k]].vip] = peers[k] /\ peer[peers[k]].vip # peer[p].vip
    BY <2>1, <2>5, <1>3
  <2>6. QED
    BY <2>2, <2>3, <2>4, <2>5
<1>9. QED
  BY <1>5, <1>6, <1>7, <1>8

\* What the operators on a peer return is a peer, with the same key and address.
LEMMA PeerOps ==
    ASSUME NEW p \in PeerRecords, NEW n
    PROVE  /\ Updated(p, n) \in PeerRecords /\ Updated(p, n).key = p.key /\ Updated(p, n).vip = p.vip
           /\ Marked(p) \in PeerRecords /\ Marked(p).key = p.key /\ Marked(p).vip = p.vip
           /\ Idled(p) \in PeerRecords /\ Idled(p).key = p.key /\ Idled(p).vip = p.vip
<1>1. Updated(p, n) \in PeerRecords /\ Updated(p, n).key = p.key /\ Updated(p, n).vip = p.vip
  BY DEF Updated, PeerRecords
<1>2. Marked(p) \in PeerRecords /\ Marked(p).key = p.key /\ Marked(p).vip = p.vip
  BY DEF Marked, PeerRecords
<1>3. Idled(p) \in PeerRecords /\ Idled(p).key = p.key /\ Idled(p).vip = p.vip
  BY DEF Idled, PeerRecords
<1>4. QED
  BY <1>1, <1>2, <1>3

\* The same of the operators of the engine and of time.
LEMMA EngineOps ==
    ASSUME NEW p \in PeerRecords
    PROVE  /\ Touched(p) \in PeerRecords /\ Touched(p).key = p.key /\ Touched(p).vip = p.vip
           /\ p.age < 2 => Aged(p) \in PeerRecords /\ Aged(p).key = p.key /\ Aged(p).vip = p.vip
           /\ \A s \in {"discovered", "direct"} :
                Moved(p, s) \in PeerRecords /\ Moved(p, s).key = p.key /\ Moved(p, s).vip = p.vip
<1>1. Touched(p) \in PeerRecords /\ Touched(p).key = p.key /\ Touched(p).vip = p.vip
  BY DEF Touched, PeerRecords
<1>2. p.age < 2 => Aged(p) \in PeerRecords /\ Aged(p).key = p.key /\ Aged(p).vip = p.vip
  BY DEF Aged, PeerRecords
<1>3. ASSUME NEW s \in {"discovered", "direct"}
      PROVE  Moved(p, s) \in PeerRecords /\ Moved(p, s).key = p.key /\ Moved(p, s).vip = p.vip
  BY DEF Moved, PeerRecords
<1>4. QED
  BY <1>1, <1>2, <1>3

\* A step that replaces the contents of one known cell by a peer of the same key and
\* address keeps the types of the table and of the cells.
LEMMA CellStep ==
    ASSUME TypeOK, NEW p \in Known, NEW new \in PeerRecords,
           peer' = [peer EXCEPT ![p] = new], peers' = peers,
           new.key = peer[p].key, new.vip = peer[p].vip
    PROVE  /\ peer' \in [Peers -> PeerRecords \cup {NoPeer}]
           /\ \A q \in Known' : peer'[q] \in PeerRecords
           /\ \A q \in Known : peer'[q].key = peer[q].key /\ peer'[q].vip = peer[q].vip
<1>1. p \in Peers /\ Known' = Known /\ Known \subseteq Peers
  BY DEF TypeOK, Known
<1>2. QED
  BY <1>1 DEF TypeOK

\* Every step keeps the invariant.
LEMMA StepIInv == IInv /\ [Next]_vars => IInv'
<1> SUFFICES ASSUME IInv, [Next]_vars PROVE IInv'
  OBVIOUS
<1> USE DEF IInv
<1>1. ASSUME NEW l \in Lists, ApplyStart(l) PROVE IInv'
  <2>1. TypeOK'
    BY <1>1 DEF ApplyStart, TypeOK, gcVars, Known
  <2>2. QED
    BY <1>1, <2>1, TablesKept DEF ApplyStart, gcVars, LeftKnown, Known
<1>2. ASSUME NEW n \in Nodes, AddOrUpdate(n) PROVE IInv'
  <2>1. CASE Add(n)
    <3>1. PICK p \in Free :
              /\ peer' = [peer EXCEPT ![p] = NewPeer(n)]
              /\ peers' = [peers EXCEPT ![n.key] = p]
              /\ byVIP' = [byVIP EXCEPT ![n.vip] = p]
      BY <2>1 DEF Add
    <3>2. p \in Peers /\ n.key \in Keys /\ n.vip \in VIPs /\ p \notin Known /\ p # NoPeer
      BY <3>1, MeshAssumption DEF Free, Nodes
    <3>3. NewPeer(n) \in PeerRecords
      BY <3>2 DEF NewPeer, PeerRecords
    <3>4. peers' \in [Keys -> Peers \cup {NoPeer}] /\ byVIP' \in [VIPs -> Peers \cup {NoPeer}]
      BY <3>1, <3>2 DEF TypeOK
    <3>5. peer' \in [Peers -> PeerRecords \cup {NoPeer}]
      BY <3>1, <3>2, <3>3 DEF TypeOK
    <3>6. \A q \in Known' : q = p \/ (q \in Known /\ q \in Peers)
      BY <3>1, <3>2 DEF Known, TypeOK
    <3>7. \A q \in Known' : peer'[q] \in PeerRecords
      BY <3>1, <3>2, <3>3, <3>6 DEF TypeOK
    <3>8. shared' \subseteq VIPs
      BY <2>1, <3>2 DEF Add, TypeOK
    <3>9. TypeOK'
      BY <1>2, <3>4, <3>5, <3>7, <3>8 DEF AddOrUpdate, TypeOK, gcVars, moved
    <3>10. QED
      BY <1>2, <2>1, <3>9, AddStep DEF AddOrUpdate
  <2>2. CASE Update(n)
    <3>1. n.key \in Keys /\ peers[n.key] \in Known
      BY <2>2 DEF Update, Known, Nodes
    <3>2. peer[peers[n.key]] \in PeerRecords
      BY <3>1 DEF TypeOK
    <3> DEFINE new == Updated(peer[peers[n.key]], n)
    <3>3. new \in PeerRecords /\ new.key = peer[peers[n.key]].key /\ new.vip = peer[peers[n.key]].vip
      BY <3>2, PeerOps
    <3>4. peer' = [peer EXCEPT ![peers[n.key]] = new] /\ UNCHANGED <<peers, byVIP, shared>>
      BY <2>2 DEF Update
    <3>5. /\ peer' \in [Peers -> PeerRecords \cup {NoPeer}]
          /\ \A q \in Known' : peer'[q] \in PeerRecords
          /\ \A q \in Known : peer'[q].key = peer[q].key /\ peer'[q].vip = peer[q].vip
      BY <3>1, <3>3, <3>4, CellStep
    <3>6. TypeOK'
      BY <1>2, <3>4, <3>5 DEF AddOrUpdate, TypeOK, gcVars, moved
    <3>7. LeftKnown'
      BY <1>2, <3>4 DEF AddOrUpdate, LeftKnown, gcVars, Known
    <3>8. QED
      BY <3>4, <3>5, <3>6, <3>7, TablesKept
  <2>3. QED
    BY <1>2, <2>1, <2>2 DEF AddOrUpdate
<1>3. ASSUME ListPeers \/ (\E k \in Keys : RemoveFind(k)) \/ ApplyEnd PROVE IInv'
  <2>1. UNCHANGED <<peers, byVIP, peer, shared, gc, left, list, todo, moved>>
    BY <1>3 DEF ListPeers, RemoveFind, ApplyEnd, gcVars
  <2>2. phase' \in {"idle", "adding", "removing"}
    BY <1>3 DEF ListPeers, RemoveFind, ApplyEnd, TypeOK
  <2>3. unlisted' \subseteq Keys /\ found' \in Peers \cup {NoPeer}
    BY <1>3 DEF ListPeers, RemoveFind, ApplyEnd, TypeOK
  <2>4. TypeOK'
    BY <2>1, <2>2, <2>3 DEF TypeOK, Known, moved
  <2>5. QED
    BY <2>1, <2>4, TablesKept DEF LeftKnown, Known
<1>4. CASE RemoveMark
  <2>1. UNCHANGED <<peers, byVIP, shared, gc, left, phase, list, todo, unlisted>>
        /\ found' = NoPeer /\ heard' \subseteq Peers /\ dialled' \subseteq Peers
    BY <1>4 DEF RemoveMark, gcVars, TypeOK
  <2>2. /\ peer' \in [Peers -> PeerRecords \cup {NoPeer}]
        /\ \A q \in Known' : peer'[q] \in PeerRecords
        /\ \A q \in Known : peer'[q].key = peer[q].key /\ peer'[q].vip = peer[q].vip
    <3>1. CASE found \in Known
      <4>1. peer[found] \in PeerRecords
        BY <3>1 DEF TypeOK
      <4>2. Marked(peer[found]) \in PeerRecords
            /\ Marked(peer[found]).key = peer[found].key /\ Marked(peer[found]).vip = peer[found].vip
        BY <4>1, PeerOps
      <4>3. peer' = [peer EXCEPT ![found] = Marked(peer[found])]
        BY <1>4, <3>1 DEF RemoveMark
      <4>4. QED
        BY <2>1, <3>1, <4>2, <4>3, CellStep
    <3>2. CASE found \notin Known
      BY <1>4, <2>1, <3>2 DEF RemoveMark, TypeOK, Known
    <3>3. QED
      BY <3>1, <3>2
  <2>3. TypeOK'
    BY <2>1, <2>2 DEF TypeOK
  <2>4. QED
    BY <2>1, <2>2, <2>3, TablesKept DEF LeftKnown, Known
<1>5. CASE GCStart \/ GCNext
  <2>1. UNCHANGED <<peers, byVIP, peer, phase, list, todo, unlisted, found, shared, heard, dialled>>
    BY <1>5 DEF GCStart, GCNext, applyVars, moved
  <2>2. gc' \in {"off", "idle", "expire"} /\ left' \subseteq Known /\ (gc' = "off" => left' = {})
    BY <1>5 DEF GCStart, GCNext, TypeOK
  <2>3. Known \subseteq Peers /\ Known' = Known
    BY <2>1 DEF Known, TypeOK
  <2>4. TypeOK'
    BY <2>1, <2>2, <2>3 DEF TypeOK
  <2>5. QED
    BY <2>1, <2>2, <2>3, <2>4, TablesKept DEF LeftKnown
<1>6. ASSUME NEW p \in Peers, GCIdle(p) PROVE IInv'
  <2>1. UNCHANGED <<peers, byVIP, phase, list, todo, unlisted, found, gc, shared, heard, dialled>>
        /\ left' = left \ {p} /\ p \in left
    BY <1>6 DEF GCIdle, applyVars, moved
  <2>2. p \in Known /\ peer[p] \in PeerRecords
    BY <2>1 DEF LeftKnown, TypeOK
  <2>3. Idled(peer[p]) \in PeerRecords
        /\ Idled(peer[p]).key = peer[p].key /\ Idled(peer[p]).vip = peer[p].vip
    BY <2>2, PeerOps
  <2>4. peer' = [peer EXCEPT ![p] = Idled(peer[p])]
    BY <1>6 DEF GCIdle
  <2>5. /\ peer' \in [Peers -> PeerRecords \cup {NoPeer}]
        /\ \A q \in Known' : peer'[q] \in PeerRecords
        /\ \A q \in Known : peer'[q].key = peer[q].key /\ peer'[q].vip = peer[q].vip
    BY <2>1, <2>2, <2>3, <2>4, CellStep
  <2>6. TypeOK'
    BY <2>1, <2>5 DEF TypeOK
  <2>7. QED
    BY <2>1, <2>5, <2>6, TablesKept DEF LeftKnown, Known
<1>7. ASSUME NEW p \in Peers, GCExpire(p) PROVE IInv'
  <2>1. CASE IsExpired(peer[p])
    <3>1. p \in Known /\ peer[p] \in PeerRecords
      BY <1>7 DEF GCExpire, LeftKnown, TypeOK
    <3>2. peer[p].key \in Keys /\ peer[p].vip \in VIPs /\ peers[peer[p].key] = p
      BY <3>1 DEF Known, Keyed, PeerRecords
    <3>3. /\ peers' = [peers EXCEPT ![peer[p].key] = NoPeer]
          /\ byVIP' = [byVIP EXCEPT ![peer[p].vip] = NoPeer]
          /\ peer' = [peer EXCEPT ![p] = NoPeer]
          /\ heard' = heard \ {p} /\ dialled' = dialled \ {p}
          /\ left' = left \ {p} /\ UNCHANGED <<phase, list, todo, unlisted, found, gc, shared>>
      BY <1>7, <2>1 DEF GCExpire, Delete, applyVars
    <3>4. \A q \in Known' : q \in Known /\ q # p
      BY <3>2, <3>3 DEF Known, TypeOK, Keyed
    <3>5. \A q \in Known' : peer'[q] \in PeerRecords
      BY <3>3, <3>4 DEF TypeOK
    <3>6. TypeOK'
      BY <3>3, <3>5 DEF TypeOK
    <3>7. QED
      BY <1>7, <2>1, <3>6, ExpireStep
  <2>2. CASE ~ IsExpired(peer[p])
    <3>1. UNCHANGED <<peers, byVIP, peer, phase, list, todo, unlisted, found, gc, shared, heard, dialled>>
          /\ left' = left \ {p}
      BY <1>7, <2>2 DEF GCExpire, applyVars, moved
    <3>2. TypeOK'
      BY <3>1 DEF TypeOK, Known
    <3>3. QED
      BY <3>1, <3>2, TablesKept DEF LeftKnown, Known
  <2>3. QED
    BY <2>1, <2>2
<1>8. ASSUME NEW p \in Peers,
             Touch(p) \/ Pass(p) \/ \E s \in {"discovered", "direct"} : Transition(p, s)
      PROVE  IInv'
  <2>1. p \in Known /\ peer[p] \in PeerRecords
    BY <1>8 DEF Touch, Pass, Transition, TypeOK
  <2>2. UNCHANGED <<peers, byVIP, phase, list, todo, unlisted, found, gc, left, shared>>
        /\ heard' \subseteq Peers /\ dialled' \subseteq Peers
    BY <1>8 DEF Touch, Pass, Transition, Recorded, applyVars, gcVars, moved, TypeOK
  <2>3. PICK new \in PeerRecords :
            peer' = [peer EXCEPT ![p] = new] /\ new.key = peer[p].key /\ new.vip = peer[p].vip
    <3>1. CASE Touch(p)
      <4>1. Touched(peer[p]) \in PeerRecords
            /\ Touched(peer[p]).key = peer[p].key /\ Touched(peer[p]).vip = peer[p].vip
        BY <2>1, EngineOps
      <4>2. peer' = [peer EXCEPT ![p] = Touched(peer[p])]
        BY <3>1 DEF Touch
      <4>3. QED
        BY <4>1, <4>2
    <3>2. CASE Pass(p)
      <4>1. Aged(peer[p]) \in PeerRecords
            /\ Aged(peer[p]).key = peer[p].key /\ Aged(peer[p]).vip = peer[p].vip
        BY <2>1, <3>2, EngineOps DEF Pass
      <4>2. peer' = [peer EXCEPT ![p] = Aged(peer[p])]
        BY <3>2 DEF Pass
      <4>3. QED
        BY <4>1, <4>2
    <3>3. ASSUME NEW s \in {"discovered", "direct"}, Transition(p, s)
          PROVE  \E new \in PeerRecords :
                    peer' = [peer EXCEPT ![p] = new] /\ new.key = peer[p].key /\ new.vip = peer[p].vip
      <4>1. Moved(peer[p], s) \in PeerRecords
            /\ Moved(peer[p], s).key = peer[p].key /\ Moved(peer[p], s).vip = peer[p].vip
        BY <2>1, EngineOps
      <4>2. peer' = [peer EXCEPT ![p] = Moved(peer[p], s)]
        BY <3>3 DEF Transition
      <4>3. QED
        BY <4>1, <4>2
    <3>4. QED
      BY <1>8, <3>1, <3>2, <3>3
  <2>4. /\ peer' \in [Peers -> PeerRecords \cup {NoPeer}]
        /\ \A q \in Known' : peer'[q] \in PeerRecords
        /\ \A q \in Known : peer'[q].key = peer[q].key /\ peer'[q].vip = peer[q].vip
    BY <2>1, <2>2, <2>3, CellStep
  <2>5. TypeOK'
    BY <2>2, <2>4 DEF TypeOK
  <2>6. QED
    BY <2>2, <2>4, <2>5, TablesKept DEF LeftKnown, Known
<1>9. CASE UNCHANGED vars
  <2>1. TypeOK'
    BY <1>9 DEF vars, applyVars, gcVars, moved, TypeOK, Known
  <2>2. QED
    BY <1>9, <2>1, TablesKept DEF vars, gcVars, LeftKnown, Known
<1>10. QED
  BY <1>1, <1>2, <1>3, <1>4, <1>5, <1>6, <1>7, <1>8, <1>9 DEF Next

\* Every behaviour of the mesh satisfies the invariant.
LEMMA InvariantHolds == Spec => []IInv
<1>1. Init => IInv
  BY InitIInv
<1>2. IInv /\ [Next]_vars => IInv'
  BY StepIInv
<1>3. QED
  BY <1>1, <1>2, PTL DEF Spec

-----------------------------------------------------------------------------

\* The tables, the peers and the goroutines' locals are well typed.
THEOREM TypeCorrect == Spec => []TypeOK
<1>1. IInv => TypeOK
  BY DEF IInv
<1>2. QED
  BY <1>1, InvariantHolds, PTL

\* Whatever is found at an address is the peer known by its key, at its address.
THEOREM IndexSoundCorrect == Spec => []IndexSound
<1>1. IInv => IndexSound
  BY DEF IInv
<1>2. QED
  BY <1>1, InvariantHolds, PTL

\* A known peer whose address was never given away is found at it.
THEOREM IndexCompleteCorrect == Spec => []IndexComplete
<1>1. IInv => IndexComplete
  BY DEF IInv
<1>2. QED
  BY <1>1, InvariantHolds, PTL
-----------------------------------------------------------------------------
(* Peers that an update does not list. *)

\* An update need not trouble about the peer any more.
Handled(p) ==
    \/ \E n \in list : n.key = peer[p].key
    \/ peer[p].state = "expired"
    \/ p \in heard
    \/ p \in dialled /\ peer[p].state = "discovered"

\* What is still to be removed: a key to look up, or a peer to mark.
Awaiting(p) == phase = "removing" /\ (peer[p].key \in unlisted \/ found = p)

\* Once the keys to remove are known, every peer is handled or awaits removal.
UpdateInv ==
    /\ found # NoPeer => phase = "removing"
    /\ phase # "adding" => \A p \in Known : Handled(p) \/ Awaiting(p)

\* A step outside Apply changes no key, and what exempts a peer goes on to exempt it:
\* nothing but the engine makes an expired peer routable or a dialled one connected.
LEMMA UpdateKept ==
    ASSUME UpdateInv, UNCHANGED <<phase, list, unlisted, found>>, Known' \subseteq Known,
           \A p \in Known' :
               /\ peer'[p].key = peer[p].key
               /\ Handled(p) => Handled(p)'
    PROVE  UpdateInv'
<1> SUFFICES ASSUME phase # "adding", NEW p \in Known' PROVE Handled(p)' \/ Awaiting(p)'
  BY DEF UpdateInv
<1>1. Handled(p) \/ Awaiting(p)
  BY DEF UpdateInv
<1>2. CASE Handled(p)
  BY <1>2
<1>3. CASE Awaiting(p)
  BY <1>3 DEF Awaiting
<1> QED
  BY <1>1, <1>2, <1>3

\* What the operators do to an expired and to a discovered peer, and to keys.
LEMMA StatesKept ==
    ASSUME NEW p \in PeerRecords, NEW s \in {"expired", "discovered"}
    PROVE  /\ Marked(p).state = "expired" /\ Marked(p).key = p.key
           /\ p.state = s => Idled(p).state = s
           /\ p.state = s => Touched(p).state = s
           /\ p.state = s => Aged(p).state = s
<1>1. Marked(p).state = "expired" /\ Marked(p).key = p.key
  BY DEF Marked, PeerRecords
<1>2. p.state = s => Idled(p).state = s
  BY DEF Idled, PeerRecords
<1>3. p.state = s => Touched(p).state = s /\ Aged(p).state = s
  BY DEF Touched, Aged, PeerRecords
<1> QED
  BY <1>1, <1>2, <1>3

\* The contents of a known cell are replaced by a peer of the same key, which is
\* expired or discovered if it was.
LEMMA CellKept ==
    ASSUME UpdateInv, NEW q \in Known, NEW new,
           peer \in [Peers -> PeerRecords \cup {NoPeer}], Known \subseteq Peers,
           UNCHANGED <<peers, applyVars, heard, dialled>>,
           peer' = [peer EXCEPT ![q] = new], new.key = peer[q].key,
           peer[q].state = "expired" => new.state = "expired",
           peer[q].state = "discovered" => new.state = "discovered"
    PROVE  UpdateInv'
<1>1. \A p \in Known : /\ peer'[p].key = peer[p].key
                       /\ peer[p].state = "expired" => peer'[p].state = "expired"
                       /\ peer[p].state = "discovered" => peer'[p].state = "discovered"
  OBVIOUS
<1>2. \A p \in Known : Handled(p) => Handled(p)'
  BY <1>1 DEF Handled, applyVars
<1> QED
  BY <1>1, <1>2, UpdateKept DEF applyVars, Known

\* Every step keeps it.
LEMMA UpdateStep == IInv /\ UpdateInv /\ [Next]_vars => UpdateInv'
<1> SUFFICES ASSUME IInv, UpdateInv, [Next]_vars PROVE UpdateInv'
  OBVIOUS
<1>0. /\ \A p \in Known : p \in Peers /\ p # NoPeer /\ peer[p] \in PeerRecords
      /\ peer \in [Peers -> PeerRecords \cup {NoPeer}]
  BY MeshAssumption DEF IInv, TypeOK, Known
<1>1. ASSUME NEW l \in Lists, ApplyStart(l) PROVE UpdateInv'
  BY <1>1 DEF ApplyStart, UpdateInv
<1>2. ASSUME NEW n \in Nodes, AddOrUpdate(n) PROVE UpdateInv'
  BY <1>2 DEF AddOrUpdate, UpdateInv
<1>3. CASE ListPeers
  <2>1. /\ phase = "adding" /\ phase' = "removing" /\ UNCHANGED <<peers, peer, list, found, heard, dialled>>
        /\ unlisted' = {k \in Keys : peers[k] # NoPeer} \ {n.key : n \in list}
    BY <1>3 DEF ListPeers, moved
  <2>2. ASSUME NEW p \in Known PROVE Handled(p)' \/ Awaiting(p)'
    <3>1. PICK k \in Keys : peers[k] = p /\ p # NoPeer
      BY DEF Known
    <3>2. peer[p].key = k
      BY <3>1 DEF IInv, Keyed
    <3> QED
      BY <2>1, <3>1, <3>2 DEF Handled, Awaiting
  <2> QED
    BY <2>1, <2>2 DEF UpdateInv, Known
<1>4. ASSUME NEW k \in Keys, RemoveFind(k) PROVE UpdateInv'
  <2>1. /\ phase = "removing" /\ found = NoPeer /\ found' = peers[k] /\ unlisted' = unlisted \ {k}
        /\ UNCHANGED <<peers, peer, phase, list, heard, dialled>>
    BY <1>4 DEF RemoveFind, moved
  <2>2. ASSUME NEW p \in Known PROVE Handled(p)' \/ Awaiting(p)'
    <3>1. Handled(p) \/ peer[p].key \in unlisted
      BY <1>0, <2>1 DEF UpdateInv, Awaiting
    <3>2. CASE Handled(p)
      BY <2>1, <3>2 DEF Handled
    <3>3. CASE peer[p].key \in unlisted
      <4>1. peer[p].key = k => peers[k] = p
        BY DEF IInv, Keyed, Known
      <4> QED
        BY <2>1, <3>3, <4>1 DEF Awaiting
    <3> QED
      BY <3>1, <3>2, <3>3
  <2> QED
    BY <2>1, <2>2 DEF UpdateInv, Known
<1>5. CASE RemoveMark
  <2>1. /\ found # NoPeer /\ found' = NoPeer
        /\ heard' = heard \ {found} /\ dialled' = dialled \ {found}
        /\ UNCHANGED <<peers, phase, list, unlisted>> /\ phase = "removing"
        /\ peer' = IF found \in Known THEN [peer EXCEPT ![found] = Marked(peer[found])] ELSE peer
    BY <1>5 DEF RemoveMark, UpdateInv
  <2>2. ASSUME NEW p \in Known PROVE Handled(p)' \/ Awaiting(p)'
    <3>1. CASE p = found
      BY <1>0, <2>1, <3>1, StatesKept DEF Handled
    <3>2. CASE p # found
      <4>1. peer'[p] = peer[p]
        BY <1>0, <2>1, <3>2
      <4>2. Handled(p) \/ peer[p].key \in unlisted
        BY <2>1, <3>2 DEF UpdateInv, Awaiting
      <4> QED
        BY <2>1, <3>2, <4>1, <4>2 DEF Handled, Awaiting
    <3> QED
      BY <3>1, <3>2
  <2> QED
    BY <2>1, <2>2 DEF UpdateInv, Known
<1>6. CASE ApplyEnd
  <2>1. /\ phase = "removing" /\ unlisted = {} /\ found = NoPeer /\ found' = NoPeer
        /\ phase' = "idle" /\ UNCHANGED <<peers, peer, list, heard, dialled>>
    BY <1>6 DEF ApplyEnd, moved
  <2>2. ASSUME NEW p \in Known PROVE Handled(p)'
    <3>1. Handled(p)
      BY <1>0, <2>1 DEF UpdateInv, Awaiting
    <3> QED
      BY <2>1, <3>1 DEF Handled
  <2> QED
    BY <2>1, <2>2 DEF UpdateInv, Known
<1>7. CASE GCStart \/ GCNext
  BY <1>7, UpdateKept DEF GCStart, GCNext, applyVars, moved, Known, Handled
<1>8. ASSUME NEW q \in Peers, GCIdle(q) PROVE UpdateInv'
  <2>1. peer' = [peer EXCEPT ![q] = Idled(peer[q])] /\ UNCHANGED <<peers, applyVars, heard, dialled>>
        /\ q \in Known
    BY <1>8 DEF GCIdle, moved, IInv, LeftKnown
  <2>2. Idled(peer[q]).key = peer[q].key
    BY <1>0, <2>1, PeerOps
  <2>3. /\ peer[q].state = "expired" => Idled(peer[q]).state = "expired"
        /\ peer[q].state = "discovered" => Idled(peer[q]).state = "discovered"
    BY <1>0, <2>1, StatesKept
  <2> QED
    BY <1>0, <2>1, <2>2, <2>3, CellKept
<1>9. ASSUME NEW q \in Peers, GCExpire(q) PROVE UpdateInv'
  <2>1. CASE IsExpired(peer[q])
    <3>1. /\ peers' = [peers EXCEPT ![peer[q].key] = NoPeer] /\ peer' = [peer EXCEPT ![q] = NoPeer]
          /\ heard' = heard \ {q} /\ dialled' = dialled \ {q} /\ UNCHANGED applyVars /\ q \in Known
      BY <1>9, <2>1 DEF GCExpire, Delete, IInv, LeftKnown
    <3>2. peers[peer[q].key] = q /\ peer[q].key \in Keys
      BY <3>1 DEF IInv, Keyed, Known
    <3>3. \A p \in Known' : p \in Known /\ p # q
      BY <3>1, <3>2 DEF IInv, TypeOK, Known, Keyed
    <3>4. \A p \in Known' : peer'[p] = peer[p]
      BY <1>0, <3>1, <3>3
    <3>5. \A p \in Known' : Handled(p) => Handled(p)'
      BY <3>1, <3>3, <3>4 DEF Handled, applyVars
    <3> QED
      BY <3>1, <3>3, <3>4, <3>5, UpdateKept DEF applyVars
  <2>2. CASE ~ IsExpired(peer[q])
    BY <1>9, <2>2, UpdateKept DEF GCExpire, applyVars, moved, Known, Handled
  <2> QED
    BY <2>1, <2>2
<1>10. ASSUME NEW q \in Peers, Touch(q) \/ Pass(q) PROVE UpdateInv'
  <2>1. UNCHANGED <<peers, applyVars, heard, dialled>> /\ q \in Known /\ peer[q] \in PeerRecords
    BY <1>0, <1>10 DEF Touch, Pass, moved
  <2>2. CASE Touch(q)
    <3>1. peer' = [peer EXCEPT ![q] = Touched(peer[q])]
      BY <2>2 DEF Touch
    <3>2. /\ Touched(peer[q]).key = peer[q].key
          /\ peer[q].state = "expired" => Touched(peer[q]).state = "expired"
          /\ peer[q].state = "discovered" => Touched(peer[q]).state = "discovered"
      BY <2>1, EngineOps, StatesKept
    <3> QED
      BY <1>0, <2>1, <3>1, <3>2, CellKept
  <2>3. CASE Pass(q)
    <3>1. peer' = [peer EXCEPT ![q] = Aged(peer[q])] /\ peer[q].age < 2
      BY <2>3 DEF Pass
    <3>2. /\ Aged(peer[q]).key = peer[q].key
          /\ peer[q].state = "expired" => Aged(peer[q]).state = "expired"
          /\ peer[q].state = "discovered" => Aged(peer[q]).state = "discovered"
      BY <2>1, <3>1, EngineOps, StatesKept
    <3> QED
      BY <1>0, <2>1, <3>1, <3>2, CellKept
  <2> QED
    BY <1>10, <2>2, <2>3
<1>11. ASSUME NEW q \in Peers, NEW s \in {"discovered", "direct"}, Transition(q, s)
       PROVE  UpdateInv'
  <2>0. CASE phase = "adding"
    BY <1>11, <2>0 DEF Transition, applyVars, UpdateInv
  <2>9. SUFFICES ASSUME phase # "adding" PROVE UpdateInv'
    BY <2>0
  <2>1. /\ peer' = [peer EXCEPT ![q] = Moved(peer[q], s)]
        /\ UNCHANGED <<peers, applyVars>> /\ q \in Known
        /\ heard \subseteq heard' /\ dialled \subseteq dialled'
        /\ s = "direct" => q \in heard'
        /\ s = "discovered" => q \in dialled'
    BY <1>11, <2>9 DEF Transition, Recorded
  <2>2. Moved(peer[q], s).key = peer[q].key /\ Moved(peer[q], s).state = s
    BY <1>0, <2>1, EngineOps DEF Moved, PeerRecords
  <2>3. \A p \in Known : peer'[p].key = peer[p].key /\ (p # q => peer'[p] = peer[p])
    BY <1>0, <2>1, <2>2
  <2>4. Handled(q)'
    BY <1>0, <2>1, <2>2 DEF Handled
  <2>5. \A p \in Known : Handled(p) => Handled(p)'
    BY <2>1, <2>3, <2>4 DEF Handled, applyVars
  <2> QED
    BY <2>1, <2>3, <2>5, UpdateKept DEF applyVars, Known
<1>12. CASE UNCHANGED vars
  BY <1>12, UpdateKept DEF vars, applyVars, moved, Known, Handled
<1> QED
  BY <1>1, <1>2, <1>3, <1>4, <1>5, <1>6, <1>7, <1>8, <1>9, <1>10, <1>11, <1>12 DEF Next

\* When an update has been applied, a known peer missing from it is expired, unless
\* the engine has heard from it since it was marked, or is dialling it.
THEOREM UnlistedExpiredCorrect == Spec => []UnlistedExpired
<1>1. Init => UpdateInv
  BY DEF Init, UpdateInv, Known
<1>2. UpdateInv => UnlistedExpired
  BY DEF UpdateInv, Handled, Awaiting, UnlistedExpired
<1> QED
  BY <1>1, <1>2, InvariantHolds, UpdateStep, PTL DEF Spec
=============================================================================
