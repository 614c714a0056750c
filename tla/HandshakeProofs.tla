--------------------------- MODULE HandshakeProofs ---------------------------
(***************************************************************************)
(* Proofs about Handshake, for any nodes, IDs, restarts, ages and packets. *)
(***************************************************************************)
EXTENDS Handshake, TLAPS

-----------------------------------------------------------------------------
(* Tokens. *)

\* The assumptions on the numbers alone.
LEMMA Bounds == MaxIds \in Nat /\ MaxStarting \in Nat /\ MaxRestarts \in Nat /\ Paths \subseteq BOOLEAN
BY HandshakeAssumption

\* What a token names.
LEMMA TokenFields ==
    ASSUME NEW n, NEW id
    PROVE  Token(n, id).node = n /\ Token(n, id).inc = inc[n] /\ Token(n, id).id = id
BY DEF Token

\* A node's tokens are tokens.
LEMMA TokenType ==
    ASSUME TypeOK, NEW n \in Nodes, NEW id \in 1 .. MaxIds
    PROVE  Token(n, id) \in Tokens
BY DEF Token, Tokens, TypeOK

\* The next ID is an ID, and no ID given yet.
LEMMA NextIdType ==
    ASSUME TypeOK, NEW n \in Nodes, lastId[n] < MaxIds
    PROVE  /\ NextId(n) \in 1 .. MaxIds /\ NextId(n) \in 0 .. MaxIds /\ NextId(n) > lastId[n]
           /\ lastId[n] \in Nat
BY Bounds DEF TypeOK, NextId

-----------------------------------------------------------------------------
(* Types. *)

\* Initially nothing is there.
LEMMA TypeInit == Init => TypeOK
BY Bounds DEF Init, TypeOK, PeerStates

\* What a transition leaves.
LEMMA TransitionType ==
    ASSUME TypeOK, NEW n \in Nodes, NEW p \in Nodes, NEW state \in PeerStates,
           Transition(n, p, state)
    PROVE  /\ peerState' \in [Nodes -> [Nodes -> PeerStates]]
           /\ stranded' \in [Nodes -> SUBSET Nodes]
BY DEF TypeOK, Transition

\* What buildSession leaves.
LEMMA BuildType ==
    ASSUME TypeOK, NEW n \in Nodes, NEW s \in SessionRecords, NEW addr, BuildSession(n, s, addr)
    PROVE  /\ built' \subseteq SessionRecords
           /\ sessions' \in [Nodes -> [Nodes -> 0 .. MaxIds]]
           /\ byID' \in [Nodes -> SUBSET (1 .. MaxIds)]
           /\ relayed' \subseteq Tokens
<1>1. s.self \in Tokens /\ s.peer \in Nodes /\ s.self.id \in 1 .. MaxIds /\ s.self.id \in 0 .. MaxIds
  BY Bounds DEF SessionRecords, Tokens
<1>2. built' \subseteq SessionRecords /\ relayed' \subseteq Tokens
  BY <1>1 DEF TypeOK, BuildSession
<1>3. sessions' \in [Nodes -> [Nodes -> 0 .. MaxIds]]
  BY <1>1 DEF TypeOK, BuildSession
<1>4. byID' \in [Nodes -> SUBSET (1 .. MaxIds)]
  BY <1>1 DEF TypeOK, BuildSession
<1> QED
  BY <1>2, <1>3, <1>4

\* The sessions of both ends are sessions.
LEMMA SessionTypes ==
    ASSUME NEW self \in Tokens, NEW other \in Tokens, NEW p \in Nodes
    PROVE  /\ ResponderSession(self, other) \in SessionRecords
           /\ InitiatorSession(self, p, other) \in SessionRecords
BY DEF ResponderSession, InitiatorSession, SessionRecords, Keys, Tokens

\* A dialled peer is a node.
LEMMA DialType ==
    ASSUME TypeOK, NEW n \in Nodes, NEW p \in Nodes,
           dialing' = [dialing EXCEPT ![n] = @ \cup {p}]
    PROVE  dialing' \in [Nodes -> SUBSET Nodes]
BY DEF TypeOK

\* Dialing and sending.
LEMMA TypeDial ==
    ASSUME TypeOK, NEW n \in Nodes, NEW p \in Nodes,
           \/ LearnPeer(n, p) \/ SendDials(n, p) \/ UpgradeDials(n, p)
           \/ InitiateCheck(n, p) \/ InitiateInsert(n, p) \/ SendData(n, p)
    PROVE  TypeOK'
<1> USE DEF tables, workers, shown, heap, ages, net
<1>1. CASE LearnPeer(n, p)
  <2>1. /\ peerState' \in [Nodes -> [Nodes -> PeerStates]]
        /\ stranded' \in [Nodes -> SUBSET Nodes]
    BY <1>1, TransitionType DEF LearnPeer, PeerStates
  <2>2. known' \in [Nodes -> SUBSET Nodes]
    BY <1>1 DEF LearnPeer, TypeOK
  <2> QED
    BY <1>1, <2>1, <2>2, DialType DEF LearnPeer, TypeOK
<1>2. CASE SendDials(n, p) \/ UpgradeDials(n, p)
  BY <1>2, DialType DEF SendDials, UpgradeDials, TypeOK
<1>3. CASE InitiateCheck(n, p)
  <2>1. dialing' \in [Nodes -> SUBSET Nodes]
    BY <1>3 DEF InitiateCheck, TypeOK
  <2>2. starting' \in [Nodes -> [Nodes -> 0 .. MaxStarting]]
    <3>1. CASE UNCHANGED starting
      BY <3>1 DEF TypeOK
    <3>2. CASE starting[n][p] < MaxStarting /\ starting' = [starting EXCEPT ![n][p] = @ + 1]
      <4>1. starting[n][p] \in 0 .. MaxStarting
        BY DEF TypeOK
      <4>2. starting[n][p] + 1 \in 0 .. MaxStarting
        BY <3>2, <4>1, Bounds
      <4> QED
        BY <3>2, <4>2 DEF TypeOK
    <3> QED
      BY <1>3, <3>1, <3>2 DEF InitiateCheck
  <2> QED
    BY <1>3, <2>1, <2>2 DEF InitiateCheck, TypeOK
<1>4. CASE InitiateInsert(n, p)
  <2>1. NextId(n) \in 1 .. MaxIds /\ NextId(n) \in 0 .. MaxIds
    BY <1>4, NextIdType DEF InitiateInsert
  <2>3. starting' \in [Nodes -> [Nodes -> 0 .. MaxStarting]]
    <3>1. starting[n][p] \in 0 .. MaxStarting
      BY DEF TypeOK
    <3>2. starting[n][p] - 1 \in 0 .. MaxStarting
      BY <1>4, <3>1, Bounds DEF InitiateInsert
    <3> QED
      BY <1>4, <3>2 DEF InitiateInsert, TypeOK
  <2>4. lastId' \in [Nodes -> 0 .. MaxIds]
    BY <1>4, <2>1 DEF InitiateInsert, TypeOK
  <2>5. pending' \in [Nodes -> SUBSET [id : 1 .. MaxIds, peer : Nodes]]
    BY <1>4, <2>1 DEF InitiateInsert, TypeOK
  <2>6. announcing' \in [Nodes -> SUBSET [id : 1 .. MaxIds, peer : Nodes]]
    BY <1>4, <2>1 DEF InitiateInsert, TypeOK
  <2> QED
    BY <1>4, <2>3, <2>4, <2>5, <2>6 DEF InitiateInsert, TypeOK
<1>5. CASE SendData(n, p)
  <2>1. PICK s \in Current(n, p) :
            datas' = datas \cup {[from |-> n, to |-> p, receiver |-> s.remoteId, key |-> s.key]}
    BY <1>5 DEF SendData
  <2>2. s.remoteId \in 1 .. MaxIds /\ s.key \in Keys
    BY <2>1 DEF Current, TypeOK, SessionRecords
  <2>3. datas' \subseteq [from : Nodes, to : Nodes, receiver : 1 .. MaxIds, key : Keys]
    BY <2>1, <2>2 DEF TypeOK
  <2> QED
    BY <1>5, <2>3 DEF SendData, TypeOK
<1> QED
  BY <1>1, <1>2, <1>3, <1>4, <1>5

\* Inbound messages.
LEMMA TypeInbound ==
    ASSUME TypeOK, NEW n \in Nodes,
           \/ \E addr \in Paths : \E m \in inits : HandleInit(n, m, addr)
           \/ \E addr \in Paths : \E c \in completing[n] : RespBuild(n, c, addr)
           \/ \E m \in resps : RespTake(n, m)
    PROVE  TypeOK'
<1> USE DEF tables, workers, shown, heap, ages, net
<1>1. ASSUME NEW addr \in Paths, NEW m \in inits, HandleInit(n, m, addr) PROVE TypeOK'
  <2> DEFINE self == Token(n, NextId(n))
  <2>1. NextId(n) \in 1 .. MaxIds /\ NextId(n) \in 0 .. MaxIds
    BY <1>1, NextIdType DEF HandleInit
  <2>2. self \in Tokens /\ m.hs \in Tokens /\ m.hs.node \in Nodes
    BY <2>1, TokenType DEF TypeOK, Tokens
  <2>3. ResponderSession(self, m.hs) \in SessionRecords
    BY <2>2, SessionTypes
  <2>4. BuildSession(n, ResponderSession(self, m.hs), addr)
    BY <1>1 DEF HandleInit
  <2>5. /\ built' \subseteq SessionRecords
        /\ sessions' \in [Nodes -> [Nodes -> 0 .. MaxIds]]
        /\ byID' \in [Nodes -> SUBSET (1 .. MaxIds)]
        /\ relayed' \subseteq Tokens
    BY <2>3, <2>4, BuildType
  <2>6. lastId' \in [Nodes -> 0 .. MaxIds]
    BY <1>1, <2>1 DEF HandleInit, TypeOK
  <2>7. /\ peerState' \in [Nodes -> [Nodes -> PeerStates]]
        /\ stranded' \in [Nodes -> SUBSET Nodes]
    BY <1>1, <2>2, TransitionType DEF HandleInit, TypeOK, PeerStates
  <2>8. orphan' \subseteq Tokens
    BY <1>1, <2>2 DEF HandleInit, TypeOK
  <2>9. resps' \subseteq [hs : Tokens, eph : Tokens]
    BY <1>1, <2>2 DEF HandleInit, TypeOK
  <2> QED
    BY <1>1, <2>5, <2>6, <2>7, <2>8, <2>9 DEF HandleInit, TypeOK
<1>2. ASSUME NEW addr \in Paths, NEW c \in completing[n], RespBuild(n, c, addr) PROVE TypeOK'
  <2>1. c.id \in 1 .. MaxIds /\ c.peer \in Nodes /\ c.eph \in Tokens
    BY DEF TypeOK
  <2>2. Token(n, c.id) \in Tokens
    BY <2>1, TokenType
  <2>3. InitiatorSession(Token(n, c.id), c.peer, c.eph) \in SessionRecords
    BY <2>1, <2>2, SessionTypes
  <2>4. BuildSession(n, InitiatorSession(Token(n, c.id), c.peer, c.eph), addr)
    BY <1>2 DEF RespBuild
  <2>5. /\ built' \subseteq SessionRecords
        /\ sessions' \in [Nodes -> [Nodes -> 0 .. MaxIds]]
        /\ byID' \in [Nodes -> SUBSET (1 .. MaxIds)]
        /\ relayed' \subseteq Tokens
    BY <2>3, <2>4, BuildType
  <2>6. completing' \in [Nodes -> SUBSET [id : 1 .. MaxIds, peer : Nodes, eph : Tokens]]
    BY <1>2 DEF RespBuild, TypeOK
  <2>7. /\ peerState' \in [Nodes -> [Nodes -> PeerStates]]
        /\ stranded' \in [Nodes -> SUBSET Nodes]
    BY <1>2, <2>1, TransitionType DEF RespBuild, PeerStates
  <2> QED
    BY <1>2, <2>5, <2>6, <2>7 DEF RespBuild, TypeOK
<1>3. ASSUME NEW m \in resps, RespTake(n, m) PROVE TypeOK'
  <2>1. PICK h \in pending[n] :
            /\ pending' = [pending EXCEPT ![n] = @ \ {h}]
            /\ \/ /\ completing' = [completing EXCEPT ![n] =
                         @ \cup {[id |-> h.id, peer |-> h.peer, eph |-> m.eph]}]
                  /\ UNCHANGED stranded
               \/ /\ stranded' = [stranded EXCEPT ![n] = @ \cup {h.peer}]
                  /\ UNCHANGED completing
    BY <1>3 DEF RespTake, Forget
  <2>2. h.id \in 1 .. MaxIds /\ h.peer \in Nodes /\ m.eph \in Tokens
    BY DEF TypeOK
  <2>3. pending' \in [Nodes -> SUBSET [id : 1 .. MaxIds, peer : Nodes]]
    BY <2>1 DEF TypeOK
  <2> DEFINE c0 == [id |-> h.id, peer |-> h.peer, eph |-> m.eph]
  <2>4. /\ completing' \in [Nodes -> SUBSET [id : 1 .. MaxIds, peer : Nodes, eph : Tokens]]
        /\ stranded' \in [Nodes -> SUBSET Nodes]
    <3>1. CASE completing' = [completing EXCEPT ![n] = @ \cup {c0}] /\ UNCHANGED stranded
      <4>1. c0 \in [id : 1 .. MaxIds, peer : Nodes, eph : Tokens]
        BY <2>2
      <4> QED
        BY <3>1, <4>1 DEF TypeOK
    <3>2. CASE stranded' = [stranded EXCEPT ![n] = @ \cup {h.peer}] /\ UNCHANGED completing
      BY <2>2, <3>2 DEF TypeOK
    <3> QED
      BY <2>1, <3>1, <3>2
  <2> QED
    BY <1>3, <2>3, <2>4 DEF RespTake, TypeOK
<1> QED
  BY <1>1, <1>2, <1>3

\* Timeouts, rekeying, ages, data and restarts.
LEMMA TypeOthers ==
    ASSUME TypeOK,
           \/ \E n \in Nodes : \/ \E h \in announcing[n] : InitiateSend(n, h)
                               \/ \E h \in pending[n] : HandshakeTimeout(n, h)
                               \/ RekeyCollect(n)
                               \/ \E s \in built : RekeyPeer(n, s)
                               \/ Restart(n)
           \/ \E m \in datas, addr \in Paths : HandleData(m, addr)
           \/ \E s \in built : Age(s)
    PROVE  TypeOK'
<1> USE DEF tables, workers, shown, heap, ages, net
<1>1. ASSUME NEW n \in Nodes, NEW h \in pending[n], HandshakeTimeout(n, h) PROVE TypeOK'
  <2>1. h.peer \in Nodes
    BY DEF TypeOK
  <2>2. /\ peerState' \in [Nodes -> [Nodes -> PeerStates]]
        /\ stranded' \in [Nodes -> SUBSET Nodes]
    BY <1>1, <2>1, TransitionType DEF HandshakeTimeout, PeerStates
  <2>3. pending' \in [Nodes -> SUBSET [id : 1 .. MaxIds, peer : Nodes]]
    BY <1>1 DEF HandshakeTimeout, TypeOK
  <2> QED
    BY <1>1, <2>2, <2>3 DEF HandshakeTimeout, TypeOK
<1>2. ASSUME NEW n \in Nodes, RekeyCollect(n) PROVE TypeOK'
  <2>1. {s.self : s \in {c \in UNION {Current(n, p) : p \in Nodes} : c.self \in due \ orphan}}
            \subseteq Tokens
    BY DEF TypeOK
  <2>2. toRekey' \in [Nodes -> SUBSET Tokens]
    BY <1>2, <2>1 DEF RekeyCollect, TypeOK
  <2> QED
    BY <1>2, <2>2 DEF RekeyCollect, TypeOK
<1>3. ASSUME NEW n \in Nodes, NEW s \in built, RekeyPeer(n, s) PROVE TypeOK'
  <2>1. s.peer \in Nodes
    BY DEF TypeOK, SessionRecords
  <2>2. /\ byID' = [byID EXCEPT ![n] = @ \ {sessions[n][s.peer]}]
        /\ sessions' = [sessions EXCEPT ![n][s.peer] = 0]
        /\ toRekey' = [toRekey EXCEPT ![n] = @ \ {s.self}]
        /\ dialing' = [dialing EXCEPT ![n] = @ \cup {s.peer}]
    BY <1>3 DEF RekeyPeer, DropSession
  <2>3. byID' \in [Nodes -> SUBSET (1 .. MaxIds)]
    BY <2>2 DEF TypeOK
  <2>4. sessions' \in [Nodes -> [Nodes -> 0 .. MaxIds]]
    BY <2>1, <2>2, Bounds DEF TypeOK
  <2>5. toRekey' \in [Nodes -> SUBSET Tokens]
    BY <2>2 DEF TypeOK
  <2>6. dialing' \in [Nodes -> SUBSET Nodes]
    BY <2>1, <2>2, DialType
  <2> QED
    BY <1>3, <2>3, <2>4, <2>5, <2>6 DEF RekeyPeer, TypeOK
<1>4. ASSUME NEW n \in Nodes, Restart(n) PROVE TypeOK'
  <2>1. inc' \in [Nodes -> 0 .. MaxRestarts]
    <3>1. inc[n] \in 0 .. MaxRestarts /\ inc[n] < MaxRestarts /\ inc' = [inc EXCEPT ![n] = @ + 1]
      BY <1>4 DEF Restart, TypeOK
    <3>2. inc[n] + 1 \in 0 .. MaxRestarts
      BY <3>1, Bounds
    <3> QED
      BY <3>1, <3>2 DEF TypeOK
  <2>2. lastId' \in [Nodes -> 0 .. MaxIds] /\ known' \in [Nodes -> SUBSET Nodes]
    BY <1>4, Bounds DEF Restart, TypeOK
  <2>3. /\ peerState' \in [Nodes -> [Nodes -> PeerStates]]
        /\ stranded' \in [Nodes -> SUBSET Nodes]
    BY <1>4 DEF Restart, TypeOK, PeerStates
  <2>4. /\ dialing' \in [Nodes -> SUBSET Nodes]
        /\ announcing' \in [Nodes -> SUBSET [id : 1 .. MaxIds, peer : Nodes]]
        /\ starting' \in [Nodes -> [Nodes -> 0 .. MaxStarting]]
    BY <1>4, Bounds DEF Restart, TypeOK
  <2>5. /\ pending' \in [Nodes -> SUBSET [id : 1 .. MaxIds, peer : Nodes]]
        /\ completing' \in [Nodes -> SUBSET [id : 1 .. MaxIds, peer : Nodes, eph : Tokens]]
    BY <1>4 DEF Restart, TypeOK
  <2>6. sessions' \in [Nodes -> [Nodes -> 0 .. MaxIds]]
    BY <1>4, Bounds DEF Restart, TypeOK
  <2>7. byID' \in [Nodes -> SUBSET (1 .. MaxIds)] /\ toRekey' \in [Nodes -> SUBSET Tokens]
    BY <1>4 DEF Restart, TypeOK
  <2> QED
    BY <1>4, <2>1, <2>2, <2>3, <2>4, <2>5, <2>6, <2>7 DEF Restart, TypeOK
<1>5. ASSUME NEW m \in datas, NEW addr \in Paths, HandleData(m, addr) PROVE TypeOK'
  <2>1. PICK s \in OpensUnder(m) :
            relayed' = relayed \ {s.self} /\ Transition(m.to, s.peer, "Direct")
    BY <1>5 DEF HandleData
  <2>2. m.to \in Nodes /\ s.peer \in Nodes
    BY DEF TypeOK, OpensUnder, SessionAt, SessionRecords
  <2>3. /\ peerState' \in [Nodes -> [Nodes -> PeerStates]]
        /\ stranded' \in [Nodes -> SUBSET Nodes]
    BY <2>1, <2>2, TransitionType DEF PeerStates
  <2> QED
    BY <1>5, <2>1, <2>3 DEF HandleData, TypeOK
<1>6. ASSUME NEW s \in built, Age(s) PROVE TypeOK'
  <2>1. s.self \in Tokens
    BY DEF TypeOK, SessionRecords
  <2>2. due' \subseteq Tokens /\ expired' \subseteq due'
    BY <1>6, <2>1 DEF Age, TypeOK
  <2> QED
    BY <1>6, <2>2 DEF Age, TypeOK
<1>7. ASSUME NEW n \in Nodes, NEW h \in announcing[n], InitiateSend(n, h) PROVE TypeOK'
  <2>1. h.id \in 1 .. MaxIds /\ h.peer \in Nodes /\ Token(n, h.id) \in Tokens
    BY TokenType DEF TypeOK
  <2>2. announcing' \in [Nodes -> SUBSET [id : 1 .. MaxIds, peer : Nodes]]
    BY <1>7 DEF InitiateSend, TypeOK
  <2>3. /\ peerState' \in [Nodes -> [Nodes -> PeerStates]]
        /\ stranded' \in [Nodes -> SUBSET Nodes]
    <3>1. CASE Transition(n, h.peer, "Connecting")
      BY <2>1, <3>1, TransitionType DEF PeerStates
    <3>2. CASE /\ peerState' = [peerState EXCEPT ![n][h.peer] = "Connecting"]
               /\ stranded' = [stranded EXCEPT ![n] = @ \cup {h.peer}]
      BY <2>1, <3>2 DEF TypeOK, PeerStates
    <3> QED
      BY <1>7, <3>1, <3>2 DEF InitiateSend
  <2>4. inits' \subseteq [hs : Tokens, to : Nodes]
    BY <1>7, <2>1 DEF InitiateSend, TypeOK
  <2> QED
    BY <1>7, <2>2, <2>3, <2>4 DEF InitiateSend, TypeOK
<1> QED
  BY <1>1, <1>2, <1>3, <1>4, <1>5, <1>6, <1>7

\* No step breaks the types.
LEMMA TypeStep == TypeOK /\ [Next]_vars => TypeOK'
<1>1. ASSUME TypeOK, UNCHANGED vars PROVE TypeOK'
  BY <1>1 DEF vars, tables, workers, shown, heap, ages, net, TypeOK
<1> QED
  BY <1>1, TypeDial, TypeInbound, TypeOthers DEF Next

\* The engines' tables and the messages between them are well typed.
THEOREM TypeCorrect == Spec => []TypeOK
BY TypeInit, TypeStep, PTL DEF Spec
-----------------------------------------------------------------------------
(* Identities: every ID and every token stands for one thing. *)

\* A token that a node has drawn, in this life or an earlier one.
Issued(t) == t.inc < inc[t.node] \/ (t.inc = inc[t.node] /\ t.id <= lastId[t.node])

\* What was built and sent names tokens that were drawn.
AllIssued ==
    /\ \A s \in built : Issued(s.self)
    /\ \A m \in inits : Issued(m.hs)
    /\ \A m \in resps : Issued(m.hs) /\ Issued(m.eph)

OneSession == \A s, t \in built : s.self = t.self => s = t

OneInit == \A l, m \in inits : l.hs = m.hs => l = m

\* The entries of one table have different IDs.
IdsUnique ==
    \A n \in Nodes : /\ \A g, h \in pending[n] : g.id = h.id => g = h
                     /\ \A c, d \in completing[n] : c.id = d.id => c = d

\* A handshake that is not complete has no session.
Unbuilt ==
    \A n \in Nodes : \A h \in pending[n] \cup completing[n] :
        \A s \in built : s.self # Token(n, h.id)

\* The handshake of an init that is not yet sent is known to its node alone.
Unsent ==
    \A n \in Nodes : \A h \in announcing[n] :
        /\ h.id <= lastId[n]
        /\ \A m \in inits \cup resps : m.hs # Token(n, h.id)
        /\ \A c \in completing[n] : c.id # h.id
        /\ \A s \in built : s.self # Token(n, h.id)
        /\ \A g \in announcing[n] \cup pending[n] : g.id = h.id => g = h

IdInv == AllIssued /\ OneSession /\ OneInit /\ IdsUnique /\ IdsDisjoint /\ Unbuilt

\* A token is as far as its three parts.
LEMMA TokensDiffer ==
    ASSUME NEW n \in Nodes, NEW m \in Nodes, NEW i, NEW j, Token(n, i) = Token(m, j)
    PROVE  n = m /\ i = j
BY TokenFields

\* A node's tokens change with its life only.
LEMMA TokenKept ==
    ASSUME NEW n, NEW i, inc' = inc
    PROVE  Token(n, i)' = Token(n, i)
BY DEF Token

\* The token of the next ID was not drawn.
LEMMA NextUnissued ==
    ASSUME TypeOK, NEW n \in Nodes
    PROVE  ~ Issued(Token(n, NextId(n)))
<1>1. lastId[n] \in Nat /\ inc[n] \in Nat
  BY Bounds DEF TypeOK
<1> QED
  BY <1>1, TokenFields DEF Issued, NextId

\* A step that draws no ID, builds and sends nothing, and empties tables at most.
LEMMA IdShrink ==
    ASSUME IdInv, UNCHANGED <<inc, lastId, built, inits, resps>>,
           \A n \in Nodes : /\ pending'[n] \subseteq pending[n]
                            /\ completing'[n] \subseteq completing[n]
                            /\ byID'[n] \subseteq byID[n]
    PROVE  IdInv'
<1>1. AllIssued' /\ OneSession' /\ OneInit'
  BY DEF IdInv, AllIssued, Issued, OneSession, OneInit
<1>2. IdsUnique'
  BY DEF IdInv, IdsUnique
<1>3. IdsDisjoint'
  BY DEF IdInv, IdsDisjoint
<1>4. Unbuilt'
  BY TokenKept DEF IdInv, Unbuilt
<1> QED
  BY <1>1, <1>2, <1>3, <1>4 DEF IdInv

\* What was issued stays so when a node draws its next ID.
LEMMA IssuedStays ==
    ASSUME TypeOK, NEW n \in Nodes, lastId' = [lastId EXCEPT ![n] = NextId(n)], inc' = inc,
           NEW t \in Tokens, Issued(t)
    PROVE  Issued(t)'
<1>1. t.node \in Nodes /\ t.id \in Nat /\ lastId[t.node] \in Nat
  BY Bounds DEF Tokens, TypeOK
<1>2. lastId'[t.node] = lastId[t.node] \/ lastId'[t.node] = lastId[t.node] + 1
  BY <1>1 DEF TypeOK, NextId
<1> QED
  BY <1>1, <1>2 DEF Issued

\* The token just drawn is issued.
LEMMA NextIssued ==
    ASSUME TypeOK, NEW n \in Nodes, lastId' = [lastId EXCEPT ![n] = NextId(n)], inc' = inc,
           NEW t, t = Token(n, NextId(n))
    PROVE  Issued(t)'
<1>1. t.node = n /\ t.inc = inc[n] /\ t.id = NextId(n) /\ NextId(n) \in Nat
  BY TokenFields, Bounds DEF NextId, TypeOK
<1>2. lastId'[n] = NextId(n)
  BY DEF TypeOK
<1> QED
  BY <1>1, <1>2 DEF Issued

\* initiateHandshake draws an ID that is in no table.
LEMMA IdInsert ==
    ASSUME TypeOK, IdInv, NEW n \in Nodes, NEW p \in Nodes, InitiateInsert(n, p)
    PROVE  IdInv'
<1>0. PICK id, t, h0 : /\ id = NextId(n) /\ t = Token(n, id) /\ h0 = [id |-> id, peer |-> p]
  OBVIOUS
<1>1. /\ lastId' = [lastId EXCEPT ![n] = id]
      /\ pending' = [pending EXCEPT ![n] = @ \cup {h0}]
      /\ UNCHANGED <<inc, built, inits, resps, completing, byID>>
  BY <1>0 DEF InitiateInsert, heap, net
<1>2. id > lastId[n] /\ lastId[n] \in Nat /\ id \in 1 .. MaxIds
  BY <1>0, NextIdType DEF InitiateInsert
<1>3. t \in Tokens /\ ~ Issued(t) /\ t.node = n /\ t.id = id
  BY <1>0, <1>2, TokenType, NextUnissued, TokenFields
<1>4. \A u \in Tokens : Issued(u) => Issued(u)'
  BY <1>0, <1>1, IssuedStays
<1>5. h0.id = id
  BY <1>0
<1>6. \A m \in Nodes : \A h \in pending'[m] : h \in pending[m] \/ (m = n /\ h = h0)
  BY <1>1 DEF TypeOK
<1>7. Issued(t)'
  BY <1>0, <1>1, NextIssued
<1>8. \A m \in Nodes : \A g \in byID[m] \cup {h.id : h \in pending[m] \cup completing[m]} :
          g <= lastId[m]
  BY DEF IdInv, IdsDisjoint
<1>9. AllIssued'
  <2>1. \A s \in built : s.self \in Tokens
    BY DEF TypeOK, SessionRecords
  <2>2. \A m \in inits : m.hs \in Tokens
    BY DEF TypeOK
  <2>3. \A m \in resps : m.hs \in Tokens /\ m.eph \in Tokens
    BY DEF TypeOK
  <2> QED
    BY <1>1, <1>4, <1>5, <1>6, <1>7, <2>1, <2>2, <2>3 DEF IdInv, AllIssued
<1>10. OneSession' /\ OneInit'
  BY <1>1, <1>3, <1>5, <1>6 DEF IdInv, AllIssued, OneSession, OneInit
<1>11. IdsUnique'
  <2>1. \A h \in pending[n] : h.id # id
    BY <1>2, <1>8
  <2> QED
    BY <1>1, <1>5, <1>6, <2>1 DEF IdInv, IdsUnique
<1>12. IdsDisjoint'
  <2> SUFFICES ASSUME NEW m \in Nodes
               PROVE  /\ {h.id : h \in completing[m]} \cap {h.id : h \in pending'[m]} = {}
                      /\ byID[m] \cap ({h.id : h \in completing[m]} \cup {h.id : h \in pending'[m]}) = {}
                      /\ \A i \in byID[m] \cup {h.id : h \in completing[m]} \cup {h.id : h \in pending'[m]} :
                             i <= lastId'[m]
    BY <1>1 DEF IdsDisjoint
  <2>1. CASE m # n
    <3>1. pending'[m] = pending[m] /\ lastId'[m] = lastId[m]
      BY <1>1, <2>1
    <3> QED
      BY <3>1 DEF IdInv, IdsDisjoint
  <2>2. CASE m = n
    <3>1. {h.id : h \in pending'[n]} = {h.id : h \in pending[n]} \cup {id} /\ lastId'[n] = id
      BY <1>1, <1>5 DEF TypeOK
    <3>2. \A i \in byID[n] \cup {h.id : h \in pending[n]} \cup {h.id : h \in completing[n]} :
              i <= lastId[n] /\ i \in Nat
      <4>1. \A i \in byID[n] \cup {h.id : h \in pending[n]} \cup {h.id : h \in completing[n]} :
              i \in Nat
        BY Bounds DEF TypeOK
      <4> QED
        BY <1>8, <4>1
    <3>3. /\ \A i \in byID[n] \cup {h.id : h \in pending[n]} \cup {h.id : h \in completing[n]} :
               i # id /\ i <= id
          /\ id <= id
      BY <1>2, <3>2
    <3>4. /\ {h.id : h \in completing[n]} \cap {h.id : h \in pending[n]} = {}
          /\ byID[n] \cap ({h.id : h \in completing[n]} \cup {h.id : h \in pending[n]}) = {}
      BY DEF IdInv, IdsDisjoint
    <3> QED
      BY <2>2, <3>1, <3>3, <3>4
  <2> QED
    BY <2>1, <2>2
<1>13. Unbuilt'
  <2> SUFFICES ASSUME NEW m \in Nodes, NEW h \in pending'[m] \cup completing[m], NEW s \in built
               PROVE  s.self # Token(m, h.id)
    BY <1>1, TokenKept DEF Unbuilt
  <2>1. CASE h \in pending[m] \cup completing[m]
    BY <2>1 DEF IdInv, Unbuilt
  <2>2. CASE m = n /\ h = h0
    BY <1>0, <1>3, <1>5, <2>2 DEF IdInv, AllIssued
  <2> QED
    BY <1>6, <2>1, <2>2
<1> QED
  BY <1>9, <1>10, <1>11, <1>12, <1>13 DEF IdInv

\* handleHandshakeInit draws the ID of the session it builds.
LEMMA IdHandleInit ==
    ASSUME TypeOK, IdInv, NEW n \in Nodes, NEW m \in inits, NEW addr, HandleInit(n, m, addr)
    PROVE  IdInv'
<1>0. PICK id, t, s0 : /\ id = NextId(n) /\ t = Token(n, id) /\ s0 = ResponderSession(t, m.hs)
  OBVIOUS
<1>1. /\ lastId' = [lastId EXCEPT ![n] = id]
      /\ built' = built \cup {s0}
      /\ byID' = [byID EXCEPT ![n] = @ \cup {s0.self.id}]
      /\ resps' = resps \cup {[hs |-> m.hs, eph |-> t]}
      /\ UNCHANGED <<inc, inits, pending, completing>>
  BY <1>0 DEF HandleInit, BuildSession, workers
<1>2. id > lastId[n] /\ lastId[n] \in Nat /\ id \in 1 .. MaxIds
  BY <1>0, NextIdType DEF HandleInit
<1>3. t \in Tokens /\ ~ Issued(t) /\ t.node = n /\ t.id = id
  BY <1>0, <1>2, TokenType, NextUnissued, TokenFields
<1>4. \A u \in Tokens : Issued(u) => Issued(u)'
  BY <1>0, <1>1, IssuedStays
<1>5. s0.self = t /\ s0.self.id = id
  BY <1>0, <1>3 DEF ResponderSession
<1>6. \A r \in resps' : r \in resps \/ (r.hs = m.hs /\ r.eph = t)
  BY <1>1
<1>7. Issued(t)'
  BY <1>0, <1>1, NextIssued
<1>8. \A k \in Nodes : \A g \in byID[k] \cup {h.id : h \in pending[k] \cup completing[k]} :
          g <= lastId[k]
  BY DEF IdInv, IdsDisjoint
<1>9. byID' = [byID EXCEPT ![n] = @ \cup {id}]
  BY <1>1, <1>5
<1>10. AllIssued'
  <2>1. \A s \in built : s.self \in Tokens
    BY DEF TypeOK, SessionRecords
  <2>2. \A r \in inits : r.hs \in Tokens
    BY DEF TypeOK
  <2>3. \A r \in resps : r.hs \in Tokens /\ r.eph \in Tokens
    BY DEF TypeOK
  <2>4. \A s \in built' : Issued(s.self)'
    BY <1>1, <1>4, <1>5, <1>7, <2>1 DEF IdInv, AllIssued
  <2>5. \A r \in inits' : Issued(r.hs)'
    BY <1>1, <1>4, <2>2 DEF IdInv, AllIssued
  <2>6. \A r \in resps' : Issued(r.hs)' /\ Issued(r.eph)'
    BY <1>1, <1>4, <1>6, <1>7, <2>2, <2>3 DEF IdInv, AllIssued
  <2> QED
    BY <2>4, <2>5, <2>6 DEF AllIssued
<1>11. OneSession' /\ OneInit'
  BY <1>1, <1>3, <1>5 DEF IdInv, AllIssued, OneSession, OneInit
<1>12. IdsUnique'
  BY <1>1 DEF IdInv, IdsUnique
<1>13. IdsDisjoint'
  <2> SUFFICES ASSUME NEW k \in Nodes
               PROVE  /\ {h.id : h \in completing[k]} \cap {h.id : h \in pending[k]} = {}
                      /\ byID'[k] \cap ({h.id : h \in completing[k]} \cup {h.id : h \in pending[k]}) = {}
                      /\ \A i \in byID'[k] \cup {h.id : h \in completing[k]} \cup {h.id : h \in pending[k]} :
                             i <= lastId'[k]
    BY <1>1 DEF IdsDisjoint
  <2>1. CASE k # n
    <3>1. byID'[k] = byID[k] /\ lastId'[k] = lastId[k]
      BY <1>1, <2>1
    <3> QED
      BY <3>1 DEF IdInv, IdsDisjoint
  <2>2. CASE k = n
    <3>1. byID'[n] = byID[n] \cup {id} /\ lastId'[n] = id
      BY <1>1, <1>9 DEF TypeOK
    <3>2. \A i \in byID[n] \cup {h.id : h \in pending[n]} \cup {h.id : h \in completing[n]} :
              i <= lastId[n] /\ i \in Nat
      <4>1. \A i \in byID[n] \cup {h.id : h \in pending[n]} \cup {h.id : h \in completing[n]} :
              i \in Nat
        BY Bounds DEF TypeOK
      <4> QED
        BY <1>8, <4>1
    <3>3. /\ \A i \in byID[n] \cup {h.id : h \in pending[n]} \cup {h.id : h \in completing[n]} :
               i # id /\ i <= id
          /\ id <= id
      BY <1>2, <3>2
    <3>4. /\ {h.id : h \in completing[n]} \cap {h.id : h \in pending[n]} = {}
          /\ byID[n] \cap ({h.id : h \in completing[n]} \cup {h.id : h \in pending[n]}) = {}
      BY DEF IdInv, IdsDisjoint
    <3> QED
      BY <2>2, <3>1, <3>3, <3>4
  <2> QED
    BY <2>1, <2>2
<1>14. Unbuilt'
  <2> SUFFICES ASSUME NEW k \in Nodes, NEW h \in pending[k] \cup completing[k], NEW s \in built'
               PROVE  s.self # Token(k, h.id)
    BY <1>1, TokenKept DEF Unbuilt
  <2>1. CASE s \in built
    BY <2>1 DEF IdInv, Unbuilt
  <2>2. CASE s = s0
    <3>1. k = n => h.id # id
      BY <1>2, <1>8
    <3> QED
      BY <1>0, <1>5, <2>2, <3>1, TokensDiffer
  <2> QED
    BY <1>1, <2>1, <2>2
<1> QED
  BY <1>10, <1>11, <1>12, <1>13, <1>14 DEF IdInv

\* An init names the handshake it is sent for.
LEMMA IdSend ==
    ASSUME TypeOK, IdInv, Unsent, NEW n \in Nodes, NEW h \in announcing[n], InitiateSend(n, h)
    PROVE  IdInv'
<1>1. PICK t : t = Token(n, h.id)
  OBVIOUS
<1>2. /\ inits' = inits \cup {[hs |-> t, to |-> h.peer]}
      /\ UNCHANGED <<inc, lastId, built, resps, pending, completing, byID>>
  BY <1>1 DEF InitiateSend, tables, heap
<1>3. Issued(t)
  BY <1>1, TokenFields DEF Issued, Unsent
<1>4. AllIssued'
  BY <1>2, <1>3 DEF IdInv, AllIssued, Issued
<1>5. OneSession' /\ OneInit'
  BY <1>1, <1>2 DEF IdInv, OneSession, OneInit, Unsent
<1>6. IdsUnique' /\ IdsDisjoint'
  BY <1>2 DEF IdInv, IdsUnique, IdsDisjoint
<1>7. Unbuilt'
  BY <1>2, TokenKept DEF IdInv, Unbuilt
<1> QED
  BY <1>4, <1>5, <1>6, <1>7 DEF IdInv

\* A response moves a handshake from pending to completing, or drops it.
LEMMA IdTake ==
    ASSUME TypeOK, IdInv, NEW n \in Nodes, NEW m \in resps, RespTake(n, m)
    PROVE  IdInv'
<1>1. PICK h0 \in pending[n] :
          /\ pending' = [pending EXCEPT ![n] = @ \ {h0}]
          /\ \/ completing' = [completing EXCEPT ![n] =
                     @ \cup {[id |-> h0.id, peer |-> h0.peer, eph |-> m.eph]}]
             \/ completing' = completing
          /\ UNCHANGED <<inc, lastId, built, inits, resps, byID>>
  BY DEF RespTake, Forget, heap, net
<1>2. PICK c0 : c0 = [id |-> h0.id, peer |-> h0.peer, eph |-> m.eph]
  OBVIOUS
<1>3. c0.id = h0.id
  BY <1>2
<1>4. \A k \in Nodes : /\ pending'[k] \subseteq pending[k]
                       /\ \A c \in completing'[k] : c \in completing[k] \/ (k = n /\ c = c0)
  BY <1>1, <1>2 DEF TypeOK
<1>5. pending'[n] = pending[n] \ {h0}
  BY <1>1 DEF TypeOK
<1>6. AllIssued' /\ OneSession' /\ OneInit'
  BY <1>1 DEF IdInv, AllIssued, Issued, OneSession, OneInit
<1>7. \A c \in completing[n] : c.id # h0.id
  BY DEF IdInv, IdsDisjoint
<1>8. IdsUnique'
  BY <1>3, <1>4, <1>7 DEF IdInv, IdsUnique
<1>9. IdsDisjoint'
  <2> SUFFICES ASSUME NEW k \in Nodes
               PROVE  /\ {h.id : h \in completing'[k]} \cap {h.id : h \in pending'[k]} = {}
                      /\ byID[k] \cap ({h.id : h \in completing'[k]} \cup {h.id : h \in pending'[k]}) = {}
                      /\ \A i \in byID[k] \cup {h.id : h \in completing'[k]} \cup {h.id : h \in pending'[k]} :
                             i <= lastId[k]
    BY <1>1 DEF IdsDisjoint
  <2>1. \A h \in pending'[k] : h \in pending[k] /\ (k = n => h.id # h0.id)
    BY <1>4, <1>5 DEF IdInv, IdsUnique
  <2>2. \A c \in completing'[k] : c \in completing[k] \/ (k = n /\ c.id = h0.id /\ h0 \in pending[k])
    BY <1>3, <1>4
  <2>3. /\ {h.id : h \in completing[k]} \cap {h.id : h \in pending[k]} = {}
        /\ byID[k] \cap ({h.id : h \in completing[k]} \cup {h.id : h \in pending[k]}) = {}
        /\ \A i \in byID[k] \cup {h.id : h \in completing[k]} \cup {h.id : h \in pending[k]} :
               i <= lastId[k]
    BY DEF IdInv, IdsDisjoint
  <2> QED
    BY <2>1, <2>2, <2>3
<1>10. Unbuilt'
  <2> SUFFICES ASSUME NEW k \in Nodes, NEW h \in pending'[k] \cup completing'[k], NEW s \in built
               PROVE  s.self # Token(k, h.id)
    BY <1>1, TokenKept DEF Unbuilt
  <2>1. CASE h \in pending[k] \cup completing[k]
    BY <2>1 DEF IdInv, Unbuilt
  <2>2. CASE k = n /\ h = c0
    BY <1>3, <2>2 DEF IdInv, Unbuilt
  <2> QED
    BY <1>4, <2>1, <2>2
<1> QED
  BY <1>6, <1>8, <1>9, <1>10 DEF IdInv

\* The initiator's session takes the place of the handshake.
LEMMA IdBuild ==
    ASSUME TypeOK, IdInv, NEW n \in Nodes, NEW c \in completing[n], NEW addr, RespBuild(n, c, addr)
    PROVE  IdInv'
<1>1. PICK t, s0 : t = Token(n, c.id) /\ s0 = InitiatorSession(t, c.peer, c.eph)
  OBVIOUS
<1>2. s0.self = t /\ t.node = n /\ t.inc = inc[n] /\ t.id = c.id /\ s0.self.id = c.id
  BY <1>1, TokenFields DEF InitiatorSession
<1>3. /\ built' = built \cup {s0}
      /\ byID' = [byID EXCEPT ![n] = @ \cup {c.id}]
      /\ completing' = [completing EXCEPT ![n] = @ \ {c}]
      /\ UNCHANGED <<inc, lastId, inits, resps, pending>>
  BY <1>1, <1>2 DEF RespBuild, BuildSession, net
<1>4. c.id <= lastId[n]
  BY DEF IdInv, IdsDisjoint
<1>5. /\ \A k \in Nodes : completing'[k] \subseteq completing[k]
      /\ c \notin completing'[n]
  BY <1>3 DEF TypeOK
<1>6. AllIssued' /\ OneInit'
  BY <1>2, <1>3, <1>4 DEF IdInv, AllIssued, Issued, OneInit
<1>7. OneSession'
  BY <1>1, <1>2, <1>3 DEF IdInv, OneSession, Unbuilt
<1>8. IdsUnique'
  BY <1>3, <1>5 DEF IdInv, IdsUnique
<1>9. /\ \A h \in pending[n] : h.id # c.id
      /\ \A d \in completing'[n] : d.id # c.id
  BY <1>5 DEF IdInv, IdsUnique, IdsDisjoint
<1>10. IdsDisjoint'
  <2> SUFFICES ASSUME NEW k \in Nodes
               PROVE  /\ {h.id : h \in completing'[k]} \cap {h.id : h \in pending[k]} = {}
                      /\ byID'[k] \cap ({h.id : h \in completing'[k]} \cup {h.id : h \in pending[k]}) = {}
                      /\ \A i \in byID'[k] \cup {h.id : h \in completing'[k]} \cup {h.id : h \in pending[k]} :
                             i <= lastId[k]
    BY <1>3 DEF IdsDisjoint
  <2>1. /\ {h.id : h \in completing[k]} \cap {h.id : h \in pending[k]} = {}
        /\ byID[k] \cap ({h.id : h \in completing[k]} \cup {h.id : h \in pending[k]}) = {}
        /\ \A i \in byID[k] \cup {h.id : h \in completing[k]} \cup {h.id : h \in pending[k]} :
               i <= lastId[k]
    BY DEF IdInv, IdsDisjoint
  <2>2. \A i \in byID'[k] : i \in byID[k] \/ (k = n /\ i = c.id)
    BY <1>3 DEF TypeOK
  <2>3. \A d \in completing'[k] : d \in completing[k] /\ (k = n => d.id # c.id)
    BY <1>5, <1>9
  <2>4. \A h \in pending[k] : k = n => h.id # c.id
    BY <1>9
  <2> QED
    BY <1>4, <2>1, <2>2, <2>3, <2>4
<1>11. Unbuilt'
  <2> SUFFICES ASSUME NEW k \in Nodes, NEW h \in pending[k] \cup completing'[k], NEW s \in built'
               PROVE  s.self # Token(k, h.id)
    BY <1>3, TokenKept DEF Unbuilt
  <2>1. CASE s \in built
    BY <1>5, <2>1 DEF IdInv, Unbuilt
  <2>2. CASE s = s0
    <3>1. k = n => h.id # c.id
      BY <1>9
    <3> QED
      BY <1>1, <1>2, <2>2, <3>1, TokensDiffer
  <2> QED
    BY <1>3, <2>1, <2>2
<1> QED
  BY <1>6, <1>7, <1>8, <1>10, <1>11 DEF IdInv

\* A restart empties the tables, and the IDs it gives again are of another life.
LEMMA IdRestart ==
    ASSUME TypeOK, IdInv, NEW n \in Nodes, Restart(n)
    PROVE  IdInv'
<1>1. /\ inc' = [inc EXCEPT ![n] = @ + 1] /\ lastId' = [lastId EXCEPT ![n] = 0]
      /\ pending' = [pending EXCEPT ![n] = {}] /\ completing' = [completing EXCEPT ![n] = {}]
      /\ byID' = [byID EXCEPT ![n] = {}]
      /\ UNCHANGED <<built, inits, resps>>
  BY DEF Restart, heap, net
<1>2. \A k \in Nodes :
          /\ k = n => pending'[k] = {} /\ completing'[k] = {} /\ byID'[k] = {}
          /\ k # n => /\ pending'[k] = pending[k] /\ completing'[k] = completing[k]
                      /\ byID'[k] = byID[k] /\ lastId'[k] = lastId[k] /\ inc'[k] = inc[k]
  BY <1>1 DEF TypeOK
<1>3. ASSUME NEW t \in Tokens, Issued(t) PROVE Issued(t)'
  <2>1. t.node \in Nodes /\ t.inc \in Nat /\ inc[t.node] \in Nat
    BY Bounds DEF Tokens, TypeOK
  <2>2. CASE t.node = n
    <3>1. inc'[n] = inc[n] + 1
      BY <1>1 DEF TypeOK
    <3> QED
      BY <1>3, <2>1, <2>2, <3>1 DEF Issued
  <2>3. CASE t.node # n
    BY <1>2, <1>3, <2>1, <2>3 DEF Issued
  <2> QED
    BY <2>2, <2>3
<1>4. AllIssued'
  <2>1. \A s \in built : s.self \in Tokens
    BY DEF TypeOK, SessionRecords
  <2>2. \A r \in inits : r.hs \in Tokens
    BY DEF TypeOK
  <2>3. \A r \in resps : r.hs \in Tokens /\ r.eph \in Tokens
    BY DEF TypeOK
  <2> QED
    BY <1>1, <1>3, <2>1, <2>2, <2>3 DEF IdInv, AllIssued
<1>5. OneSession' /\ OneInit'
  BY <1>1 DEF IdInv, OneSession, OneInit
<1>6. IdsUnique'
  BY <1>2 DEF IdInv, IdsUnique
<1>7. IdsDisjoint'
  <2> SUFFICES ASSUME NEW k \in Nodes
               PROVE  /\ {h.id : h \in completing'[k]} \cap {h.id : h \in pending'[k]} = {}
                      /\ byID'[k] \cap ({h.id : h \in completing'[k]} \cup {h.id : h \in pending'[k]}) = {}
                      /\ \A i \in byID'[k] \cup {h.id : h \in completing'[k]} \cup {h.id : h \in pending'[k]} :
                             i <= lastId'[k]
    BY DEF IdsDisjoint
  <2>1. CASE k = n
    BY <1>2, <2>1
  <2>2. CASE k # n
    <3>1. /\ pending'[k] = pending[k] /\ completing'[k] = completing[k]
          /\ byID'[k] = byID[k] /\ lastId'[k] = lastId[k]
      BY <1>2, <2>2
    <3> QED
      BY <3>1 DEF IdInv, IdsDisjoint
  <2> QED
    BY <2>1, <2>2
<1>8. Unbuilt'
  <2> SUFFICES ASSUME NEW k \in Nodes, NEW h \in pending'[k] \cup completing'[k], NEW s \in built
               PROVE  s.self # Token(k, h.id)'
    BY <1>1 DEF Unbuilt
  <2>1. k # n /\ h \in pending[k] \cup completing[k] /\ inc'[k] = inc[k]
    BY <1>2
  <2>2. Token(k, h.id)' = Token(k, h.id)
    BY <2>1 DEF Token
  <2> QED
    BY <2>1, <2>2 DEF IdInv, Unbuilt
<1> QED
  BY <1>4, <1>5, <1>6, <1>7, <1>8 DEF IdInv

\* Every step keeps the identities apart.
LEMMA IdStep == TypeOK /\ IdInv /\ Unsent /\ [Next]_vars => IdInv'
<1> SUFFICES ASSUME TypeOK, IdInv, Unsent, [Next]_vars PROVE IdInv'
  OBVIOUS
<1>1. ASSUME UNCHANGED <<inc, lastId, built, inits, resps, pending, completing, byID>>
      PROVE  IdInv'
  BY <1>1, IdShrink
<1>2. ASSUME NEW n \in Nodes, NEW p \in Nodes,
             \/ LearnPeer(n, p) \/ SendDials(n, p) \/ UpgradeDials(n, p)
             \/ InitiateCheck(n, p) \/ SendData(n, p)
      PROVE  IdInv'
  BY <1>1, <1>2 DEF LearnPeer, SendDials, UpgradeDials, InitiateCheck, SendData,
                    tables, workers, heap, net
<1>3. ASSUME NEW n \in Nodes, RekeyCollect(n) PROVE IdInv'
  BY <1>1, <1>3 DEF RekeyCollect, tables, heap, net
<1>4. ASSUME NEW n \in Nodes, NEW h \in pending[n], HandshakeTimeout(n, h) PROVE IdInv'
  <2>1. /\ UNCHANGED <<inc, lastId, built, inits, resps, completing, byID>>
        /\ pending' = [pending EXCEPT ![n] = @ \ {h}]
    BY <1>4 DEF HandshakeTimeout, workers, heap, net
  <2>2. \A k \in Nodes : pending'[k] \subseteq pending[k]
    BY <2>1 DEF TypeOK
  <2> QED
    BY <2>1, <2>2, IdShrink
<1>5. ASSUME NEW n \in Nodes, NEW s \in built, RekeyPeer(n, s) PROVE IdInv'
  <2>1. /\ UNCHANGED <<inc, lastId, built, inits, resps, completing, pending>>
        /\ byID' = [byID EXCEPT ![n] = @ \ {sessions[n][s.peer]}]
    BY <1>5 DEF RekeyPeer, DropSession, heap, net
  <2>2. \A k \in Nodes : byID'[k] \subseteq byID[k]
    BY <2>1 DEF TypeOK
  <2> QED
    BY <2>1, <2>2, IdShrink
<1>6. ASSUME NEW m \in datas, NEW addr \in Paths, HandleData(m, addr) PROVE IdInv'
  BY <1>1, <1>6 DEF HandleData, tables, workers, net
<1>7. ASSUME NEW s \in built, Age(s) PROVE IdInv'
  BY <1>1, <1>7 DEF Age, tables, workers, heap, net
<1>8. CASE UNCHANGED vars
  BY <1>1, <1>8 DEF vars, tables, workers, heap, net
<1> QED
  BY <1>2, <1>3, <1>4, <1>5, <1>6, <1>7, <1>8, IdInsert, IdSend, IdHandleInit, IdBuild, IdTake,
     IdRestart DEF Next

\* Initially no ID was drawn.
LEMMA IdInit == Init => IdInv
<1> SUFFICES ASSUME Init PROVE IdInv
  OBVIOUS
<1>1. /\ built = {} /\ inits = {} /\ resps = {}
      /\ \A n \in Nodes : pending[n] = {} /\ completing[n] = {} /\ byID[n] = {}
  BY DEF Init
<1>2. AllIssued /\ OneSession /\ OneInit
  BY <1>1 DEF AllIssued, OneSession, OneInit
<1>3. IdsUnique /\ IdsDisjoint /\ Unbuilt
  BY <1>1 DEF IdsUnique, IdsDisjoint, Unbuilt
<1> QED
  BY <1>2, <1>3 DEF IdInv

\* A step that draws no ID, builds and sends nothing, and empties tables at most.
LEMMA UnsentShrink ==
    ASSUME Unsent, UNCHANGED <<inc, lastId, built, inits, resps>>,
           \A n \in Nodes : /\ announcing'[n] \subseteq announcing[n]
                            /\ pending'[n] \subseteq pending[n]
                            /\ completing'[n] \subseteq completing[n]
    PROVE  Unsent'
BY TokenKept DEF Unsent

\* A new handshake has an ID that nobody knows.
LEMMA UnsentInsert ==
    ASSUME TypeOK, IdInv, Unsent, NEW n \in Nodes, NEW p \in Nodes, InitiateInsert(n, p)
    PROVE  Unsent'
<1>1. PICK id, t, h0 : id = NextId(n) /\ t = Token(n, id) /\ h0 = [id |-> id, peer |-> p]
  OBVIOUS
<1>2. /\ lastId' = [lastId EXCEPT ![n] = id]
      /\ pending' = [pending EXCEPT ![n] = @ \cup {h0}]
      /\ announcing' = [announcing EXCEPT ![n] = @ \cup {h0}]
      /\ UNCHANGED <<inc, built, inits, resps, completing>>
  BY <1>1 DEF InitiateInsert, heap, net
<1>3. id > lastId[n] /\ lastId[n] \in Nat /\ id \in Nat /\ h0.id = id /\ lastId'[n] = id
  BY <1>1, <1>2, NextIdType DEF InitiateInsert, TypeOK
<1>4. /\ \A m \in inits \cup resps : m.hs # t
      /\ \A s \in built : s.self # t
  BY <1>1, NextUnissued DEF IdInv, AllIssued
<1>5. \A h \in announcing[n] \cup pending[n] \cup completing[n] : h.id \in Nat /\ h.id <= lastId[n]
  BY Bounds DEF TypeOK, IdInv, IdsDisjoint, Unsent
<1>6. \A k \in Nodes :
          /\ \A h \in announcing'[k] : h \in announcing[k] \/ (k = n /\ h = h0)
          /\ \A h \in pending'[k] : h \in pending[k] \/ (k = n /\ h = h0)
          /\ k # n => lastId'[k] = lastId[k]
  BY <1>2 DEF TypeOK
<1> SUFFICES ASSUME NEW k \in Nodes, NEW h \in announcing'[k]
             PROVE  /\ h.id <= lastId'[k]
                    /\ \A m \in inits \cup resps : m.hs # Token(k, h.id)
                    /\ \A c \in completing[k] : c.id # h.id
                    /\ \A s \in built : s.self # Token(k, h.id)
                    /\ \A g \in announcing'[k] \cup pending'[k] : g.id = h.id => g = h
  BY <1>2, TokenKept DEF Unsent
<1>7. CASE k = n /\ h = h0
  <2>1. h.id = id /\ Token(k, h.id) = t
    BY <1>1, <1>3, <1>7
  <2>2. \A g \in announcing'[k] \cup pending'[k] : g.id = h.id => g = h
    BY <1>3, <1>5, <1>6, <1>7, <2>1
  <2>3. \A c \in completing[k] : c.id # h.id
    BY <1>3, <1>5, <1>7, <2>1
  <2> QED
    BY <1>3, <1>4, <1>7, <2>1, <2>2, <2>3
<1>8. CASE h \in announcing[k]
  <2>1. /\ h.id <= lastId[k]
        /\ \A m \in inits \cup resps : m.hs # Token(k, h.id)
        /\ \A c \in completing[k] : c.id # h.id
        /\ \A s \in built : s.self # Token(k, h.id)
        /\ \A g \in announcing[k] \cup pending[k] : g.id = h.id => g = h
    BY <1>8 DEF Unsent
  <2>2. h.id <= lastId'[k] /\ (k = n => h.id # h0.id)
    BY <1>3, <1>5, <1>6, <1>8, <2>1
  <2> QED
    BY <1>6, <2>1, <2>2
<1> QED
  BY <1>6, <1>7, <1>8

\* Sending one init leaves the others unsent.
LEMMA UnsentSend ==
    ASSUME TypeOK, Unsent, NEW n \in Nodes, NEW h0 \in announcing[n], InitiateSend(n, h0)
    PROVE  Unsent'
<1>1. PICK m0 : m0 = [hs |-> Token(n, h0.id), to |-> h0.peer]
  OBVIOUS
<1>2. /\ announcing' = [announcing EXCEPT ![n] = @ \ {h0}]
      /\ inits' = inits \cup {m0} /\ m0.hs = Token(n, h0.id)
      /\ UNCHANGED <<inc, lastId, built, resps, pending, completing>>
  BY <1>1 DEF InitiateSend, tables, heap
<1>3. \A k \in Nodes : /\ announcing'[k] \subseteq announcing[k]
                       /\ k = n => h0 \notin announcing'[k]
  BY <1>2 DEF TypeOK
<1>4. ASSUME NEW k \in Nodes, NEW h \in announcing'[k]
      PROVE  Token(k, h.id) # m0.hs
  <2>1. CASE k # n
    BY <1>2, <2>1, TokensDiffer
  <2>2. CASE k = n
    <3>1. h.id # h0.id
      BY <1>3, <2>2 DEF Unsent
    <3> QED
      BY <1>2, <2>2, <3>1, TokensDiffer
  <2> QED
    BY <2>1, <2>2
<1> QED
  BY <1>2, <1>3, <1>4, TokenKept DEF Unsent

\* A response answers an init that was sent, under a token of its own.
LEMMA UnsentHandleInit ==
    ASSUME TypeOK, Unsent, NEW n \in Nodes, NEW m \in inits, NEW addr, HandleInit(n, m, addr)
    PROVE  Unsent'
<1>1. PICK t, s0, r0 : /\ t = Token(n, NextId(n)) /\ s0 = ResponderSession(t, m.hs)
                       /\ r0 = [hs |-> m.hs, eph |-> t]
  OBVIOUS
<1>2. /\ built' = built \cup {s0} /\ resps' = resps \cup {r0}
      /\ s0.self = t /\ r0.hs = m.hs
      /\ lastId' = [lastId EXCEPT ![n] = NextId(n)]
      /\ UNCHANGED <<inc, inits, announcing, pending, completing>>
  BY <1>1 DEF HandleInit, BuildSession, ResponderSession, workers
<1>3. NextId(n) \in Nat /\ NextId(n) > lastId[n] /\ lastId[n] \in Nat
  BY NextIdType, Bounds DEF HandleInit
<1>4. \A k \in Nodes : lastId'[k] = IF k = n THEN NextId(n) ELSE lastId[k]
  BY <1>2 DEF TypeOK
<1>5. ASSUME NEW k \in Nodes, NEW h \in announcing[k]
      PROVE  h.id <= lastId'[k] /\ t # Token(k, h.id)
  <2>1. h.id \in Nat /\ h.id <= lastId[k]
    BY Bounds DEF TypeOK, Unsent
  <2>2. h.id <= lastId'[k]
    BY <1>3, <1>4, <2>1
  <2>3. t # Token(k, h.id)
    BY <1>1, <1>3, <2>1, TokensDiffer
  <2> QED
    BY <2>2, <2>3
<1> QED
  BY <1>2, <1>5, TokenKept DEF Unsent

\* What completes was sent.
LEMMA UnsentTake ==
    ASSUME TypeOK, Unsent, NEW n \in Nodes, NEW r \in resps, RespTake(n, r)
    PROVE  Unsent'
<1>1. PICK h0 \in pending[n] :
          /\ pending' = [pending EXCEPT ![n] = @ \ {h0}]
          /\ \/ /\ r.hs = Token(n, h0.id)
                /\ completing' = [completing EXCEPT ![n] =
                       @ \cup {[id |-> h0.id, peer |-> h0.peer, eph |-> r.eph]}]
             \/ completing' = completing
          /\ UNCHANGED <<inc, lastId, built, inits, resps, announcing>>
  BY DEF RespTake, Forget, heap, net
<1>2. \A k \in Nodes :
          /\ pending'[k] \subseteq pending[k]
          /\ \A c \in completing'[k] :
                 c \in completing[k] \/ (k = n /\ c.id = h0.id /\ r.hs = Token(n, h0.id))
  BY <1>1 DEF TypeOK
<1>3. \A k \in Nodes : \A h \in announcing[k] : \A c \in completing'[k] : c.id # h.id
  BY <1>2 DEF Unsent
<1> QED
  BY <1>1, <1>2, <1>3, TokenKept DEF Unsent

\* A session is built for what completes.
LEMMA UnsentBuild ==
    ASSUME TypeOK, Unsent, NEW n \in Nodes, NEW c \in completing[n], NEW addr, RespBuild(n, c, addr)
    PROVE  Unsent'
<1>1. PICK s0 : s0 = InitiatorSession(Token(n, c.id), c.peer, c.eph)
  OBVIOUS
<1>2. /\ built' = built \cup {s0} /\ s0.self = Token(n, c.id)
      /\ completing' = [completing EXCEPT ![n] = @ \ {c}]
      /\ UNCHANGED <<inc, lastId, inits, resps, announcing, pending>>
  BY <1>1 DEF RespBuild, BuildSession, InitiatorSession, net
<1>3. \A k \in Nodes : completing'[k] \subseteq completing[k]
  BY <1>2 DEF TypeOK
<1>4. \A k \in Nodes : \A h \in announcing[k] : s0.self # Token(k, h.id)
  BY <1>2, TokensDiffer DEF Unsent
<1> QED
  BY <1>2, <1>3, <1>4, TokenKept DEF Unsent

\* A restart sends nothing any more.
LEMMA UnsentRestart ==
    ASSUME TypeOK, Unsent, NEW n \in Nodes, Restart(n)
    PROVE  Unsent'
<1>1. /\ inc' = [inc EXCEPT ![n] = @ + 1] /\ lastId' = [lastId EXCEPT ![n] = 0]
      /\ pending' = [pending EXCEPT ![n] = {}] /\ completing' = [completing EXCEPT ![n] = {}]
      /\ announcing' = [announcing EXCEPT ![n] = {}]
      /\ UNCHANGED <<built, inits, resps>>
  BY DEF Restart, heap, net
<1>2. \A k \in Nodes :
          /\ k = n => announcing'[k] = {}
          /\ k # n => /\ pending'[k] = pending[k] /\ completing'[k] = completing[k]
                      /\ announcing'[k] = announcing[k] /\ lastId'[k] = lastId[k]
                      /\ inc'[k] = inc[k]
  BY <1>1 DEF TypeOK
<1>3. ASSUME NEW k \in Nodes, k # n, NEW i PROVE Token(k, i)' = Token(k, i)
  BY <1>2, <1>3 DEF Token
<1> QED
  BY <1>1, <1>2, <1>3 DEF Unsent

\* Every step leaves what is not yet sent unknown.
LEMMA UnsentStep == TypeOK /\ IdInv /\ Unsent /\ [Next]_vars => Unsent'
<1> SUFFICES ASSUME TypeOK, IdInv, Unsent, [Next]_vars PROVE Unsent'
  OBVIOUS
<1>1. ASSUME UNCHANGED <<inc, lastId, built, inits, resps, announcing, pending, completing>>
      PROVE  Unsent'
  BY <1>1, UnsentShrink
<1>2. ASSUME NEW n \in Nodes, NEW p \in Nodes,
             \/ LearnPeer(n, p) \/ SendDials(n, p) \/ UpgradeDials(n, p)
             \/ InitiateCheck(n, p) \/ SendData(n, p)
      PROVE  Unsent'
  BY <1>1, <1>2 DEF LearnPeer, SendDials, UpgradeDials, InitiateCheck, SendData,
                    tables, workers, heap, net
<1>3. ASSUME NEW n \in Nodes, RekeyCollect(n) \/ \E s \in built : RekeyPeer(n, s)
      PROVE  Unsent'
  BY <1>1, <1>3 DEF RekeyCollect, RekeyPeer, tables, heap, net
<1>4. ASSUME NEW n \in Nodes, NEW h \in pending[n], HandshakeTimeout(n, h) PROVE Unsent'
  <2>1. /\ UNCHANGED <<inc, lastId, built, inits, resps, completing, announcing>>
        /\ pending' = [pending EXCEPT ![n] = @ \ {h}]
    BY <1>4 DEF HandshakeTimeout, workers, heap, net
  <2>2. \A k \in Nodes : pending'[k] \subseteq pending[k]
    BY <2>1 DEF TypeOK
  <2> QED
    BY <2>1, <2>2, UnsentShrink
<1>5. ASSUME NEW m \in datas, NEW addr \in Paths, HandleData(m, addr) PROVE Unsent'
  BY <1>1, <1>5 DEF HandleData, tables, workers, net
<1>6. ASSUME NEW s \in built, Age(s) PROVE Unsent'
  BY <1>1, <1>6 DEF Age, tables, workers, heap, net
<1>7. CASE UNCHANGED vars
  BY <1>1, <1>7 DEF vars, tables, workers, heap, net
<1> QED
  BY <1>2, <1>3, <1>4, <1>5, <1>6, <1>7, UnsentInsert, UnsentSend, UnsentHandleInit,
     UnsentTake, UnsentBuild, UnsentRestart DEF Next

\* Types and identities hold always.
LEMMA IdsAlways == Spec => [](TypeOK /\ IdInv /\ Unsent)
<1>1. Init => Unsent
  BY DEF Init, Unsent
<1> QED
  BY <1>1, TypeInit, TypeStep, IdInit, IdStep, UnsentStep, PTL DEF Spec

\* pending, completing and byID never have an ID in common, and none is above
\* the counter: whatever an ID finds was filed under it.
THEOREM IdsDisjointCorrect == Spec => []IdsDisjoint
<1>1. IdInv => IdsDisjoint
  BY DEF IdInv
<1> QED
  BY <1>1, IdsAlways, PTL

\* A handshake becomes one session, so that its keys count nonces from 0 once,
\* whatever is sent twice, answered late or forgotten in a restart.
THEOREM KeysUsedOnceCorrect == Spec => []KeysUsedOnce
<1>1. IdInv => KeysUsedOnce
  BY DEF IdInv, OneSession, Unbuilt, KeysUsedOnce
<1> QED
  BY <1>1, IdsAlways, PTL

-----------------------------------------------------------------------------
(* The two halves of a handshake. *)

\* A pending handshake is sent, or about to be, to the peer it is with.
PendingSent ==
    \A n \in Nodes : \A h \in pending[n] :
        \/ h \in announcing[n]
        \/ \E m \in inits : m.hs = Token(n, h.id) /\ m.to = h.peer

\* A response comes from the node that was dialled, which has built its session.
ResponsesSound ==
    \A r \in resps :
        /\ r.hs # r.eph
        /\ ResponderSession(r.eph, r.hs) \in built
        /\ \E m \in inits : m.hs = r.hs /\ m.to = r.eph.node

\* A handshake is completed with a response from its peer.
CompletingSound ==
    \A n \in Nodes : \A c \in completing[n] :
        /\ c.eph.node = c.peer
        /\ \E r \in resps : r.hs = Token(n, c.id) /\ r.eph = c.eph

\* A session is one of the two ends of its keys.
Roles ==
    \A s \in built :
        /\ s.key.init # s.key.resp
        /\ \/ s.self = s.key.init
           \/ /\ s.self = s.key.resp
              /\ s.peer = s.key.init.node /\ s.remoteId = s.key.init.id

HalfInv == PendingSent /\ ResponsesSound /\ CompletingSound /\ Roles /\ HandshakeAgreement

\* A step that builds no session, answers nothing, and adds no entry.
LEMMA HalfShrink ==
    ASSUME HalfInv, UNCHANGED <<inc, built, inits, resps, announcing>>,
           \A n \in Nodes : /\ pending'[n] \subseteq pending[n]
                            /\ completing'[n] \subseteq completing[n]
    PROVE  HalfInv'
<1>1. PendingSent'
  BY TokenKept DEF HalfInv, PendingSent
<1>2. ResponsesSound' /\ Roles' /\ HandshakeAgreement'
  BY DEF HalfInv, ResponsesSound, Roles, HandshakeAgreement
<1>3. CompletingSound'
  BY TokenKept DEF HalfInv, CompletingSound
<1> QED
  BY <1>1, <1>2, <1>3 DEF HalfInv

\* A new handshake is about to be sent to its peer.
LEMMA HalfInsert ==
    ASSUME TypeOK, HalfInv, NEW n \in Nodes, NEW p \in Nodes, InitiateInsert(n, p)
    PROVE  HalfInv'
<1>1. PICK h0 : h0 = [id |-> NextId(n), peer |-> p]
  OBVIOUS
<1>2. /\ pending' = [pending EXCEPT ![n] = @ \cup {h0}]
      /\ announcing' = [announcing EXCEPT ![n] = @ \cup {h0}]
      /\ UNCHANGED <<inc, built, inits, resps, completing>>
  BY <1>1 DEF InitiateInsert, heap, net
<1>3. \A k \in Nodes : /\ \A h \in pending'[k] : h \in pending[k] \/ h \in announcing'[k]
                       /\ announcing[k] \subseteq announcing'[k]
  BY <1>2 DEF TypeOK
<1>4. PendingSent'
  BY <1>2, <1>3, TokenKept DEF HalfInv, PendingSent
<1>5. ResponsesSound' /\ Roles' /\ HandshakeAgreement'
  BY <1>2 DEF HalfInv, ResponsesSound, Roles, HandshakeAgreement
<1>6. CompletingSound'
  BY <1>2, TokenKept DEF HalfInv, CompletingSound
<1> QED
  BY <1>4, <1>5, <1>6 DEF HalfInv

\* The init is sent to the peer that the pending entry names.
LEMMA HalfSend ==
    ASSUME TypeOK, HalfInv, NEW n \in Nodes, NEW h0 \in announcing[n], InitiateSend(n, h0)
    PROVE  HalfInv'
<1>1. PICK m0 : m0 = [hs |-> Token(n, h0.id), to |-> h0.peer]
  OBVIOUS
<1>2. /\ announcing' = [announcing EXCEPT ![n] = @ \ {h0}] /\ inits' = inits \cup {m0}
      /\ UNCHANGED <<inc, built, resps, pending, completing>>
  BY <1>1 DEF InitiateSend, tables, heap
<1>3. m0.hs = Token(n, h0.id) /\ m0.to = h0.peer
  BY <1>1
<1>4. \A k \in Nodes : \A h \in announcing[k] : h \in announcing'[k] \/ (k = n /\ h = h0)
  BY <1>2 DEF TypeOK
<1>5. PendingSent'
  <2> SUFFICES ASSUME NEW k \in Nodes, NEW h \in pending[k], h \notin announcing'[k]
               PROVE  \E m \in inits' : m.hs = Token(k, h.id) /\ m.to = h.peer
    BY <1>2, TokenKept DEF PendingSent
  <2>1. CASE h \in announcing[k]
    BY <1>2, <1>3, <1>4, <2>1
  <2>2. CASE h \notin announcing[k]
    BY <1>2, <2>2 DEF HalfInv, PendingSent
  <2> QED
    BY <2>1, <2>2
<1>6. ResponsesSound'
  BY <1>2 DEF HalfInv, ResponsesSound
<1>7. CompletingSound'
  BY <1>2, TokenKept DEF HalfInv, CompletingSound
<1>8. Roles' /\ HandshakeAgreement'
  BY <1>2 DEF HalfInv, Roles, HandshakeAgreement
<1> QED
  BY <1>5, <1>6, <1>7, <1>8 DEF HalfInv

\* The responder's half is there before its response is sent.
LEMMA HalfHandleInit ==
    ASSUME TypeOK, IdInv, HalfInv, NEW n \in Nodes, NEW m \in inits, NEW addr,
           HandleInit(n, m, addr)
    PROVE  HalfInv'
<1>1. PICK t, s0, r0 : /\ t = Token(n, NextId(n)) /\ s0 = ResponderSession(t, m.hs)
                       /\ r0 = [hs |-> m.hs, eph |-> t]
  OBVIOUS
<1>2. /\ built' = built \cup {s0} /\ resps' = resps \cup {r0} /\ m.to = n
      /\ UNCHANGED <<inc, inits, pending, completing, announcing>>
  BY <1>1 DEF HandleInit, BuildSession, workers
<1>3. t # m.hs /\ t.node = n
  <2>1. ~ Issued(t)
    BY <1>1, NextUnissued
  <2>2. Issued(m.hs)
    BY DEF IdInv, AllIssued
  <2> QED
    BY <1>1, <2>1, <2>2, TokenFields
<1>4. /\ s0.self = t /\ s0.peer = m.hs.node /\ s0.key.init = m.hs /\ s0.key.resp = t
      /\ s0.remoteId = m.hs.id
      /\ r0.hs = m.hs /\ r0.eph = t /\ s0 = ResponderSession(r0.eph, r0.hs)
  BY <1>1 DEF ResponderSession
<1>5. PendingSent'
  BY <1>2, TokenKept DEF HalfInv, PendingSent
<1>6. ResponsesSound'
  BY <1>2, <1>3, <1>4 DEF HalfInv, ResponsesSound
<1>7. CompletingSound'
  BY <1>2, TokenKept DEF HalfInv, CompletingSound
<1>8. Roles'
  BY <1>2, <1>3, <1>4 DEF HalfInv, Roles
<1>9. HandshakeAgreement'
  BY <1>2, <1>3, <1>4 DEF HalfInv, HandshakeAgreement
<1> QED
  BY <1>5, <1>6, <1>7, <1>8, <1>9 DEF HalfInv

\* A response is taken for the handshake it names only, and comes from its peer.
LEMMA HalfTake ==
    ASSUME TypeOK, IdInv, Unsent, HalfInv, NEW n \in Nodes, NEW r \in resps, RespTake(n, r)
    PROVE  HalfInv'
<1>1. PICK h0 \in pending[n] :
          /\ pending' = [pending EXCEPT ![n] = @ \ {h0}]
          /\ \/ /\ r.hs = Token(n, h0.id)
                /\ completing' = [completing EXCEPT ![n] =
                       @ \cup {[id |-> h0.id, peer |-> h0.peer, eph |-> r.eph]}]
             \/ completing' = completing
          /\ UNCHANGED <<inc, built, inits, resps, announcing>>
  BY DEF RespTake, Forget, heap, net
<1>2. PICK c0 : c0 = [id |-> h0.id, peer |-> h0.peer, eph |-> r.eph]
  OBVIOUS
<1>3. c0.id = h0.id /\ c0.peer = h0.peer /\ c0.eph = r.eph
  BY <1>2
<1>4. \A k \in Nodes :
          /\ pending'[k] \subseteq pending[k]
          /\ \A c \in completing'[k] :
                 c \in completing[k] \/ (k = n /\ c = c0 /\ r.hs = Token(n, h0.id))
  BY <1>1, <1>2 DEF TypeOK
<1>5. PendingSent'
  BY <1>1, <1>4, TokenKept DEF HalfInv, PendingSent
<1>6. ResponsesSound' /\ Roles' /\ HandshakeAgreement'
  BY <1>1 DEF HalfInv, ResponsesSound, Roles, HandshakeAgreement
<1>7. r.hs = Token(n, h0.id) => r.eph.node = h0.peer
  <2> SUFFICES ASSUME r.hs = Token(n, h0.id) PROVE r.eph.node = h0.peer
    OBVIOUS
  <2>1. PICK l \in inits : l.hs = Token(n, h0.id) /\ l.to = h0.peer
    BY DEF HalfInv, PendingSent, Unsent
  <2>2. PICK m \in inits : m.hs = r.hs /\ m.to = r.eph.node
    BY DEF HalfInv, ResponsesSound
  <2>3. l = m
    BY <2>1, <2>2 DEF IdInv, OneInit
  <2> QED
    BY <2>1, <2>2, <2>3
<1>8. CompletingSound'
  <2> SUFFICES ASSUME NEW k \in Nodes, NEW c \in completing'[k]
               PROVE  /\ c.eph.node = c.peer
                      /\ \E q \in resps : q.hs = Token(k, c.id) /\ q.eph = c.eph
    BY <1>1, TokenKept DEF CompletingSound
  <2>1. CASE c \in completing[k]
    BY <2>1 DEF HalfInv, CompletingSound
  <2>2. CASE k = n /\ c = c0 /\ r.hs = Token(n, h0.id)
    BY <1>3, <1>7, <2>2
  <2> QED
    BY <1>4, <2>1, <2>2
<1> QED
  BY <1>5, <1>6, <1>8 DEF HalfInv

\* The initiator's half agrees with the responder's, which is there already.
LEMMA HalfBuild ==
    ASSUME TypeOK, IdInv, HalfInv, NEW n \in Nodes, NEW c \in completing[n], NEW addr,
           RespBuild(n, c, addr)
    PROVE  HalfInv'
<1>1. PICK t, s0 : t = Token(n, c.id) /\ s0 = InitiatorSession(t, c.peer, c.eph)
  OBVIOUS
<1>2. /\ built' = built \cup {s0} /\ UNCHANGED <<inc, inits, resps, pending, announcing>>
      /\ completing' = [completing EXCEPT ![n] = @ \ {c}]
  BY <1>1 DEF RespBuild, BuildSession, net
<1>3. /\ s0.self = t /\ s0.peer = c.peer /\ s0.remoteId = c.eph.id
      /\ s0.key = [init |-> t, resp |-> c.eph] /\ s0.key.init = t /\ s0.key.resp = c.eph
      /\ t.node = n /\ t.id = c.id
  BY <1>1, TokenFields DEF InitiatorSession
<1>4. PICK r \in resps : r.hs = t /\ r.eph = c.eph
  BY <1>1 DEF HalfInv, CompletingSound
<1>5. r.hs # r.eph /\ ResponderSession(c.eph, t) \in built /\ c.eph.node = c.peer
  BY <1>4 DEF HalfInv, ResponsesSound, CompletingSound
<1>6. PICK u : u = ResponderSession(c.eph, t) /\ u \in built
  BY <1>5
<1>7. /\ u.self = c.eph /\ u.peer = n /\ u.remoteId = c.id
      /\ u.key = [init |-> t, resp |-> c.eph]
  BY <1>3, <1>6 DEF ResponderSession
<1>8. \A k \in Nodes : completing'[k] \subseteq completing[k]
  BY <1>2 DEF TypeOK
<1>9. PendingSent'
  BY <1>2, TokenKept DEF HalfInv, PendingSent
<1>10. ResponsesSound'
  BY <1>2 DEF HalfInv, ResponsesSound
<1>11. CompletingSound'
  BY <1>2, <1>8, TokenKept DEF HalfInv, CompletingSound
<1>12. Roles'
  BY <1>2, <1>3, <1>4, <1>5 DEF HalfInv, Roles
<1>13. HandshakeAgreement'
  <2> SUFFICES ASSUME NEW s \in built', s.key.init = s.self
               PROVE  \E v \in built' :
                          /\ v.self = s.key.resp /\ v.key = s.key
                          /\ v.self.node = s.peer /\ v.peer = s.self.node
                          /\ v.remoteId = s.self.id /\ s.remoteId = v.self.id
    BY DEF HandshakeAgreement
  <2>1. CASE s \in built
    BY <1>2, <2>1 DEF HalfInv, HandshakeAgreement
  <2>2. CASE s = s0
    BY <1>2, <1>3, <1>5, <1>6, <1>7, <2>2
  <2> QED
    BY <1>2, <2>1, <2>2
<1> QED
  BY <1>9, <1>10, <1>11, <1>12, <1>13 DEF HalfInv

\* A restart forgets its half, and the other end keeps what it has.
LEMMA HalfRestart ==
    ASSUME TypeOK, HalfInv, NEW n \in Nodes, Restart(n)
    PROVE  HalfInv'
<1>1. /\ inc' = [inc EXCEPT ![n] = @ + 1] /\ UNCHANGED <<built, inits, resps>>
      /\ pending' = [pending EXCEPT ![n] = {}] /\ completing' = [completing EXCEPT ![n] = {}]
      /\ announcing' = [announcing EXCEPT ![n] = {}]
  BY DEF Restart, heap, net
<1>2. \A k \in Nodes :
          /\ k = n => pending'[k] = {} /\ completing'[k] = {}
          /\ k # n => /\ pending'[k] = pending[k] /\ completing'[k] = completing[k]
                      /\ inc'[k] = inc[k] /\ announcing'[k] = announcing[k]
  BY <1>1 DEF TypeOK
<1>3. ASSUME NEW k \in Nodes, k # n, NEW i PROVE Token(k, i)' = Token(k, i)
  BY <1>2, <1>3 DEF Token
<1>4. PendingSent'
  BY <1>1, <1>2, <1>3 DEF HalfInv, PendingSent
<1>5. CompletingSound'
  BY <1>1, <1>2, <1>3 DEF HalfInv, CompletingSound
<1>6. ResponsesSound' /\ Roles' /\ HandshakeAgreement'
  BY <1>1 DEF HalfInv, ResponsesSound, Roles, HandshakeAgreement
<1> QED
  BY <1>4, <1>5, <1>6 DEF HalfInv

\* Every step keeps it.
LEMMA HalfStep == TypeOK /\ IdInv /\ Unsent /\ HalfInv /\ [Next]_vars => HalfInv'
<1> SUFFICES ASSUME TypeOK, IdInv, Unsent, HalfInv, [Next]_vars PROVE HalfInv'
  OBVIOUS
<1>1. ASSUME UNCHANGED <<inc, built, inits, resps, pending, completing, announcing>> PROVE HalfInv'
  BY <1>1, HalfShrink
<1>2. ASSUME NEW n \in Nodes, NEW p \in Nodes,
             \/ LearnPeer(n, p) \/ SendDials(n, p) \/ UpgradeDials(n, p)
             \/ InitiateCheck(n, p) \/ SendData(n, p)
      PROVE  HalfInv'
  BY <1>1, <1>2 DEF LearnPeer, SendDials, UpgradeDials, InitiateCheck, SendData,
                    tables, workers, heap, net
<1>3. ASSUME NEW n \in Nodes, RekeyCollect(n) \/ \E s \in built : RekeyPeer(n, s)
      PROVE  HalfInv'
  BY <1>1, <1>3 DEF RekeyCollect, RekeyPeer, tables, heap, net
<1>4. ASSUME NEW n \in Nodes, NEW h \in pending[n], HandshakeTimeout(n, h) PROVE HalfInv'
  <2>1. /\ UNCHANGED <<inc, built, inits, resps, completing, announcing>>
        /\ pending' = [pending EXCEPT ![n] = @ \ {h}]
    BY <1>4 DEF HandshakeTimeout, workers, heap, net
  <2>2. \A k \in Nodes : pending'[k] \subseteq pending[k]
    BY <2>1 DEF TypeOK
  <2> QED
    BY <2>1, <2>2, HalfShrink
<1>5. ASSUME NEW m \in datas, NEW addr \in Paths, HandleData(m, addr) PROVE HalfInv'
  BY <1>1, <1>5 DEF HandleData, tables, workers, net
<1>6. ASSUME NEW s \in built, Age(s) PROVE HalfInv'
  BY <1>1, <1>6 DEF Age, tables, workers, heap, net
<1>7. CASE UNCHANGED vars
  BY <1>1, <1>7 DEF vars, tables, workers, heap, net
<1> QED
  BY <1>2, <1>3, <1>4, <1>5, <1>6, <1>7, HalfInsert, HalfSend, HalfHandleInit, HalfTake,
     HalfBuild, HalfRestart DEF Next

\* Initially there are no halves.
LEMMA HalfInit == Init => HalfInv
<1> SUFFICES ASSUME Init PROVE HalfInv
  OBVIOUS
<1>1. /\ built = {} /\ resps = {}
      /\ \A n \in Nodes : pending[n] = {} /\ completing[n] = {}
  BY DEF Init
<1> QED
  BY <1>1 DEF HalfInv, PendingSent, ResponsesSound, CompletingSound, Roles, HandshakeAgreement

\* Types, identities and halves hold always.
LEMMA HalvesAlways == Spec => [](TypeOK /\ IdInv /\ Unsent /\ HalfInv)
BY IdsAlways, HalfInit, HalfStep, PTL DEF Spec

\* When an initiator has a session, the node it dialled has built the other half,
\* with the same keys and with each end under the ID that the other sends to.
THEOREM AgreementCorrect == Spec => []HandshakeAgreement
<1>1. HalfInv => HandshakeAgreement
  BY DEF HalfInv
<1> QED
  BY <1>1, HalvesAlways, PTL

-----------------------------------------------------------------------------
(* sessions and byID. *)

\* Node k can receive from p under ID j.
Receivable(k, p, j) == \E s \in SessionAt(k, j) : s.peer = p

\* A session filed under the ID the node sends with in the next state.
LEMMA ReceivableNext ==
    ASSUME NEW k, NEW p, NEW j, j = sessions'[k][p],
           NEW s, s \in built', s.peer = p, j \in byID'[k],
           s.self = [node |-> k, inc |-> inc'[k], id |-> j]
    PROVE  Receivable(k, p, sessions[k][p])'
BY DEF Receivable, SessionAt, Token

\* buildSession files the session under both maps.
LEMMA ReceivableBuild ==
    ASSUME TypeOK, SendSessionReceivable, NEW n \in Nodes, NEW s0 \in SessionRecords, NEW i,
           s0.self = Token(n, i), NEW addr, BuildSession(n, s0, addr), inc' = inc
    PROVE  SendSessionReceivable'
<1>1. s0.self.id = i /\ s0.peer \in Nodes
  BY TokenFields DEF SessionRecords
<1>2. /\ built' = built \cup {s0} /\ byID' = [byID EXCEPT ![n] = @ \cup {i}]
      /\ sessions' = [sessions EXCEPT ![n][s0.peer] = i]
  BY <1>1 DEF BuildSession
<1>3. /\ i \in byID'[n] /\ \A k \in Nodes : byID[k] \subseteq byID'[k]
      /\ \A k, p \in Nodes : sessions'[k][p] = sessions[k][p]
                                \/ (k = n /\ p = s0.peer /\ sessions'[k][p] = i)
  BY <1>1, <1>2 DEF TypeOK
<1>4. ASSUME NEW k \in Nodes, NEW p \in Nodes, sessions'[k][p] # 0
      PROVE  Receivable(k, p, sessions[k][p])'
  <2>1. PICK j : j = sessions'[k][p]
    OBVIOUS
  <2>2. CASE j = sessions[k][p]
    <3>1. PICK s \in SessionAt(k, j) : s.peer = p
      BY <1>4, <2>1, <2>2 DEF SendSessionReceivable
    <3>2. s \in built' /\ s.self = [node |-> k, inc |-> inc'[k], id |-> j] /\ j \in byID'[k]
      BY <1>2, <1>3, <3>1 DEF SessionAt, Token
    <3> QED
      BY <2>1, <3>1, <3>2, ReceivableNext
  <2>3. CASE k = n /\ p = s0.peer /\ j = i
    <3>1. s0 \in built' /\ s0.self = [node |-> k, inc |-> inc'[k], id |-> j] /\ j \in byID'[k]
      BY <1>2, <1>3, <2>3 DEF Token
    <3> QED
      BY <2>1, <2>3, <3>1, ReceivableNext
  <2> QED
    BY <1>3, <2>1, <2>2, <2>3
<1> QED
  BY <1>4 DEF SendSessionReceivable, Receivable

\* RekeyPeer takes the session out of both maps, and no other session.
LEMMA ReceivableRekey ==
    ASSUME TypeOK, IdInv, SendSessionReceivable, NEW n \in Nodes, NEW s0 \in built,
           RekeyPeer(n, s0)
    PROVE  SendSessionReceivable'
<1>1. PICK q, i : q = s0.peer /\ i = sessions[n][q]
  OBVIOUS
<1>2. /\ byID' = [byID EXCEPT ![n] = @ \ {i}] /\ sessions' = [sessions EXCEPT ![n][q] = 0]
      /\ UNCHANGED <<inc, built>> /\ q \in Nodes
  BY <1>1 DEF RekeyPeer, DropSession, heap, TypeOK, SessionRecords
<1>3. \A k, p \in Nodes : sessions'[k][p] # 0 => sessions'[k][p] = sessions[k][p] /\ ~ (k = n /\ p = q)
  BY <1>2 DEF TypeOK
<1>4. ASSUME NEW k \in Nodes, NEW p \in Nodes, sessions'[k][p] # 0
      PROVE  Receivable(k, p, sessions[k][p])'
  <2>1. PICK j : j = sessions'[k][p] /\ j = sessions[k][p] /\ j # 0
    BY <1>3, <1>4
  <2>2. PICK s \in SessionAt(k, j) : s.peer = p
    BY <2>1 DEF SendSessionReceivable
  <2>3. s \in built /\ s.self = Token(k, j) /\ j \in byID[k]
    BY <2>2 DEF SessionAt
  <2>4. j \in byID'[k]
    <3>1. CASE k # n
      BY <1>2, <2>3, <3>1
    <3>2. CASE k = n /\ j # i
      BY <1>2, <2>3, <3>2 DEF TypeOK
    <3>3. CASE k = n /\ j = i
      <4>1. PICK t \in SessionAt(n, i) : t.peer = q
        BY <1>1, <1>2, <2>1, <3>3 DEF SendSessionReceivable
      <4>2. t = s
        BY <2>3, <3>3, <4>1 DEF SessionAt, IdInv, OneSession
      <4> QED
        BY <1>3, <1>4, <2>2, <3>3, <4>1, <4>2
    <3> QED
      BY <3>1, <3>2, <3>3
  <2>5. s \in built' /\ s.self = [node |-> k, inc |-> inc'[k], id |-> j]
    BY <1>2, <2>3 DEF Token
  <2> QED
    BY <2>1, <2>2, <2>4, <2>5, ReceivableNext
<1> QED
  BY <1>4 DEF SendSessionReceivable, Receivable

\* A restart empties both maps of the node.
LEMMA ReceivableRestart ==
    ASSUME TypeOK, SendSessionReceivable, NEW n \in Nodes, Restart(n)
    PROVE  SendSessionReceivable'
<1>1. /\ inc' = [inc EXCEPT ![n] = @ + 1] /\ UNCHANGED built
      /\ sessions' = [sessions EXCEPT ![n] = [p \in Nodes |-> 0]]
      /\ byID' = [byID EXCEPT ![n] = {}]
  BY DEF Restart, heap
<1>2. \A k \in Nodes :
          /\ k = n => \A p \in Nodes : sessions'[k][p] = 0
          /\ k # n => sessions'[k] = sessions[k] /\ byID'[k] = byID[k] /\ inc'[k] = inc[k]
  BY <1>1 DEF TypeOK
<1>3. ASSUME NEW k \in Nodes, NEW p \in Nodes, sessions'[k][p] # 0
      PROVE  Receivable(k, p, sessions[k][p])'
  <2>1. k # n
    BY <1>2, <1>3
  <2>2. PICK j : j = sessions'[k][p] /\ j = sessions[k][p] /\ j # 0
    BY <1>2, <1>3, <2>1
  <2>3. PICK s \in SessionAt(k, j) : s.peer = p
    BY <2>2 DEF SendSessionReceivable
  <2>4. s \in built' /\ s.self = [node |-> k, inc |-> inc'[k], id |-> j] /\ j \in byID'[k]
    BY <1>1, <1>2, <2>1, <2>3 DEF SessionAt, Token
  <2> QED
    BY <2>2, <2>3, <2>4, ReceivableNext
<1> QED
  BY <1>3 DEF SendSessionReceivable, Receivable

\* Every step keeps it.
LEMMA ReceivableStep ==
    TypeOK /\ IdInv /\ SendSessionReceivable /\ [Next]_vars => SendSessionReceivable'
<1> SUFFICES ASSUME TypeOK, IdInv, SendSessionReceivable, [Next]_vars
             PROVE  SendSessionReceivable'
  OBVIOUS
<1>1. ASSUME UNCHANGED <<inc, built, sessions, byID>> PROVE SendSessionReceivable'
  BY <1>1 DEF SendSessionReceivable, SessionAt, Token
<1>2. ASSUME NEW n \in Nodes, NEW p \in Nodes,
             \/ LearnPeer(n, p) \/ SendDials(n, p) \/ UpgradeDials(n, p)
             \/ InitiateCheck(n, p) \/ InitiateInsert(n, p) \/ SendData(n, p)
      PROVE  SendSessionReceivable'
  BY <1>1, <1>2 DEF LearnPeer, SendDials, UpgradeDials, InitiateCheck, InitiateInsert, SendData,
                    tables, heap
<1>3. ASSUME NEW n \in Nodes,
             \/ \E h \in announcing[n] : InitiateSend(n, h)
             \/ \E h \in pending[n] : HandshakeTimeout(n, h)
             \/ \E m \in resps : RespTake(n, m)
             \/ RekeyCollect(n)
      PROVE  SendSessionReceivable'
  BY <1>1, <1>3 DEF InitiateSend, HandshakeTimeout, RespTake, RekeyCollect, tables, heap
<1>4. ASSUME NEW n \in Nodes, NEW addr, NEW m \in inits, HandleInit(n, m, addr)
      PROVE  SendSessionReceivable'
  <2>1. PICK i, t, s : i = NextId(n) /\ t = Token(n, i) /\ s = ResponderSession(t, m.hs)
    OBVIOUS
  <2>2. s.self = Token(n, i)
    BY <2>1 DEF ResponderSession
  <2>3. s \in SessionRecords
    <3>1. i \in 1 .. MaxIds
      BY <1>4, <2>1, NextIdType DEF HandleInit
    <3>2. t \in Tokens /\ m.hs \in Tokens
      BY <2>1, <3>1, TokenType DEF TypeOK
    <3> QED
      BY <1>4, <2>1, <3>2, SessionTypes
  <2>4. BuildSession(n, s, addr) /\ inc' = inc
    BY <1>4, <2>1 DEF HandleInit
  <2> QED
    BY <2>2, <2>3, <2>4, ReceivableBuild
<1>5. ASSUME NEW n \in Nodes, NEW addr, NEW c \in completing[n], RespBuild(n, c, addr)
      PROVE  SendSessionReceivable'
  <2>1. PICK t, s : t = Token(n, c.id) /\ s = InitiatorSession(t, c.peer, c.eph)
    OBVIOUS
  <2>2. s.self = Token(n, c.id)
    BY <2>1 DEF InitiatorSession
  <2>3. s \in SessionRecords
    <3>1. c.id \in 1 .. MaxIds /\ c.peer \in Nodes /\ c.eph \in Tokens
      BY DEF TypeOK
    <3>2. t \in Tokens
      BY <2>1, <3>1, TokenType
    <3> QED
      BY <2>1, <3>1, <3>2, SessionTypes
  <2>4. BuildSession(n, s, addr) /\ inc' = inc
    BY <1>5, <2>1 DEF RespBuild
  <2> QED
    BY <2>2, <2>3, <2>4, ReceivableBuild
<1>6. ASSUME NEW m \in datas, NEW addr \in Paths, HandleData(m, addr)
      PROVE  SendSessionReceivable'
  BY <1>1, <1>6 DEF HandleData, tables
<1>7. ASSUME NEW s \in built, Age(s) PROVE SendSessionReceivable'
  BY <1>1, <1>7 DEF Age, tables, heap
<1>8. CASE UNCHANGED vars
  BY <1>1, <1>8 DEF vars, tables, heap
<1> QED
  BY <1>2, <1>3, <1>4, <1>5, <1>6, <1>7, <1>8, ReceivableRekey, ReceivableRestart DEF Next

\* The session that a node sends with to a peer is one that it can receive on.
THEOREM ReceivableCorrect == Spec => []SendSessionReceivable
<1>1. Init => SendSessionReceivable
  BY DEF Init, SendSessionReceivable
<1> QED
  BY <1>1, IdsAlways, ReceivableStep, PTL DEF Spec

-----------------------------------------------------------------------------
(* Data packets. *)

\* A manager knows other nodes only.
KnownOthers == \A n \in Nodes : n \notin known[n]

\* A packet is between two nodes, under the keys of a session of its sender.
Sealed ==
    \A m \in datas : /\ m.from # m.to
                     /\ \E t \in built : t.self.node = m.from /\ t.key = m.key

DataInv == KnownOthers /\ Sealed

\* A packet is sent to a known peer, with a session of the sender.
LEMMA DataSend ==
    ASSUME DataInv, NEW n \in Nodes, NEW p \in Nodes, SendData(n, p)
    PROVE  DataInv'
<1>1. PICK s \in Current(n, p) :
          datas' = datas \cup {[from |-> n, to |-> p, receiver |-> s.remoteId, key |-> s.key]}
  BY DEF SendData
<1>2. PICK m0 : m0 = [from |-> n, to |-> p, receiver |-> s.remoteId, key |-> s.key]
  OBVIOUS
<1>3. m0.from = n /\ m0.to = p /\ m0.key = s.key /\ datas' = datas \cup {m0}
  BY <1>1, <1>2
<1>4. s \in built /\ s.self.node = n
  BY TokenFields DEF Current
<1>5. p \in known[n] /\ UNCHANGED <<known, built>>
  BY DEF SendData, heap
<1>6. p # n
  BY <1>5 DEF DataInv, KnownOthers
<1> QED
  BY <1>3, <1>4, <1>5, <1>6 DEF DataInv, KnownOthers, Sealed

\* Every step keeps it.
LEMMA DataStep == TypeOK /\ DataInv /\ [Next]_vars => DataInv'
<1> SUFFICES ASSUME TypeOK, DataInv, [Next]_vars PROVE DataInv'
  OBVIOUS
<1>1. ASSUME UNCHANGED <<known, datas>>, built \subseteq built' PROVE DataInv'
  BY <1>1 DEF DataInv, KnownOthers, Sealed
<1>2. ASSUME NEW n \in Nodes, NEW p \in Nodes, LearnPeer(n, p) PROVE DataInv'
  <2>1. p # n /\ known' = [known EXCEPT ![n] = @ \cup {p}] /\ UNCHANGED <<built, datas>>
    BY <1>2 DEF LearnPeer, heap, net
  <2>2. \A k \in Nodes : \A q \in known'[k] : q \in known[k] \/ (k = n /\ q = p)
    BY <2>1 DEF TypeOK
  <2> QED
    BY <2>1, <2>2 DEF DataInv, KnownOthers, Sealed
<1>3. ASSUME NEW n \in Nodes, Restart(n) PROVE DataInv'
  <2>1. known' = [known EXCEPT ![n] = {}] /\ UNCHANGED <<built, datas>>
    BY <1>3 DEF Restart, heap, net
  <2>2. \A k \in Nodes : known'[k] \subseteq known[k]
    BY <2>1 DEF TypeOK
  <2> QED
    BY <2>1, <2>2 DEF DataInv, KnownOthers, Sealed
<1>4. ASSUME NEW n \in Nodes, NEW p \in Nodes,
             \/ SendDials(n, p) \/ UpgradeDials(n, p) \/ InitiateCheck(n, p)
             \/ InitiateInsert(n, p)
      PROVE  DataInv'
  BY <1>1, <1>4 DEF SendDials, UpgradeDials, InitiateCheck, InitiateInsert, heap, net
<1>5. ASSUME NEW n \in Nodes, NEW addr,
             \/ \E m \in inits : HandleInit(n, m, addr)
             \/ \E c \in completing[n] : RespBuild(n, c, addr)
      PROVE  DataInv'
  BY <1>1, <1>5 DEF HandleInit, RespBuild, BuildSession, net
<1>6. ASSUME NEW n \in Nodes,
             \/ \E h \in announcing[n] : InitiateSend(n, h)
             \/ \E h \in pending[n] : HandshakeTimeout(n, h)
             \/ \E m \in resps : RespTake(n, m)
             \/ RekeyCollect(n)
             \/ \E s \in built : RekeyPeer(n, s)
      PROVE  DataInv'
  BY <1>1, <1>6 DEF InitiateSend, HandshakeTimeout, RespTake, RekeyCollect, RekeyPeer, heap, net
<1>7. ASSUME NEW m \in datas, NEW addr \in Paths, HandleData(m, addr) PROVE DataInv'
  BY <1>1, <1>7 DEF HandleData, net
<1>8. ASSUME NEW s \in built, Age(s) PROVE DataInv'
  BY <1>1, <1>8 DEF Age, heap, net
<1>9. CASE UNCHANGED vars
  BY <1>1, <1>9 DEF vars, heap, net
<1> QED
  BY <1>2, <1>3, <1>4, <1>5, <1>6, <1>7, <1>8, <1>9, DataSend DEF Next

\* The session that opens a packet and the one that sealed it are different ends.
LEMMA OtherEnd == HalfInv /\ DataInv => OpensOnlyAtOtherEnd
<1> SUFFICES ASSUME HalfInv, DataInv, NEW m \in datas, NEW s \in OpensUnder(m)
             PROVE  /\ s.peer = m.from
                    /\ \E t \in built : /\ t.self.node = m.from /\ t.key = m.key
                                        /\ {s.self, t.self} = {m.key.init, m.key.resp}
  BY DEF OpensOnlyAtOtherEnd
<1>1. s \in built /\ s.self.node = m.to /\ s.key = m.key
  BY TokenFields DEF OpensUnder, SessionAt
<1>2. PICK t \in built : t.self.node = m.from /\ t.key = m.key
  BY DEF DataInv, Sealed
<1>3. s.self # t.self
  BY <1>1, <1>2 DEF DataInv, Sealed
<1>4. /\ m.key.init # m.key.resp
      /\ t.self = m.key.init \/ t.self = m.key.resp
      /\ s.self = m.key.init \/ (s.self = m.key.resp /\ s.peer = m.key.init.node)
  BY <1>1, <1>2 DEF HalfInv, Roles
<1>5. {s.self, t.self} = {m.key.init, m.key.resp}
  BY <1>3, <1>4
<1>6. s.peer = m.from
  <2>1. CASE s.self = m.key.resp
    BY <1>2, <1>3, <1>4, <2>1
  <2>2. CASE s.self = m.key.init
    <3>1. m.key.resp.node = s.peer
      BY <1>1, <2>2 DEF HalfInv, HandshakeAgreement
    <3> QED
      BY <1>2, <1>3, <1>4, <2>2, <3>1
  <2> QED
    BY <1>4, <2>1, <2>2
<1> QED
  BY <1>2, <1>5, <1>6

\* A packet opens at the other end of the session that sealed it, and nowhere
\* else, also when a restarted node has given the old ID to a new session.
THEOREM OpensCorrect == Spec => []OpensOnlyAtOtherEnd
<1>1. Init => DataInv
  BY DEF Init, DataInv, KnownOthers, Sealed
<1>2. Spec => [](HalfInv /\ DataInv)
  BY <1>1, HalvesAlways, DataStep, PTL DEF Spec
<1> QED
  BY <1>2, OtherEnd, PTL

-----------------------------------------------------------------------------
(* The channels the engines keep: Handshake implements Channels. *)

\* No node knows, dials, offers a handshake to, or has a session with, itself.
NotSelf ==
    /\ \A n \in Nodes : n \notin known[n] /\ n \notin dialing[n] /\ starting[n][n] = 0
    /\ \A n \in Nodes : \A h \in announcing[n] : h.peer # n
    /\ \A m \in inits : m.to # m.hs.node
    /\ \A s \in built : s.peer # s.self.node

\* The rekey loop of a node has collected sessions of that node.
OwnRekeys == \A n \in Nodes : \A t \in toRekey[n] : t.node = n

\* The session that a node sends to a peer with is its own, with that peer.
LEMMA CurrentPeer ==
    ASSUME TypeOK, IdInv, SendSessionReceivable, NEW n \in Nodes, NEW p \in Nodes,
           NEW s \in Current(n, p)
    PROVE  s \in built /\ s.self.node = n /\ s.peer = p
<1>1. s \in built /\ s.self = Token(n, sessions[n][p])
  BY DEF Current
<1>2. s.self \in Tokens /\ s.self.node = n /\ s.self.id = sessions[n][p]
  BY <1>1, TokenFields DEF TypeOK, SessionRecords
<1>3. sessions[n][p] # 0
  BY <1>2 DEF Tokens
<1>4. PICK t \in SessionAt(n, sessions[n][p]) : t.peer = p
  BY <1>3 DEF SendSessionReceivable
<1>5. t = s
  BY <1>1, <1>4 DEF SessionAt, IdInv, OneSession
<1> QED
  BY <1>1, <1>2, <1>4, <1>5

\* A step that learns, dials, offers and builds nothing.
LEMMA NotSelfShrink ==
    ASSUME NotSelf, UNCHANGED <<inits, built>>,
           \A n \in Nodes : /\ known'[n] \subseteq known[n] /\ dialing'[n] \subseteq dialing[n]
                            /\ starting'[n][n] = 0 /\ announcing'[n] \subseteq announcing[n]
    PROVE  NotSelf'
BY DEF NotSelf

\* A step that learns or dials another node.
LEMMA NotSelfDial ==
    ASSUME TypeOK, NotSelf, UNCHANGED <<inits, built, starting, announcing>>,
           NEW n \in Nodes, NEW p \in Nodes, p # n,
           known' = known \/ known' = [known EXCEPT ![n] = @ \cup {p}],
           dialing' = [dialing EXCEPT ![n] = @ \cup {p}]
    PROVE  NotSelf'
<1>1. \A k \in Nodes : k \notin known'[k] /\ k \notin dialing'[k]
  BY DEF TypeOK, NotSelf
<1> QED
  BY <1>1 DEF NotSelf

\* What is started with another node leaves the rest.
LEMMA StartingOther ==
    ASSUME TypeOK, NEW n \in Nodes, NEW p \in Nodes, p # n, NEW i,
           starting' = [starting EXCEPT ![n][p] = i]
    PROVE  \A k \in Nodes : starting'[k][k] = starting[k][k]
<1> SUFFICES ASSUME NEW k \in Nodes PROVE starting'[k][k] = starting[k][k]
  OBVIOUS
<1>1. CASE k # n
  BY <1>1 DEF TypeOK
<1>2. CASE k = n
  <2>1. starting'[n] = [starting[n] EXCEPT ![p] = i]
    BY DEF TypeOK
  <2>2. starting[n] \in [Nodes -> 0 .. MaxStarting]
    BY DEF TypeOK
  <2> QED
    BY <1>2, <2>1, <2>2
<1> QED
  BY <1>1, <1>2

\* Dialing.
LEMMA NotSelfDialing ==
    ASSUME TypeOK, SendSessionReceivable, IdInv, NotSelf, NEW n \in Nodes, NEW p \in Nodes,
           \/ LearnPeer(n, p) \/ SendDials(n, p) \/ UpgradeDials(n, p)
           \/ InitiateCheck(n, p) \/ InitiateInsert(n, p)
    PROVE  NotSelf'
<1>1. CASE LearnPeer(n, p)
  BY <1>1, NotSelfDial DEF LearnPeer, heap, net
<1>2. CASE SendDials(n, p)
  <2>1. p # n
    BY <1>2 DEF SendDials, NotSelf
  <2> QED
    BY <1>2, <2>1, NotSelfDial DEF SendDials, heap, net
<1>3. CASE UpgradeDials(n, p)
  <2>1. PICK s \in Current(n, p) : TRUE
    BY <1>3 DEF UpgradeDials
  <2>2. s.peer = p /\ s \in built /\ s.self.node = n
    BY <2>1, CurrentPeer
  <2>3. p # n
    BY <2>2 DEF NotSelf
  <2> QED
    BY <1>3, <2>3, NotSelfDial DEF UpgradeDials, heap, net
<1>4. CASE InitiateCheck(n, p)
  <2>1. p \in dialing[n] /\ p # n
    BY <1>4 DEF InitiateCheck, NotSelf
  <2>2. \A k \in Nodes : dialing'[k] \subseteq dialing[k]
    BY <1>4 DEF InitiateCheck, TypeOK
  <2>3. starting' = starting \/ starting' = [starting EXCEPT ![n][p] = @ + 1]
    BY <1>4 DEF InitiateCheck
  <2>4. \A k \in Nodes : starting'[k][k] = starting[k][k]
    BY <2>1, <2>3, StartingOther
  <2>5. UNCHANGED <<inits, built, known, announcing>>
    BY <1>4 DEF InitiateCheck, heap, net
  <2> QED
    BY <2>2, <2>4, <2>5, NotSelfShrink DEF NotSelf
<1>5. CASE InitiateInsert(n, p)
  <2>1. starting[n][p] > 0 /\ UNCHANGED <<known, dialing, built, inits>>
    BY <1>5 DEF InitiateInsert, heap, net
  <2>2. p # n
    BY <2>1 DEF NotSelf
  <2>3. starting' = [starting EXCEPT ![n][p] = @ - 1]
    BY <1>5 DEF InitiateInsert
  <2>4. \A k \in Nodes : starting'[k][k] = starting[k][k]
    BY <2>2, <2>3, StartingOther
  <2>5. PICK h0 : h0 = [id |-> NextId(n), peer |-> p]
    OBVIOUS
  <2>6. h0.peer = p /\ \A k \in Nodes : \A h \in announcing'[k] :
                            h \in announcing[k] \/ (k = n /\ h = h0)
    BY <1>5, <2>5 DEF InitiateInsert, TypeOK
  <2> QED
    BY <2>1, <2>2, <2>4, <2>6 DEF NotSelf
<1> QED
  BY <1>1, <1>2, <1>3, <1>4, <1>5

\* A session is built with the other end of a handshake.
LEMMA NotSelfBuild ==
    ASSUME TypeOK, IdInv, HalfInv, NotSelf, NEW n \in Nodes, NEW addr,
           \/ \E m \in inits : HandleInit(n, m, addr)
           \/ \E c \in completing[n] : RespBuild(n, c, addr)
    PROVE  NotSelf'
<1>1. ASSUME NEW s, built' = built \cup {s}, s.self.node = n, s.peer # n,
             UNCHANGED <<known, dialing, starting, announcing, inits>>
      PROVE  NotSelf'
  BY <1>1 DEF NotSelf
<1>2. ASSUME NEW m \in inits, HandleInit(n, m, addr) PROVE NotSelf'
  <2>1. PICK s : s = ResponderSession(Token(n, NextId(n)), m.hs)
    OBVIOUS
  <2>2. s.self.node = n /\ s.peer = m.hs.node
    BY <2>1, TokenFields DEF ResponderSession
  <2>3. m.to = n /\ built' = built \cup {s} /\ UNCHANGED <<known, dialing, starting, announcing, inits>>
    BY <1>2, <2>1 DEF HandleInit, BuildSession, workers
  <2>4. s.peer # n
    BY <2>2, <2>3 DEF NotSelf
  <2> QED
    BY <1>1, <2>2, <2>3, <2>4
<1>3. ASSUME NEW c \in completing[n], RespBuild(n, c, addr) PROVE NotSelf'
  <2>1. PICK s : s = InitiatorSession(Token(n, c.id), c.peer, c.eph)
    OBVIOUS
  <2>2. s.self.node = n /\ s.peer = c.peer
    BY <2>1, TokenFields DEF InitiatorSession
  <2>3. built' = built \cup {s} /\ UNCHANGED <<known, dialing, starting, announcing, inits>>
    BY <1>3, <2>1 DEF RespBuild, BuildSession, net
  <2>4. PICK r \in resps : r.hs = Token(n, c.id) /\ r.eph = c.eph /\ c.eph.node = c.peer
    BY DEF HalfInv, CompletingSound
  <2>5. PICK m \in inits : m.hs = r.hs /\ m.to = r.eph.node
    BY DEF HalfInv, ResponsesSound
  <2>6. m.hs.node = n
    BY <2>4, <2>5, TokenFields
  <2>7. s.peer # n
    BY <2>2, <2>4, <2>5, <2>6 DEF NotSelf
  <2> QED
    BY <1>1, <2>2, <2>3, <2>7
<1> QED
  BY <1>2, <1>3

\* The rekey loop drops a session of its node and dials the peer; a restart
\* forgets.
LEMMA NotSelfOthers ==
    ASSUME TypeOK, NotSelf, OwnRekeys, NEW n \in Nodes,
           Restart(n) \/ \E s \in built : RekeyPeer(n, s)
    PROVE  NotSelf'
<1>1. CASE Restart(n)
  <2>1. /\ known' = [known EXCEPT ![n] = {}] /\ dialing' = [dialing EXCEPT ![n] = {}]
        /\ starting' = [starting EXCEPT ![n] = [p \in Nodes |-> 0]]
        /\ announcing' = [announcing EXCEPT ![n] = {}] /\ UNCHANGED <<inits, built>>
    BY <1>1 DEF Restart, heap, net
  <2>2. \A k \in Nodes : /\ known'[k] \subseteq known[k] /\ dialing'[k] \subseteq dialing[k]
                         /\ starting'[k][k] = 0 /\ announcing'[k] \subseteq announcing[k]
    BY <2>1 DEF TypeOK, NotSelf
  <2> QED
    BY <2>1, <2>2, NotSelfShrink
<1>2. CASE \E s \in built : RekeyPeer(n, s)
  <2>1. PICK s \in built : RekeyPeer(n, s)
    BY <1>2
  <2>2. s.self.node = n
    BY <2>1 DEF RekeyPeer, OwnRekeys
  <2>3. s.peer \in Nodes /\ s.peer # n
    BY <2>2 DEF TypeOK, SessionRecords, NotSelf
  <2>4. dialing' = [dialing EXCEPT ![n] = @ \cup {s.peer}] /\ UNCHANGED <<inits, built, starting, announcing, known>>
    BY <2>1 DEF RekeyPeer, heap, net
  <2> QED
    BY <2>3, <2>4, NotSelfDial
<1> QED
  BY <1>1, <1>2

\* What the rekey loop collects.
LEMMA OwnRekeysStep ==
    TypeOK /\ IdInv /\ SendSessionReceivable /\ OwnRekeys /\ [Next]_vars => OwnRekeys'
<1> SUFFICES ASSUME TypeOK, IdInv, SendSessionReceivable, OwnRekeys, [Next]_vars
             PROVE  OwnRekeys'
  OBVIOUS
<1>1. ASSUME toRekey' = toRekey PROVE OwnRekeys'
  BY <1>1 DEF OwnRekeys
<1>2. ASSUME NEW n \in Nodes, NEW p \in Nodes,
             \/ LearnPeer(n, p) \/ SendDials(n, p) \/ UpgradeDials(n, p)
             \/ InitiateCheck(n, p) \/ InitiateInsert(n, p) \/ SendData(n, p)
      PROVE  OwnRekeys'
  BY <1>1, <1>2 DEF LearnPeer, SendDials, UpgradeDials, InitiateCheck, InitiateInsert, SendData,
                    workers
<1>3. ASSUME NEW n \in Nodes, NEW addr,
             \/ \E m \in inits : HandleInit(n, m, addr)
             \/ \E c \in completing[n] : RespBuild(n, c, addr)
             \/ \E h \in pending[n] : HandshakeTimeout(n, h)
             \/ \E h \in announcing[n] : InitiateSend(n, h)
             \/ \E m \in resps : RespTake(n, m)
      PROVE  OwnRekeys'
  BY <1>1, <1>3 DEF HandleInit, RespBuild, HandshakeTimeout, InitiateSend, RespTake, workers
<1>4. ASSUME NEW n \in Nodes, RekeyCollect(n) PROVE OwnRekeys'
  <2>1. \A t \in toRekey'[n] : t.node = n
    <3> SUFFICES ASSUME NEW t \in toRekey'[n] PROVE t.node = n
      OBVIOUS
    <3>1. toRekey'[n] = {s.self : s \in {c \in UNION {Current(n, p) : p \in Nodes} :
                                             c.self \in due \ orphan}}
      BY <1>4 DEF RekeyCollect, TypeOK
    <3>2. PICK s \in UNION {Current(n, p) : p \in Nodes} : t = s.self
      BY <3>1
    <3>3. PICK p \in Nodes : s \in Current(n, p)
      BY <3>2
    <3> QED
      BY <3>2, <3>3, CurrentPeer
  <2>2. \A k \in Nodes : k # n => toRekey'[k] = toRekey[k]
    BY <1>4 DEF RekeyCollect, TypeOK
  <2> QED
    BY <2>1, <2>2 DEF OwnRekeys
<1>5. ASSUME NEW n \in Nodes, Restart(n) \/ \E s \in built : RekeyPeer(n, s) PROVE OwnRekeys'
  <2>1. \A k \in Nodes : toRekey'[k] \subseteq toRekey[k]
    <3>1. CASE Restart(n)
      BY <3>1 DEF Restart, TypeOK
    <3>2. CASE \E s \in built : RekeyPeer(n, s)
      BY <3>2 DEF RekeyPeer, TypeOK
    <3> QED
      BY <1>5, <3>1, <3>2
  <2> QED
    BY <2>1 DEF OwnRekeys
<1>6. ASSUME NEW m \in datas, NEW addr \in Paths, HandleData(m, addr) PROVE OwnRekeys'
  BY <1>1, <1>6 DEF HandleData, workers
<1>7. ASSUME NEW s \in built, Age(s) PROVE OwnRekeys'
  BY <1>1, <1>7 DEF Age, workers
<1>8. CASE UNCHANGED vars
  BY <1>1, <1>8 DEF vars, workers
<1> QED
  BY <1>2, <1>3, <1>4, <1>5, <1>6, <1>7, <1>8 DEF Next

\* Every step keeps it.
LEMMA NotSelfStep ==
    TypeOK /\ IdInv /\ HalfInv /\ SendSessionReceivable /\ OwnRekeys /\ NotSelf /\ [Next]_vars
        => NotSelf'
<1> SUFFICES ASSUME TypeOK, IdInv, HalfInv, SendSessionReceivable, OwnRekeys, NotSelf,
                    [Next]_vars
             PROVE  NotSelf'
  OBVIOUS
<1>1. ASSUME UNCHANGED <<known, dialing, starting, announcing, inits, built>> PROVE NotSelf'
  BY <1>1 DEF NotSelf
<1>2. ASSUME NEW n \in Nodes, NEW p \in Nodes, SendData(n, p) PROVE NotSelf'
  BY <1>1, <1>2 DEF SendData, workers, heap
<1>3. ASSUME NEW n \in Nodes,
             \/ \E h \in pending[n] : HandshakeTimeout(n, h)
             \/ \E m \in resps : RespTake(n, m)
             \/ RekeyCollect(n)
      PROVE  NotSelf'
  BY <1>1, <1>3 DEF HandshakeTimeout, RespTake, RekeyCollect, workers, heap, net
<1>4. ASSUME NEW m \in datas, NEW addr \in Paths, HandleData(m, addr) PROVE NotSelf'
  BY <1>1, <1>4 DEF HandleData, workers, net
<1>5. ASSUME NEW s \in built, Age(s) PROVE NotSelf'
  BY <1>1, <1>5 DEF Age, workers, heap, net
<1>6. CASE UNCHANGED vars
  BY <1>1, <1>6 DEF vars, workers, heap, net
<1>7. ASSUME NEW n \in Nodes, NEW h \in announcing[n], InitiateSend(n, h) PROVE NotSelf'
  <2>1. PICK m0 : m0 = [hs |-> Token(n, h.id), to |-> h.peer]
    OBVIOUS
  <2>2. inits' = inits \cup {m0} /\ m0.hs.node = n /\ m0.to = h.peer /\ h.peer # n
    BY <1>7, <2>1, TokenFields DEF InitiateSend, NotSelf
  <2>3. UNCHANGED <<known, dialing, starting, built>>
    BY <1>7 DEF InitiateSend, heap
  <2>4. \A k \in Nodes : announcing'[k] \subseteq announcing[k]
    BY <1>7 DEF InitiateSend, TypeOK
  <2> QED
    BY <2>2, <2>3, <2>4 DEF NotSelf
<1> QED
  BY <1>2, <1>3, <1>4, <1>5, <1>6, <1>7, NotSelfDialing, NotSelfBuild, NotSelfOthers DEF Next

\* What implements Channels: the invariants of the identities, of the halves and
\* of the maps, and that nobody is a peer of its own.
ChannelInv ==
    /\ TypeOK /\ IdInv /\ Unsent /\ HalfInv
    /\ SendSessionReceivable /\ OwnRekeys /\ NotSelf

\* It holds always.
LEMMA ChannelInvAlways == Spec => []ChannelInv
<1>1. Init => SendSessionReceivable /\ OwnRekeys
  BY DEF Init, SendSessionReceivable, OwnRekeys
<1>2. Init => NotSelf
  <2> SUFFICES ASSUME Init PROVE NotSelf
    OBVIOUS
  <2>1. \A n \in Nodes : /\ known[n] = {} /\ dialing[n] = {} /\ starting[n][n] = 0
                         /\ announcing[n] = {}
    BY DEF Init
  <2> QED
    BY <2>1 DEF Init, NotSelf
<1> QED
  BY <1>1, <1>2, HalvesAlways, ReceivableStep, OwnRekeysStep, NotSelfStep, PTL
  DEF Spec, ChannelInv

\* The ends that Channels calls drawn have been issued.
LEMMA DrawnIssued ==
    ASSUME ChannelInv, NEW t \in Promise!Drawn
    PROVE  Issued(t)
<1>1. (\E m \in inits : t = m.hs) \/ (\E s \in built : s.self = s.key.resp /\ t = s.key.resp)
  BY DEF Promise!Drawn, Accepted
<1> QED
  BY <1>1 DEF ChannelInv, IdInv, AllIssued

\* initiateHandshake offers a channel when it sends the init.
LEMMA OfferStep ==
    ASSUME ChannelInv, NEW n \in Nodes, NEW h \in announcing[n], InitiateSend(n, h)
    PROVE  Promise!Next
<1>1. PICK t, p : t = Token(n, h.id) /\ p = h.peer
  OBVIOUS
<1>2. t.node = n /\ p \in Nodes
  BY <1>1, TokenFields DEF ChannelInv, TypeOK
<1>3. inits' = inits \cup {[hs |-> t, to |-> p]} /\ UNCHANGED <<built, datas>>
  BY <1>1 DEF InitiateSend, heap
<1>4. Accepted' = Accepted /\ Confirmed' = Confirmed
  BY <1>3 DEF Accepted, Confirmed
<1>5. p # n
  BY <1>1 DEF ChannelInv, NotSelf
<1>6. t \in Promise!Drawn' /\ t \notin Promise!Drawn
  <2>1. [hs |-> t, to |-> p] \in inits' /\ [hs |-> t, to |-> p].hs = t
    BY <1>3
  <2>2. t \in Promise!Drawn'
    BY <2>1 DEF Promise!Drawn
  <2>3. /\ \A m \in inits : m.hs # t
        /\ \A s \in built : s.self # t
    BY <1>1 DEF ChannelInv, Unsent
  <2> QED
    BY <2>2, <2>3 DEF Promise!Drawn, Accepted
<1>7. Promise!Offer(t, p)
  BY <1>2, <1>3, <1>4, <1>5 DEF Promise!Offer
<1> QED
  BY <1>2, <1>6, <1>7 DEF Promise!Next

\* The keys after a session is built.
LEMMA KeysBuilt ==
    ASSUME NEW s, built' = built \cup {s}
    PROVE  /\ Accepted' = IF s.self = s.key.resp THEN Accepted \cup {s.key} ELSE Accepted
           /\ Confirmed' = IF s.self = s.key.init THEN Confirmed \cup {s.key} ELSE Confirmed
BY DEF Accepted, Confirmed

\* handleHandshakeInit accepts one.
LEMMA AcceptStep ==
    ASSUME ChannelInv, NEW n \in Nodes, NEW m \in inits, NEW addr, HandleInit(n, m, addr)
    PROVE  Promise!Next
<1>1. PICK t, s : t = Token(n, NextId(n)) /\ s = ResponderSession(t, m.hs)
  OBVIOUS
<1>2. t.node = n /\ ~ Issued(t)
  BY <1>1, TokenFields, NextUnissued DEF ChannelInv
<1>3. /\ s.self = t /\ s.key = [init |-> m.hs, resp |-> t]
      /\ s.key.init = m.hs /\ s.key.resp = t
  BY <1>1 DEF ResponderSession
<1>4. t # m.hs
  BY <1>2 DEF ChannelInv, IdInv, AllIssued
<1>5. m.to = n /\ built' = built \cup {s} /\ UNCHANGED <<inits, datas>>
  BY <1>1 DEF HandleInit, BuildSession
<1>6. Accepted' = Accepted \cup {[init |-> m.hs, resp |-> t]} /\ Confirmed' = Confirmed
  BY <1>3, <1>4, <1>5, KeysBuilt
<1>7. t \in Promise!Drawn' /\ t \notin Promise!Drawn
  <2>1. s.key \in Accepted' /\ s.key.resp = t
    BY <1>3, <1>6
  <2>2. t \in Promise!Drawn'
    BY <2>1 DEF Promise!Drawn
  <2> QED
    BY <1>2, <2>2, DrawnIssued
<1>8. Promise!Accept(m, t)
  BY <1>2, <1>5, <1>6 DEF Promise!Accept
<1> QED
  BY <1>7, <1>8 DEF Promise!Next

\* handleHandshakeResp confirms one, which no session of its own was built for.
LEMMA ConfirmStep ==
    ASSUME ChannelInv, NEW n \in Nodes, NEW c \in completing[n], NEW addr, RespBuild(n, c, addr)
    PROVE  Promise!Next
<1>1. PICK t, s : t = Token(n, c.id) /\ s = InitiatorSession(t, c.peer, c.eph)
  OBVIOUS
<1>2. /\ s.self = t /\ s.key = [init |-> t, resp |-> c.eph]
      /\ s.key.init = t /\ s.key.resp = c.eph
  BY <1>1 DEF InitiatorSession
<1>3. built' = built \cup {s} /\ UNCHANGED <<inits, datas>>
  BY <1>1 DEF RespBuild, BuildSession, net
<1>4. PICK r \in resps : r.hs = t /\ r.eph = c.eph
  BY <1>1 DEF ChannelInv, HalfInv, CompletingSound
<1>5. r.hs # r.eph /\ ResponderSession(c.eph, t) \in built
  BY <1>4 DEF ChannelInv, HalfInv, ResponsesSound
<1>6. s.key \in Accepted
  <2>1. PICK u : u = ResponderSession(c.eph, t) /\ u \in built
    BY <1>5
  <2>2. u.self = c.eph /\ u.key = s.key /\ u.key.resp = c.eph
    BY <1>2, <2>1 DEF ResponderSession
  <2> QED
    BY <2>1, <2>2 DEF Accepted
<1>7. Accepted' = Accepted /\ Confirmed' = Confirmed \cup {s.key}
  BY <1>2, <1>3, <1>4, <1>5, KeysBuilt
<1>8. \A k \in Confirmed : k.init # s.key.init
  <2>1. \A u \in built : u.self # t
    BY <1>1 DEF ChannelInv, IdInv, Unbuilt
  <2> QED
    BY <1>2, <2>1 DEF Confirmed
<1>9. Promise!Confirm(s.key)
  BY <1>3, <1>7, <1>8 DEF Promise!Confirm
<1> QED
  BY <1>6, <1>9 DEF Promise!Next

\* sendToPeer sends from one end of a key to the other.
LEMMA SendStep ==
    ASSUME ChannelInv, NEW n \in Nodes, NEW p \in Nodes, SendData(n, p)
    PROVE  Promise!Next
<1>1. PICK s \in Current(n, p) :
          datas' = datas \cup {[from |-> n, to |-> p, receiver |-> s.remoteId, key |-> s.key]}
  BY DEF SendData
<1>2. s \in built /\ s.self.node = n /\ s.peer = p
  BY <1>1, CurrentPeer DEF ChannelInv
<1>3. UNCHANGED <<inits, built>>
  BY DEF SendData, heap
<1>4. UNCHANGED <<inits, Accepted, Confirmed>>
  BY <1>3 DEF Accepted, Confirmed
<1>5. CASE s.self = s.key.init
  <2>1. PICK u \in built : /\ u.self = s.key.resp /\ u.key = s.key
                           /\ u.self.node = s.peer /\ s.remoteId = u.self.id
    BY <1>2, <1>5 DEF ChannelInv, HalfInv, HandshakeAgreement
  <2>2. s.key \in Accepted /\ s.key \in Confirmed
    BY <1>2, <1>5, <2>1 DEF Accepted, Confirmed
  <2>3. s.key.init.node = n /\ s.key.resp.node = p /\ s.key.resp.id = s.remoteId
    BY <1>2, <1>5, <2>1
  <2>4. Promise!Carry(s.key, s.key.init, s.key.resp)
    BY <1>1, <1>4, <2>3 DEF Promise!Carry
  <2> QED
    BY <2>2, <2>4 DEF Promise!Send, Promise!Next
<1>6. CASE s.self # s.key.init
  <2>1. s.self = s.key.resp /\ s.peer = s.key.init.node /\ s.remoteId = s.key.init.id
    BY <1>2, <1>6 DEF ChannelInv, HalfInv, Roles
  <2>2. s.key \in Accepted
    BY <1>2, <2>1 DEF Accepted
  <2>3. Promise!Carry(s.key, s.key.resp, s.key.init)
    BY <1>1, <1>2, <1>4, <2>1 DEF Promise!Carry
  <2> QED
    BY <2>2, <2>3 DEF Promise!Send, Promise!Next
<1> QED
  BY <1>5, <1>6

\* Every step is a step of Channels or none of its business.
LEMMA ChannelStep ==
    ASSUME ChannelInv, [Next]_vars
    PROVE  [Promise!Next]_<<inits, Accepted, Confirmed, datas>>
<1> DEFINE Quiet == UNCHANGED <<inits, Accepted, Confirmed, datas>>
<1>1. ASSUME UNCHANGED <<inits, built, datas>> PROVE Quiet
  BY <1>1 DEF Accepted, Confirmed
<1>2. ASSUME NEW n \in Nodes, NEW p \in Nodes,
             \/ LearnPeer(n, p) \/ SendDials(n, p) \/ UpgradeDials(n, p)
             \/ InitiateCheck(n, p) \/ InitiateInsert(n, p)
      PROVE  Quiet
  BY <1>1, <1>2 DEF LearnPeer, SendDials, UpgradeDials, InitiateCheck, InitiateInsert, heap, net
<1>3. ASSUME NEW n \in Nodes,
             \/ \E h \in pending[n] : HandshakeTimeout(n, h)
             \/ \E m \in resps : RespTake(n, m)
             \/ RekeyCollect(n)
             \/ \E s \in built : RekeyPeer(n, s)
             \/ Restart(n)
      PROVE  Quiet
  BY <1>1, <1>3 DEF HandshakeTimeout, RespTake, RekeyCollect, RekeyPeer, Restart, heap, net
<1>4. ASSUME NEW m \in datas, NEW addr \in Paths, HandleData(m, addr) PROVE Quiet
  BY <1>1, <1>4 DEF HandleData, net
<1>5. ASSUME NEW s \in built, Age(s) PROVE Quiet
  BY <1>1, <1>5 DEF Age, heap, net
<1>6. ASSUME UNCHANGED vars PROVE Quiet
  BY <1>1, <1>6 DEF vars, heap, net
<1> DEFINE Moves == Promise!Next
<1>7. ASSUME NEW n \in Nodes,
             \/ \E h \in announcing[n] : InitiateSend(n, h)
             \/ \E p \in Nodes : SendData(n, p)
      PROVE  Moves
  BY <1>7, OfferStep, SendStep
<1>8. ASSUME NEW n \in Nodes, NEW addr \in Paths,
             \/ \E m \in inits : HandleInit(n, m, addr)
             \/ \E c \in completing[n] : RespBuild(n, c, addr)
      PROVE  Moves
  BY <1>8, AcceptStep, ConfirmStep
<1> HIDE DEF Quiet, Moves
<1>9. Moves \/ Quiet
  BY <1>2, <1>3, <1>4, <1>5, <1>6, <1>7, <1>8 DEF Next
<1> QED
  BY <1>9 DEF Quiet, Moves

\* The engines implement Channels: whatever is lost, duplicated, delayed, timed
\* out, rekeyed or forgotten in a restart, keys are agreed on by the two nodes of
\* an offer, once per offer, and data go between the two ends of a key.
THEOREM ChannelsImplemented == Spec => ChannelsKept
<1>1. Init => Promise!Init
  BY DEF Init, Promise!Init, Accepted, Confirmed
<1>2. ChannelInv /\ [Next]_vars => [Promise!Next]_<<inits, Accepted, Confirmed, datas>>
  BY ChannelStep
<1>3. [Promise!Next]_<<inits, Accepted, Confirmed, datas>> => [Promise!Next]_Promise!vars
  BY DEF Promise!vars
<1> QED
  BY <1>1, <1>2, <1>3, ChannelInvAlways, PTL DEF Spec, ChannelsKept, Promise!Spec

-----------------------------------------------------------------------------
(* Peers shown as Connecting. *)

\* A peer is set to another state, and handshakes with other peers stay.
LEMMA StuckMoves ==
    ASSUME TypeOK, StuckOnlyByRace, NEW n \in Nodes, NEW p \in Nodes,
           NEW state, state # "Connecting", Transition(n, p, state),
           \A k \in Nodes :
               /\ \A h \in pending[k] : h \in pending'[k] \/ (k = n /\ h.peer = p)
               /\ \A c \in completing[k] : c \in completing'[k] \/ (k = n /\ c.peer = p)
    PROVE  StuckOnlyByRace'
<1> SUFFICES ASSUME NEW k \in Nodes, NEW q \in Nodes, peerState'[k][q] = "Connecting"
             PROVE  \/ \E h \in pending'[k] : h.peer = q
                    \/ \E c \in completing'[k] : c.peer = q
                    \/ q \in stranded'[k]
  BY DEF StuckOnlyByRace, PendingFor
<1>1. /\ peerState[k][q] = "Connecting" /\ ~ (k = n /\ q = p)
      /\ q \in stranded[k] => q \in stranded'[k]
  BY DEF Transition, TypeOK
<1>2. \/ \E h \in pending[k] : h.peer = q
      \/ \E c \in completing[k] : c.peer = q
      \/ q \in stranded[k]
  BY <1>1 DEF StuckOnlyByRace, PendingFor
<1> QED
  BY <1>1, <1>2

\* A new entry moves nobody.
LEMMA StuckInsert ==
    ASSUME TypeOK, StuckOnlyByRace, NEW n \in Nodes, NEW p \in Nodes, InitiateInsert(n, p)
    PROVE  StuckOnlyByRace'
<1>1. UNCHANGED <<peerState, stranded, completing>> /\ \A k \in Nodes : pending[k] \subseteq pending'[k]
  BY DEF InitiateInsert, shown, TypeOK
<1> QED
  BY <1>1 DEF StuckOnlyByRace, PendingFor

\* initiateHandshake sets the state: the entry is there, or the peer is stranded.
LEMMA StuckSend ==
    ASSUME TypeOK, StuckOnlyByRace, NEW n \in Nodes, NEW h0 \in announcing[n], InitiateSend(n, h0)
    PROVE  StuckOnlyByRace'
<1>1. PICK p : p = h0.peer /\ p \in Nodes
  BY DEF TypeOK
<1>2. /\ UNCHANGED <<pending, completing>>
      /\ peerState' = [peerState EXCEPT ![n][p] = "Connecting"]
      /\ \/ h0 \in pending[n] /\ stranded' = [stranded EXCEPT ![n] = @ \ {p}]
         \/ stranded' = [stranded EXCEPT ![n] = @ \cup {p}]
  BY <1>1 DEF InitiateSend, Transition, tables
<1> SUFFICES ASSUME NEW k \in Nodes, NEW q \in Nodes, peerState'[k][q] = "Connecting"
             PROVE  \/ \E h \in pending[k] : h.peer = q
                    \/ \E c \in completing[k] : c.peer = q
                    \/ q \in stranded'[k]
  BY <1>2 DEF StuckOnlyByRace, PendingFor
<1>3. CASE k = n /\ q = p
  <2>1. h0 \in pending[n] \/ p \in stranded'[n]
    BY <1>1, <1>2 DEF TypeOK
  <2> QED
    BY <1>1, <1>3, <2>1
<1>4. CASE ~ (k = n /\ q = p)
  <2>1. peerState[k][q] = "Connecting" /\ (q \in stranded[k] => q \in stranded'[k])
    BY <1>1, <1>2, <1>4 DEF TypeOK
  <2> QED
    BY <2>1 DEF StuckOnlyByRace, PendingFor
<1> QED
  BY <1>3, <1>4

\* A response that takes an entry completes it or strands its peer.
LEMMA StuckTake ==
    ASSUME TypeOK, StuckOnlyByRace, NEW n \in Nodes, NEW r \in resps, RespTake(n, r)
    PROVE  StuckOnlyByRace'
<1>1. PICK h0 \in pending[n] :
          /\ pending' = [pending EXCEPT ![n] = @ \ {h0}]
          /\ \/ /\ completing' = [completing EXCEPT ![n] =
                       @ \cup {[id |-> h0.id, peer |-> h0.peer, eph |-> r.eph]}]
                /\ UNCHANGED stranded
             \/ /\ stranded' = [stranded EXCEPT ![n] = @ \cup {h0.peer}]
                /\ UNCHANGED completing
          /\ UNCHANGED peerState
  BY DEF RespTake, Forget
<1>2. /\ \A k \in Nodes : \A h \in pending[k] : h \in pending'[k] \/ (k = n /\ h = h0)
      /\ \A k \in Nodes : /\ completing[k] \subseteq completing'[k]
                          /\ stranded[k] \subseteq stranded'[k]
      /\ h0.peer \in stranded'[n] \/ \E c \in completing'[n] : c.peer = h0.peer
  <2>1. CASE completing' = [completing EXCEPT ![n] =
                 @ \cup {[id |-> h0.id, peer |-> h0.peer, eph |-> r.eph]}]
    <3>1. [id |-> h0.id, peer |-> h0.peer, eph |-> r.eph] \in completing'[n]
      BY <2>1 DEF TypeOK
    <3>2. \E c \in completing'[n] : c.peer = h0.peer
      BY <3>1
    <3> QED
      BY <1>1, <2>1, <3>2 DEF TypeOK
  <2>2. CASE stranded' = [stranded EXCEPT ![n] = @ \cup {h0.peer}] /\ UNCHANGED completing
    BY <1>1, <2>2 DEF TypeOK
  <2> QED
    BY <1>1, <2>1, <2>2
<1> SUFFICES ASSUME NEW k \in Nodes, NEW q \in Nodes, peerState[k][q] = "Connecting"
             PROVE  \/ \E h \in pending'[k] : h.peer = q
                    \/ \E c \in completing'[k] : c.peer = q
                    \/ q \in stranded'[k]
  BY <1>1 DEF StuckOnlyByRace, PendingFor
<1>3. \/ \E h \in pending[k] : h.peer = q
      \/ \E c \in completing[k] : c.peer = q
      \/ q \in stranded[k]
  BY DEF StuckOnlyByRace, PendingFor
<1> QED
  BY <1>2, <1>3

\* A restart leaves nothing.
LEMMA StuckRestart ==
    ASSUME TypeOK, StuckOnlyByRace, NEW n \in Nodes, Restart(n)
    PROVE  StuckOnlyByRace'
<1>1. /\ peerState' = [peerState EXCEPT ![n] = [p \in Nodes |-> "Discovered"]]
      /\ pending' = [pending EXCEPT ![n] = {}] /\ completing' = [completing EXCEPT ![n] = {}]
      /\ stranded' = [stranded EXCEPT ![n] = {}]
  BY DEF Restart
<1>2. \A k \in Nodes :
          /\ k = n => \A q \in Nodes : peerState'[k][q] # "Connecting"
          /\ k # n => /\ peerState'[k] = peerState[k] /\ stranded'[k] = stranded[k]
                      /\ pending'[k] = pending[k] /\ completing'[k] = completing[k]
  BY <1>1 DEF TypeOK
<1> QED
  BY <1>2 DEF StuckOnlyByRace, PendingFor

\* Every step keeps it.
LEMMA StuckStep == TypeOK /\ StuckOnlyByRace /\ [Next]_vars => StuckOnlyByRace'
<1> SUFFICES ASSUME TypeOK, StuckOnlyByRace, [Next]_vars PROVE StuckOnlyByRace'
  OBVIOUS
<1>1. ASSUME UNCHANGED <<peerState, stranded, pending, completing>> PROVE StuckOnlyByRace'
  BY <1>1 DEF StuckOnlyByRace, PendingFor
<1>2. ASSUME NEW n \in Nodes, NEW p \in Nodes, LearnPeer(n, p) PROVE StuckOnlyByRace'
  <2>1. Transition(n, p, "Discovered") /\ UNCHANGED <<pending, completing>>
    BY <1>2 DEF LearnPeer, tables
  <2> QED
    BY <2>1, StuckMoves
<1>3. ASSUME NEW n \in Nodes, NEW addr, NEW m \in inits, HandleInit(n, m, addr)
      PROVE  StuckOnlyByRace'
  <2>1. /\ Transition(n, m.hs.node, "Direct") \/ UNCHANGED <<peerState, stranded>>
        /\ UNCHANGED <<pending, completing>>
    BY <1>3 DEF HandleInit, workers, shown
  <2>2. m.hs.node \in Nodes
    BY DEF TypeOK, Tokens
  <2> QED
    BY <1>1, <2>1, <2>2, StuckMoves
<1>4. ASSUME NEW n \in Nodes, NEW h \in pending[n], HandshakeTimeout(n, h)
      PROVE  StuckOnlyByRace'
  <2>1. /\ pending' = [pending EXCEPT ![n] = @ \ {h}]
        /\ Transition(n, h.peer, "Discovered") /\ UNCHANGED completing
    BY <1>4 DEF HandshakeTimeout, workers
  <2>2. /\ h.peer \in Nodes
        /\ \A k \in Nodes : \A g \in pending[k] : g \in pending'[k] \/ (k = n /\ g = h)
    BY <2>1 DEF TypeOK
  <2> QED
    BY <2>1, <2>2, StuckMoves
<1>5. ASSUME NEW n \in Nodes, NEW addr \in Paths, NEW c \in completing[n], RespBuild(n, c, addr)
      PROVE  StuckOnlyByRace'
  <2>1. /\ completing' = [completing EXCEPT ![n] = @ \ {c}]
        /\ Transition(n, c.peer, "Direct") \/ Transition(n, c.peer, "Relayed")
        /\ UNCHANGED pending
    BY <1>5, Bounds DEF RespBuild
  <2>2. /\ c.peer \in Nodes
        /\ \A k \in Nodes : \A d \in completing[k] : d \in completing'[k] \/ (k = n /\ d = c)
    BY <2>1 DEF TypeOK
  <2> QED
    BY <2>1, <2>2, StuckMoves
<1>6. ASSUME NEW m \in datas, NEW addr \in Paths, HandleData(m, addr)
      PROVE  StuckOnlyByRace'
  <2>1. PICK s \in OpensUnder(m) : Transition(m.to, s.peer, "Direct")
    BY <1>6 DEF HandleData
  <2>2. m.to \in Nodes /\ s.peer \in Nodes
    BY DEF TypeOK, OpensUnder, SessionAt, SessionRecords
  <2>3. UNCHANGED <<pending, completing>>
    BY <1>6 DEF HandleData, tables, workers
  <2> QED
    BY <2>1, <2>2, <2>3, StuckMoves
<1>7. ASSUME NEW n \in Nodes, NEW p \in Nodes,
             SendDials(n, p) \/ UpgradeDials(n, p) \/ InitiateCheck(n, p) \/ SendData(n, p)
      PROVE  StuckOnlyByRace'
  BY <1>1, <1>7 DEF SendDials, UpgradeDials, InitiateCheck, SendData, tables, workers, shown
<1>8. ASSUME NEW n \in Nodes, RekeyCollect(n) \/ \E s \in built : RekeyPeer(n, s)
      PROVE  StuckOnlyByRace'
  BY <1>1, <1>8 DEF RekeyCollect, RekeyPeer, tables, shown
<1>9. ASSUME NEW s \in built, Age(s) PROVE StuckOnlyByRace'
  BY <1>1, <1>9 DEF Age, tables, workers, shown
<1>10. CASE UNCHANGED vars
  BY <1>1, <1>10 DEF vars, tables, workers, shown
<1> QED
  BY <1>2, <1>3, <1>4, <1>5, <1>6, <1>7, <1>8, <1>9, <1>10,
     StuckInsert, StuckSend, StuckTake, StuckRestart DEF Next

\* A peer stays Connecting with nothing in flight only when its pending entry went
\* before the state was set, or with a response of another life: timeouts, dials,
\* completions and packets in any order leave no other way.
THEOREM StuckOnlyByRaceCorrect == Spec => []StuckOnlyByRace
<1>1. Init => StuckOnlyByRace
  BY DEF Init, StuckOnlyByRace
<1> QED
  BY <1>1, TypeInit, TypeStep, StuckStep, PTL DEF Spec
=============================================================================
