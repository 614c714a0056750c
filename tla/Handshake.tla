----------------------------- MODULE Handshake -----------------------------
(***************************************************************************)
(* How the engines of internal/node/engine.go establish, use, rekey and    *)
(* lose encrypted sessions with one another.                               *)
(*                                                                         *)
(* Every node runs the same engine: goroutines that start handshakes       *)
(* (initiateHandshake), a goroutine per inbound packet (handleHandshakeInit,*)
(* handleHandshakeResp, handleData), the timeout loop and the rekey loop.  *)
(* Engine.mu is released between the steps below, so they interleave.  The *)
(* network keeps every message for ever: it may lose, delay, reorder and   *)
(* duplicate.  A node may crash and start again with empty tables.         *)
(*                                                                         *)
(* A session ID is drawn from idCounter, which restarts at 0 with the      *)
(* process; the Noise ephemeral key drawn with it is fresh for ever.  The  *)
(* token [node, inc, id] names both (inc numbers the node's lives), and    *)
(* the transport keys of a handshake are named by its two tokens.          *)
(***************************************************************************)
EXTENDS Integers, FiniteSets

CONSTANTS
    Nodes,          \* the mesh nodes
    MaxIds,         \* bound: session IDs drawn in one life of a node
    MaxStarting,    \* bound: goroutines between check and insert, per peer
    Crashing,       \* bound: nodes that may crash
    MaxRestarts,    \* bound: restarts of each of them
    MaxAgings,      \* bound: times a session passes an age limit
    MaxDatas,       \* bound: distinct data packets
    Paths           \* how messages arrive: TRUE over UDP, FALSE over DERP

ASSUME HandshakeAssumption ==
    /\ MaxIds \in Nat
    /\ MaxStarting \in Nat
    /\ MaxRestarts \in Nat
    /\ MaxAgings \in Nat
    /\ MaxDatas \in Nat
    /\ Paths \subseteq BOOLEAN

VARIABLES
    inc, lastId,        \* life of the node, and its idCounter
    known,              \* peers its mesh.Manager knows
    peerState,          \* mesh.Peer.State of the peers it knows
    dialing,            \* peers a spawned goroutine is about to dial
    starting,           \* goroutines past the pending check, per peer
    announcing,         \* those past the insert, whose init is not yet sent
    stranded,           \* history: see Transition
    pending,            \* Engine.pending: [id, peer]
    completing,         \* handshakes taken from pending, not yet a session
    sessions, byID,     \* Engine.sessions (0: none) and Engine.byID
    toRekey,            \* sessions the rekey loop has collected
    built,              \* every peerSession ever built
    orphan, relayed,    \* those with ps.peer = nil, with ps.endpoint = nil
    due, expired,       \* those older than 2 minutes, than 2 minutes 30
    inits, resps, datas \* the messages sent so far

tables == <<pending, sessions, byID>>
workers == <<dialing, starting, announcing, completing, toRekey>>
shown == <<peerState, stranded>>
heap == <<built, orphan, relayed>>
ages == <<due, expired>>
net == <<inits, resps, datas>>
vars == <<inc, lastId, known, shown, tables, workers, heap, ages, net>>

-----------------------------------------------------------------------------

Tokens == [node : Nodes, inc : 0 .. MaxRestarts, id : 1 .. MaxIds]

Keys == [init : Tokens, resp : Tokens]

\* remoteId is receiverID: the ID under which the peer knows the session.
SessionRecords == [self : Tokens, peer : Nodes, remoteId : 1 .. MaxIds, key : Keys]

PeerStates == {"Discovered", "Connecting", "Direct", "Relayed"}

Token(n, id) == [node |-> n, inc |-> inc[n], id |-> id]

\* MUTANT of NextId: the counter is read and stored without an atomic add.
NextIdStale(n) == IF lastId[n] = 0 THEN 1 ELSE lastId[n]

\* nextID, an atomic add.
NextId(n) == lastId[n] + 1

PendingFor(n, p) == {h \in pending[n] : h.peer = p}

\* The session byID holds at n under id.
SessionAt(n, id) == {s \in built : s.self = Token(n, id) /\ id \in byID[n]}

\* The session n sends to p with, if any.
Current(n, p) == {s \in built : s.self = Token(n, sessions[n][p])}

Init ==
    /\ inc = [n \in Nodes |-> 0] /\ lastId = [n \in Nodes |-> 0]
    /\ known = [n \in Nodes |-> {}]
    /\ peerState = [n \in Nodes |-> [p \in Nodes |-> "Discovered"]]
    /\ dialing = [n \in Nodes |-> {}]
    /\ starting = [n \in Nodes |-> [p \in Nodes |-> 0]]
    /\ announcing = [n \in Nodes |-> {}] /\ stranded = [n \in Nodes |-> {}]
    /\ pending = [n \in Nodes |-> {}] /\ completing = [n \in Nodes |-> {}]
    /\ sessions = [n \in Nodes |-> [p \in Nodes |-> 0]]
    /\ byID = [n \in Nodes |-> {}] /\ toRekey = [n \in Nodes |-> {}]
    /\ built = {} /\ orphan = {} /\ relayed = {} /\ due = {} /\ expired = {}
    /\ inits = {} /\ resps = {} /\ datas = {}

\* MUTANT of ResponderSession: SenderIndex taken for ReceiverIndex.
ResponderSessionSwapped(self, hs) ==
    [self |-> self, peer |-> hs.node, remoteId |-> self.id,
     key |-> [init |-> hs, resp |-> self]]

\* What handleHandshakeInit and handleHandshakeResp pass to buildSession.
ResponderSession(self, hs) ==
    [self |-> self, peer |-> hs.node, remoteId |-> hs.id,
     key |-> [init |-> hs, resp |-> self]]

InitiatorSession(self, p, eph) ==
    [self |-> self, peer |-> p, remoteId |-> eph.id,
     key |-> [init |-> self, resp |-> eph]]

\* Peer.Transition.  stranded remembers the peers whose pending entry went
\* before the peer was set to Connecting, or with a response that did not verify:
\* nothing is in flight that would set them to another state.
Transition(n, p, state) ==
    /\ peerState' = [peerState EXCEPT ![n][p] = state]
    /\ stranded' = [stranded EXCEPT ![n] = @ \ {p}]

\* buildSession: the session replaces the peer's current one, and byID gains an
\* entry; the entry of the session it replaces stays.
BuildSession(n, s, addr) ==
    /\ built' = built \cup {s}
    /\ sessions' = [sessions EXCEPT ![n][s.peer] = s.self.id]
    /\ byID' = [byID EXCEPT ![n] = @ \cup {s.self.id}]
    /\ relayed' = IF addr THEN relayed ELSE relayed \cup {s.self}

-----------------------------------------------------------------------------
(* Dialing: connectPeer and initiateHandshake. *)

\* The topology brings a new peer, which the manager connects to at once.
LearnPeer(n, p) ==
    /\ p # n /\ p \notin known[n]
    /\ known' = [known EXCEPT ![n] = @ \cup {p}]
    /\ Transition(n, p, "Discovered")
    /\ dialing' = [dialing EXCEPT ![n] = @ \cup {p}]
    /\ UNCHANGED <<inc, lastId, tables, starting, announcing, completing, toRekey,
                   heap, ages, net>>

\* sendToPeer without a session: the packet is dropped and a goroutine dials.
\* (With a session that has expired the packet is dropped and nothing happens.)
SendDials(n, p) ==
    /\ p \in known[n]
    /\ sessions[n][p] = 0
    /\ dialing' = [dialing EXCEPT ![n] = @ \cup {p}]
    /\ UNCHANGED <<inc, lastId, known, shown, tables, starting,
                   announcing, completing, toRekey, heap, ages, net>>

\* derpUpgradeLoop re-dials a peer whose current session has no endpoint.
UpgradeDials(n, p) ==
    /\ \E s \in Current(n, p) : s.self \in relayed /\ s.self \notin orphan
    /\ dialing' = [dialing EXCEPT ![n] = @ \cup {p}]
    /\ UNCHANGED <<inc, lastId, known, shown, tables, starting,
                   announcing, completing, toRekey, heap, ages, net>>

\* initiateHandshake, first critical section: a no-op when one is pending.
InitiateCheck(n, p) ==
    /\ p \in dialing[n]
    /\ dialing' = [dialing EXCEPT ![n] = @ \ {p}]
    /\ \/ /\ PendingFor(n, p) # {}
          /\ UNCHANGED starting
       \/ /\ PendingFor(n, p) = {}
          /\ starting[n][p] < MaxStarting
          /\ starting' = [starting EXCEPT ![n][p] = @ + 1]
    /\ UNCHANGED <<inc, lastId, known, shown, tables, announcing, completing,
                   toRekey, heap, ages, net>>

\* initiateHandshake, second critical section.
InitiateInsert(n, p) ==
    LET h == [id |-> NextId(n), peer |-> p] IN
    /\ starting[n][p] > 0
    /\ lastId[n] < MaxIds
    /\ starting' = [starting EXCEPT ![n][p] = @ - 1]
    /\ lastId' = [lastId EXCEPT ![n] = NextId(n)]
    /\ pending' = [pending EXCEPT ![n] = @ \cup {h}]
    /\ announcing' = [announcing EXCEPT ![n] = @ \cup {h}]
    /\ UNCHANGED <<inc, known, shown, sessions, byID, dialing, completing,
                   toRekey, heap, ages, net>>

\* The rest, without Engine.mu: whatever has become of the pending entry.
InitiateSend(n, h) ==
    /\ h \in announcing[n]
    /\ announcing' = [announcing EXCEPT ![n] = @ \ {h}]
    /\ \/ /\ h \in pending[n]
          /\ Transition(n, h.peer, "Connecting")
       \/ /\ h \notin pending[n]
          /\ peerState' = [peerState EXCEPT ![n][h.peer] = "Connecting"]
          /\ stranded' = [stranded EXCEPT ![n] = @ \cup {h.peer}]
    /\ inits' = inits \cup {[hs |-> Token(n, h.id), to |-> h.peer]}
    /\ UNCHANGED <<inc, lastId, known, tables, dialing, starting, completing,
                   toRekey, heap, ages, resps, datas>>

\* MUTANT of HandshakeTimeout: the peer's state is not set back.
HandshakeTimeoutSilent(n, h) ==
    /\ h \in pending[n]
    /\ pending' = [pending EXCEPT ![n] = @ \ {h}]
    /\ UNCHANGED <<inc, lastId, known, shown, sessions, byID, workers, heap,
                   ages, net>>

\* handshakeTimeoutLoop gives a pending handshake up.
HandshakeTimeout(n, h) ==
    /\ h \in pending[n]
    /\ pending' = [pending EXCEPT ![n] = @ \ {h}]
    /\ Transition(n, h.peer, "Discovered")
    /\ UNCHANGED <<inc, lastId, known, sessions, byID, workers, heap, ages, net>>

-----------------------------------------------------------------------------
(* Inbound messages.  addr says whether one came over UDP (else over DERP). *)

\* handleHandshakeInit: every init, a duplicate included, makes a new session
\* with keys of its own.
HandleInit(n, m, addr) ==
    LET self == Token(n, NextId(n))
        p    == m.hs.node
    IN  /\ m.to = n
        /\ lastId[n] < MaxIds
        /\ lastId' = [lastId EXCEPT ![n] = NextId(n)]
        /\ BuildSession(n, ResponderSession(self, m.hs), addr)
        /\ \/ /\ p \in known[n]
              /\ Transition(n, p, "Direct")
              /\ UNCHANGED orphan
           \/ /\ p \notin known[n]
              /\ orphan' = orphan \cup {self}
              /\ UNCHANGED shown
        /\ resps' = resps \cup {[hs |-> m.hs, eph |-> self]}
        /\ UNCHANGED <<inc, known, pending, workers, ages, inits, datas>>

\* MUTANT of Forget: the pending entry outlives the first response.
ForgetLate(n, h) == pending' = pending

\* delete(e.pending, id)
Forget(n, h) == pending' = [pending EXCEPT ![n] = @ \ {h}]

\* handleHandshakeResp, under the lock: the pending entry is removed first; a
\* response made for another ephemeral then fails to verify, and is dropped.
RespTake(n, m) ==
    \E h \in pending[n] :
        /\ m.hs.node = n /\ m.hs.id = h.id
        /\ Forget(n, h)
        /\ \/ /\ m.hs = Token(n, h.id)
              /\ completing' = [completing EXCEPT ![n] =
                     @ \cup {[id |-> h.id, peer |-> h.peer, eph |-> m.eph]}]
              /\ UNCHANGED stranded
           \/ /\ m.hs # Token(n, h.id)
              /\ stranded' = [stranded EXCEPT ![n] = @ \cup {h.peer}]
              /\ UNCHANGED completing
        /\ UNCHANGED <<inc, lastId, known, peerState, sessions, byID, dialing,
                       starting, announcing, toRekey, heap, ages, net>>

\* handleHandshakeResp, the rest: the initiator's session.
RespBuild(n, c, addr) ==
    /\ c \in completing[n]
    /\ completing' = [completing EXCEPT ![n] = @ \ {c}]
    /\ BuildSession(n, InitiatorSession(Token(n, c.id), c.peer, c.eph), addr)
    /\ Transition(n, c.peer, IF addr THEN "Direct" ELSE "Relayed")
    /\ UNCHANGED <<inc, lastId, known, pending, dialing, starting, announcing,
                   toRekey, orphan, ages, net>>

\* sendToPeer with a session that has not expired.
SendData(n, p) ==
    \E s \in Current(n, p) :
        /\ p \in known[n]
        /\ s.self \notin expired
        /\ Cardinality(datas) < MaxDatas
        /\ datas' = datas \cup
               {[from |-> n, to |-> p, receiver |-> s.remoteId, key |-> s.key]}
        /\ UNCHANGED <<inc, lastId, known, shown, tables, workers, heap,
                       ages, inits, resps>>

\* MUTANT of OpensUnder: the receiver index alone decides.
OpensByIndex(m) == SessionAt(m.to, m.receiver)

\* The session a data packet opens under: looked up by receiver index alone.
OpensUnder(m) == {s \in SessionAt(m.to, m.receiver) : s.key = m.key}

\* handleData: the only lasting effect of a packet that opens is the upgrade
\* of a relayed session by a packet that came over UDP.
HandleData(m, addr) ==
    \E s \in OpensUnder(m) :
        /\ addr /\ s.self \in relayed /\ s.self \notin orphan
        /\ relayed' = relayed \ {s.self}
        /\ Transition(m.to, s.peer, "Direct")
        /\ UNCHANGED <<inc, lastId, known, tables, workers, built, orphan,
                       ages, net>>

-----------------------------------------------------------------------------
(* Time, rekeying and crashes. *)

\* A session passes sessionLifetime, then sessionGracePeriod.
Age(s) ==
    /\ Cardinality(due) + Cardinality(expired) < MaxAgings
    /\ \/ /\ s.self \notin due
          /\ due' = due \cup {s.self} /\ UNCHANGED expired
       \/ /\ s.self \in due \ expired
          /\ expired' = expired \cup {s.self} /\ UNCHANGED due
    /\ UNCHANGED <<inc, lastId, known, shown, tables, workers, heap, net>>

\* rekeyLoop, under RLock: collect the sessions that need a new handshake; one
\* without a peer is skipped.
RekeyCollect(n) ==
    /\ toRekey[n] = {}
    /\ toRekey' = [toRekey EXCEPT ![n] =
           {s.self : s \in {c \in UNION {Current(n, p) : p \in Nodes} :
                                c.self \in due \ orphan}}]
    /\ toRekey'[n] # {}
    /\ UNCHANGED <<inc, lastId, known, shown, tables, dialing, starting,
                   announcing, completing, heap, ages, net>>

\* MUTANT of DropSession: only the receiving entry is deleted.
DropByIDOnly(n, p) ==
    /\ byID' = [byID EXCEPT ![n] = @ \ {sessions[n][p]}]
    /\ UNCHANGED sessions

DropSession(n, p) ==
    /\ byID' = [byID EXCEPT ![n] = @ \ {sessions[n][p]}]
    /\ sessions' = [sessions EXCEPT ![n][p] = 0]

\* RekeyPeer, for each of them: whatever session the peer has NOW is dropped.
RekeyPeer(n, s) ==
    LET p == s.peer IN
    /\ s.self \in toRekey[n]
    /\ toRekey' = [toRekey EXCEPT ![n] = @ \ {s.self}]
    /\ DropSession(n, p)
    /\ dialing' = [dialing EXCEPT ![n] = @ \cup {p}]
    /\ UNCHANGED <<inc, lastId, known, shown, pending, starting, announcing,
                   completing, heap, ages, net>>

\* The process dies and starts again: everything it kept is in memory.
Restart(n) ==
    /\ n \in Crashing
    /\ inc[n] < MaxRestarts
    /\ inc' = [inc EXCEPT ![n] = @ + 1]
    /\ lastId' = [lastId EXCEPT ![n] = 0]
    /\ known' = [known EXCEPT ![n] = {}]
    /\ peerState' = [peerState EXCEPT ![n] = [p \in Nodes |-> "Discovered"]]
    /\ dialing' = [dialing EXCEPT ![n] = {}]
    /\ starting' = [starting EXCEPT ![n] = [p \in Nodes |-> 0]]
    /\ announcing' = [announcing EXCEPT ![n] = {}]
    /\ stranded' = [stranded EXCEPT ![n] = {}]
    /\ pending' = [pending EXCEPT ![n] = {}]
    /\ completing' = [completing EXCEPT ![n] = {}]
    /\ sessions' = [sessions EXCEPT ![n] = [p \in Nodes |-> 0]]
    /\ byID' = [byID EXCEPT ![n] = {}]
    /\ toRekey' = [toRekey EXCEPT ![n] = {}]
    /\ UNCHANGED <<heap, ages, net>>

Next ==
    \/ \E n, p \in Nodes :
           \/ LearnPeer(n, p)
           \/ SendDials(n, p)
           \/ UpgradeDials(n, p)
           \/ InitiateCheck(n, p)
           \/ InitiateInsert(n, p)
           \/ SendData(n, p)
    \/ \E n \in Nodes, addr \in Paths :
           \/ \E m \in inits : HandleInit(n, m, addr)
           \/ \E c \in completing[n] : RespBuild(n, c, addr)
    \/ \E n \in Nodes :
           \/ \E h \in announcing[n] : InitiateSend(n, h)
           \/ \E h \in pending[n] : HandshakeTimeout(n, h)
           \/ \E m \in resps : RespTake(n, m)
           \/ RekeyCollect(n)
           \/ \E s \in built : RekeyPeer(n, s)
           \/ Restart(n)
    \/ \E m \in datas, addr \in Paths : HandleData(m, addr)
    \/ \E s \in built : Age(s)

Spec == Init /\ [][Next]_vars

-----------------------------------------------------------------------------
(* Properties. *)

TypeOK ==
    /\ inc \in [Nodes -> 0 .. MaxRestarts]
    /\ lastId \in [Nodes -> 0 .. MaxIds]
    /\ known \in [Nodes -> SUBSET Nodes]
    /\ peerState \in [Nodes -> [Nodes -> PeerStates]]
    /\ dialing \in [Nodes -> SUBSET Nodes]
    /\ starting \in [Nodes -> [Nodes -> 0 .. MaxStarting]]
    /\ announcing \in [Nodes -> SUBSET [id : 1 .. MaxIds, peer : Nodes]]
    /\ stranded \in [Nodes -> SUBSET Nodes]
    /\ pending \in [Nodes -> SUBSET [id : 1 .. MaxIds, peer : Nodes]]
    /\ completing \in [Nodes -> SUBSET [id : 1 .. MaxIds, peer : Nodes, eph : Tokens]]
    /\ sessions \in [Nodes -> [Nodes -> 0 .. MaxIds]]
    /\ byID \in [Nodes -> SUBSET (1 .. MaxIds)]
    /\ toRekey \in [Nodes -> SUBSET Tokens]
    /\ built \subseteq SessionRecords
    /\ orphan \subseteq Tokens /\ relayed \subseteq Tokens
    /\ due \subseteq Tokens /\ expired \subseteq due
    /\ inits \subseteq [hs : Tokens, to : Nodes]
    /\ resps \subseteq [hs : Tokens, eph : Tokens]
    /\ datas \subseteq [from : Nodes, to : Nodes, receiver : 1 .. MaxIds, key : Keys]

\* A handshake becomes one session, whatever the network duplicates and whoever
\* restarts: a session counts its nonces from 0, so a second one from the same
\* handshake would repeat them under the same key.
KeysUsedOnce ==
    /\ \A s, t \in built : s.self = t.self => s = t
    /\ \A n \in Nodes : \A c \in completing[n] :
           \A s \in built : s.self # Token(n, c.id)

\* When an initiator completes a handshake, the node it dialled has built the
\* other half: same keys, each end filed under the ID the other will send to.
HandshakeAgreement ==
    \A s \in built : s.key.init = s.self =>
        \E t \in built :
            /\ t.self = s.key.resp /\ t.key = s.key
            /\ t.self.node = s.peer /\ t.peer = s.self.node
            /\ t.remoteId = s.self.id /\ s.remoteId = t.self.id

\* The session a node sends with is one it can receive on, and is with that
\* peer: sessions and byID agree although packets, timeouts and the rekey loop
\* change them from different goroutines.
SendSessionReceivable ==
    \A n, p \in Nodes : sessions[n][p] # 0 =>
        \E s \in SessionAt(n, sessions[n][p]) : s.peer = p

\* An ID is used by one handshake or session at a time: pending, completing
\* and byID never hold the same ID, and none is above idCounter.
IdsDisjoint ==
    \A n \in Nodes :
        LET taken == {h.id : h \in completing[n]}
            waiting == {h.id : h \in pending[n]}
        IN  /\ taken \cap waiting = {}
            /\ byID[n] \cap (taken \cup waiting) = {}
            /\ \A id \in byID[n] \cup taken \cup waiting : id <= lastId[n]

\* A data packet opens only at the other end of the session that sealed it,
\* also when a restarted node has given an old ID to a new session.
OpensOnlyAtOtherEnd ==
    \A m \in datas : \A s \in OpensUnder(m) :
        /\ s.peer = m.from
        /\ \E t \in built : /\ t.self.node = m.from
                            /\ t.key = m.key
                            /\ {s.self, t.self} = {m.key.init, m.key.resp}

\* A peer stays Connecting, with no handshake in flight or being completed, only
\* after one of two races: its pending entry was given up, or taken by a response
\* made for an earlier life of the node, before initiateHandshake had set the
\* state; or such a response took it later.  Any other way out of pending moves
\* the state on.
StuckOnlyByRace ==
    \A n, p \in Nodes : peerState[n][p] = "Connecting" =>
        \/ PendingFor(n, p) # {}
        \/ \E c \in completing[n] : c.peer = p
        \/ p \in stranded[n]

\* The keys that responders, and initiators, have built sessions with.
Accepted == {s.key : s \in {x \in built : x.self = x.key.resp}}
Confirmed == {s.key : s \in {x \in built : x.self = x.key.init}}

Promise == INSTANCE Channels WITH
    offers <- inits, accepted <- Accepted, confirmed <- Confirmed, sent <- datas

\* Whatever is lost, duplicated, timed out, rekeyed or forgotten in a restart, the
\* engines implement Channels: an end is drawn once, an initiator confirms keys
\* that the node it dialled has, one set per handshake, and data go between the
\* two ends of a key under the ID that the receiving end knows.
ChannelsKept == Promise!Spec
=============================================================================
