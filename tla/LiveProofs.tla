----------------------------- MODULE LiveProofs -----------------------------
(***************************************************************************)
(* Proofs about LiveUpdates, for any number of connections, kinds of       *)
(* message, capacities and faults.                                         *)
(*                                                                         *)
(* The two ends have an invariant each.  The hub's says which channels are *)
(* open: those of the table and of the clients still to be registered,     *)
(* which is why a connection that asks must be in neither place.  The      *)
(* provider's counts its sockets and timers.  They meet in the link only.  *)
(***************************************************************************)
EXTENDS LiveUpdates, SequenceTheorems, TLAPS

Readers == {"none", "registering", "reading", "leaving"}

\* The parts of the state that the hub's argument speaks of.
HubType ==
    /\ table \subseteq Conns
    /\ reader \in [Conns -> Readers]
    /\ sendOpen \in [Conns -> BOOLEAN] /\ closes \in [Conns -> Nat]
    /\ link \in [Conns -> Links]

\* A request that is not answered yet has nothing in the coordinator.
AskingFree == \A c \in Conns : link[c] = "asking" => reader[c] = "none" /\ c \notin table

\* A client that waits to be registered has an open channel, and no entry.
RegisteringOpen == \A c \in Conns : reader[c] = "registering" => sendOpen[c] /\ c \notin table

\* An open channel has not been closed.
OpenUnclosed == \A c \in Conns : sendOpen[c] => closes[c] = 0

GreetedOpen == hub = "greeting" => greeted \in Conns /\ sendOpen[greeted]

HubInv ==
    /\ HubType
    /\ AskingFree
    /\ RegisteringOpen
    /\ OpenUnclosed
    /\ GreetedOpen
    /\ ClosedOnce

\* The parts of the state that the provider's argument speaks of.
PageType ==
    /\ sock \in [Conns -> {"none", "connecting", "open", "closing"}]
    /\ first \in Conns \cup {NoConn}
    /\ timers \in Nat /\ connected \in BOOLEAN
    /\ page \in {"blank", "mounted", "unmounted"}

\* Before the provider is mounted there is nothing.
BlankEmpty == page = "blank" => Live = {} /\ timers = 0 /\ connected = FALSE

\* Only the clean-up closes a socket.
NoneClosing == Mounted => \A c \in Conns : sock[c] # "closing"

PageInv == PageType /\ BlankEmpty /\ NoneClosing /\ OneChain /\ BadgeTrue

-----------------------------------------------------------------------------
(* Operators of the model. *)

\* The connection that connect takes is a free one.
LEMMA UnusedFree ==
    ASSUME \E c \in Conns : Free(c)
    PROVE  Unused \in Conns /\ Free(Unused)
BY DEF Unused

\* Closing a connection starts no request.
LEMMA CloseConnFacts ==
    ASSUME HubType, NEW c \in Conns, CloseConn(c)
    PROVE  /\ link' \in [Conns -> Links]
           /\ \A d \in Conns : link'[d] = "asking" => link[d] = "asking"
BY DEF HubType, CloseConn, Set, Links

-----------------------------------------------------------------------------
(* The hub closes every channel once. *)

\* A step that leaves channels and table alone, and starts no request.
LEMMA HubKept ==
    ASSUME HubInv, UNCHANGED <<table, sendOpen, closes>>,
           (hub' = hub /\ greeted' = greeted) \/ hub' # "greeting",
           reader' \in [Conns -> Readers], link' \in [Conns -> Links],
           \A d \in Conns : link'[d] = "asking" => link[d] = "asking" /\ reader'[d] = reader[d],
           \A d \in Conns : reader'[d] = "registering" => reader[d] = "registering"
    PROVE  HubInv'
BY DEF HubInv, HubType, AskingFree, RegisteringOpen, OpenUnclosed, GreetedOpen, ClosedOnce

\* A step that closes the channels of clients and takes them out of the table.
LEMMA HubCloses ==
    ASSUME HubInv, NEW cs \in SUBSET table, CloseSends(cs), table' = table \ cs,
           hub = "select", hub' # "greeting",
           reader' \in [Conns -> Readers], link' \in [Conns -> Links],
           \A d \in Conns : link'[d] = "asking" => link[d] = "asking" /\ reader'[d] = reader[d],
           \A d \in Conns : reader'[d] = "registering" => reader[d] = "registering"
    PROVE  HubInv'
<1> USE DEF HubInv, HubType, CloseSends
<1>1. HubType'
  OBVIOUS
<1>2. AskingFree' /\ RegisteringOpen' /\ GreetedOpen'
  BY DEF AskingFree, RegisteringOpen, GreetedOpen
<1>3. OpenUnclosed' /\ ClosedOnce'
  <2> SUFFICES ASSUME NEW d \in Conns
               PROVE  /\ sendOpen'[d] => closes'[d] = 0
                      /\ closes'[d] <= 1 /\ (d \in table' => sendOpen'[d])
    BY DEF OpenUnclosed, ClosedOnce
  <2>1. /\ d \in cs => ~sendOpen'[d] /\ closes'[d] = closes[d] + 1
        /\ d \notin cs => (sendOpen'[d] <=> sendOpen[d]) /\ closes'[d] = closes[d]
    OBVIOUS
  <2>2. CASE d \in cs
    <3>1. closes[d] = 0
      BY <2>2 DEF OpenUnclosed, ClosedOnce
    <3> QED
      BY <2>1, <2>2, <3>1
  <2>3. CASE d \notin cs
    BY <2>1, <2>3 DEF OpenUnclosed, ClosedOnce
  <2> QED
    BY <2>2, <2>3
<1> QED
  BY <1>1, <1>2, <1>3

\* Initially there is no client.
LEMMA HubInit == Init => HubInv
BY DEF Init, HubInv, HubType, Readers, Links, AskingFree, RegisteringOpen, OpenUnclosed,
       GreetedOpen, ClosedOnce

\* What the hub does.
LEMMA HubStep ==
    ASSUME HubInv, HubNext
    PROVE  HubInv'
<1>1. CASE HubGreet
  BY <1>1, HubKept DEF HubGreet, HubInv, HubType, pumpVars, netVars
<1>2. CASE HubBroadcast
  <2>1. Slow \in SUBSET table /\ table' = table \ Slow
    BY <1>2 DEF HubBroadcast, Slow, Dropped
  <2> QED
    BY <1>2, <2>1, HubCloses DEF HubBroadcast, HubInv, HubType, pumpVars, netVars
<1>3. CASE HubTick \/ Close
  BY <1>3, HubKept DEF HubTick, Close, HubInv, HubType, hubVars, chanVars, pumpVars, netVars
<1>4. CASE HubDone
  <2>1. table' = table \ table
    BY <1>4 DEF HubDone
  <2> QED
    BY <1>4, <2>1, HubCloses DEF HubDone, HubInv, HubType, pumpVars, netVars
<1> QED
  BY <1>1, <1>2, <1>3, <1>4 DEF HubNext

\* What the handler of a connection and its two goroutines do.
LEMMA ClientStep ==
    ASSUME HubInv, NEW c \in Conns, ClientNext(c)
    PROVE  HubInv'
<1> USE DEF Set
<1>1. CASE ServeRefuse(c)
  BY <1>1, HubKept DEF ServeRefuse, HubInv, HubType, Links, hubVars, chanVars, pumpVars
<1>2. CASE ServeAccept(c)
  <2> USE <1>2 DEF ServeAccept, HubInv, HubType, hubVars
  <2>1. HubType'
    BY DEF Readers, Links
  <2>2. AskingFree' /\ RegisteringOpen' /\ OpenUnclosed'
    BY DEF AskingFree, RegisteringOpen, OpenUnclosed
  <2>3. GreetedOpen' /\ ClosedOnce'
    BY DEF GreetedOpen, ClosedOnce
  <2> QED
    BY <2>1, <2>2, <2>3
<1>3. CASE HubRegister(c)
  <2> USE <1>3 DEF HubRegister, HubInv, HubType, chanVars, netVars
  <2>1. HubType'
    BY DEF Readers
  <2>2. AskingFree' /\ RegisteringOpen' /\ OpenUnclosed'
    BY DEF AskingFree, RegisteringOpen, OpenUnclosed
  <2>3. GreetedOpen' /\ ClosedOnce'
    BY DEF GreetedOpen, ClosedOnce, RegisteringOpen
  <2> QED
    BY <2>1, <2>2, <2>3
<1>4. CASE ServeDone(c) \/ LeaveDone(c)
  <2>1. CloseConn(c) /\ reader[c] # "none" /\ reader' = [reader EXCEPT ![c] = "none"]
    BY <1>4 DEF ServeDone, LeaveDone, Leave
  <2>2. UNCHANGED <<table, sendOpen, closes, hub, greeted>>
    BY <1>4 DEF ServeDone, LeaveDone, hubVars, chanVars
  <2>3. reader' \in [Conns -> Readers]
    BY <2>1 DEF HubInv, HubType, Readers
  <2> QED
    BY <2>1, <2>2, <2>3, CloseConnFacts, HubKept DEF HubInv, HubType, AskingFree
<1>5. CASE ReadFails(c)
  BY <1>5, HubKept DEF ReadFails, HubInv, HubType, AskingFree, Readers, hubVars, chanVars, netVars
<1>6. CASE HubUnregister(c)
  <2>1. CloseConn(c) /\ reader[c] # "none" /\ reader' = [reader EXCEPT ![c] = "none"]
    BY <1>6 DEF HubUnregister, Leave
  <2>2. reader' \in [Conns -> Readers]
    BY <2>1 DEF HubInv, HubType, Readers
  <2>3. CASE c \in table
    <3>1. CloseSends({c}) /\ table' = table \ {c} /\ hub = "select" /\ hub' = hub
      BY <1>6, <2>3 DEF HubUnregister, Registered
    <3> QED
      BY <2>1, <2>2, <2>3, <3>1, CloseConnFacts, HubCloses DEF HubInv, HubType, AskingFree
  <2>4. CASE c \notin table
    <3>1. UNCHANGED <<table, sendOpen, closes, hub, greeted>>
      BY <1>6, <2>4 DEF HubUnregister, Registered
    <3> QED
      BY <2>1, <2>2, <3>1, CloseConnFacts, HubKept DEF HubInv, HubType, AskingFree
  <2> QED
    BY <2>3, <2>4
<1>7. CASE WriterNext(c)
  <2>1. link' = link \/ CloseConn(c)
    BY <1>7 DEF WriterNext, WriterWrites, WriterFails, WriterEnds
  <2>2. UNCHANGED <<table, sendOpen, closes, hub, greeted, reader>>
    BY <1>7 DEF WriterNext, WriterWrites, WriterFails, WriterEnds, hubVars, chanVars, pumpVars
  <2>3. link' \in [Conns -> Links] /\ \A d \in Conns : link'[d] = "asking" => link[d] = "asking"
    BY <2>1, CloseConnFacts DEF HubInv, HubType
  <2> QED
    BY <2>2, <2>3, HubKept DEF HubInv, HubType
<1> QED
  BY <1>1, <1>2, <1>3, <1>4, <1>5, <1>6, <1>7 DEF ClientNext, ReaderNext

\* What happens to the link elsewhere: in the browser, on the network, in a restart.
LEMMA OutsideStep ==
    ASSUME HubInv, BrowserNext \/ (\E c \in Conns : Drop(c)) \/ Restart
    PROVE  HubInv'
<1> USE DEF Set
<1>1. CASE Mount \/ TimerFires
  <2>1. Unused \in Conns /\ Free(Unused) /\ link' = [link EXCEPT ![Unused] = "asking"]
    BY <1>1, UnusedFree DEF Mount, TimerFires, Connect
  <2>2. UNCHANGED <<table, sendOpen, closes, hub, greeted, reader>>
    BY <1>1 DEF Mount, TimerFires, hubVars, chanVars, pumpVars
  <2>3. HubType'
    BY <2>1, <2>2 DEF HubInv, HubType, Links
  <2>4. AskingFree'
    BY <2>1, <2>2 DEF HubInv, HubType, AskingFree, Free
  <2>5. RegisteringOpen' /\ OpenUnclosed' /\ GreetedOpen' /\ ClosedOnce'
    BY <2>2 DEF HubInv, RegisteringOpen, OpenUnclosed, GreetedOpen, ClosedOnce
  <2> QED
    BY <2>3, <2>4, <2>5 DEF HubInv
<1>2. CASE Unmount
  BY <1>2, HubKept DEF Unmount, HubInv, HubType, hubVars, chanVars, pumpVars, netVars
<1>3. ASSUME NEW c \in Conns, SocketNext(c) \/ Drop(c) PROVE HubInv'
  <2>1. link' = link \/ link' = [link EXCEPT ![c] = "down"]
    BY <1>3 DEF SocketNext, OnOpen, OnMessage, OnClose, Drop, netVars
  <2>2. UNCHANGED <<table, sendOpen, closes, hub, greeted, reader>>
    BY <1>3 DEF SocketNext, OnOpen, OnMessage, OnClose, Drop, hubVars, chanVars, pumpVars
  <2>3. link' \in [Conns -> Links] /\ \A d \in Conns : link'[d] = "asking" => link[d] = "asking"
    BY <2>1 DEF HubInv, HubType, Links
  <2> QED
    BY <2>2, <2>3, HubKept DEF HubInv, HubType
<1>4. CASE Restart
  <2> USE <1>4 DEF Restart
  <2>1. HubType'
    BY DEF HubInv, HubType, Readers, Links
  <2>2. AskingFree' /\ RegisteringOpen' /\ OpenUnclosed'
    BY DEF AskingFree, RegisteringOpen, OpenUnclosed
  <2>3. GreetedOpen' /\ ClosedOnce'
    BY DEF GreetedOpen, ClosedOnce
  <2> QED
    BY <2>1, <2>2, <2>3 DEF HubInv
<1> QED
  BY <1>1, <1>2, <1>3, <1>4 DEF BrowserNext

\* Every step keeps the hub's invariant.
LEMMA HubAlways == HubInv /\ [Next]_vars => HubInv'
<1> SUFFICES ASSUME HubInv, [Next]_vars PROVE HubInv'
  OBVIOUS
<1>1. CASE HubNext
  BY <1>1, HubStep
<1>2. ASSUME NEW c \in Conns, ClientNext(c) PROVE HubInv'
  BY <1>2, ClientStep
<1>3. CASE BrowserNext \/ (\E c \in Conns : Drop(c)) \/ Restart
  BY <1>3, OutsideStep
<1>4. CASE UNCHANGED vars
  BY <1>4, HubKept DEF vars, HubInv, HubType, hubVars, chanVars, pumpVars, netVars
<1> QED
  BY <1>1, <1>2, <1>3, <1>4 DEF Next

\* The channel of a client is closed once, and neither a greeting nor a broadcast
\* finds it closed (Run, ServeWS and readPump of the hub): none of them panics.
THEOREM ClosedOnceCorrect == Spec => []ClosedOnce
<1>1. HubInv => ClosedOnce
  BY DEF HubInv
<1> QED
  BY <1>1, HubInit, HubAlways, PTL DEF Spec

-----------------------------------------------------------------------------
(* The provider keeps one socket or one timer. *)

\* A step that leaves the provider alone.
LEMMA PageKept ==
    ASSUME PageInv, UNCHANGED <<sock, page, first, timers, connected>>
    PROVE  PageInv'
BY DEF PageInv, PageType, BlankEmpty, NoneClosing, OneChain, BadgeTrue, Live, Mounted

\* A new socket is the only one, when there was none.
LEMMA ConnectFacts ==
    ASSUME PageType, Connect, Live = {}
    PROVE  /\ sock' \in [Conns -> {"none", "connecting", "open", "closing"}]
           /\ Live' = {Unused} /\ Unused \in Conns
           /\ \A c \in Conns : sock'[c] \in {"none", "connecting"}
<1>1. Unused \in Conns
  BY UnusedFree DEF Connect
<1>2. sock' = [sock EXCEPT ![Unused] = "connecting"]
  BY DEF Connect, Set
<1>3. \A c \in Conns : sock[c] = "none"
  BY DEF Live
<1> QED
  BY <1>1, <1>2, <1>3 DEF Live, PageType

\* Initially the provider is not mounted.
LEMMA PageInit == Init => PageInv
<1> SUFFICES ASSUME Init PROVE PageInv
  OBVIOUS
<1>1. /\ sock = [c \in Conns |-> "none"] /\ page = "blank" /\ first = NoConn /\ timers = 0
      /\ connected = FALSE
  BY DEF Init
<1>2. PageType /\ BlankEmpty
  BY <1>1 DEF PageType, BlankEmpty, Live
<1>3. NoneClosing /\ OneChain /\ BadgeTrue
  BY <1>1 DEF NoneClosing, OneChain, BadgeTrue, Mounted
<1> QED
  BY <1>2, <1>3 DEF PageInv

\* What the provider and the browser do.
LEMMA PageStep ==
    ASSUME PageInv, BrowserNext
    PROVE  PageInv'
<1> USE DEF PageInv
<1>1. CASE Mount \/ TimerFires
  <2>1. Live = {} /\ connected = FALSE /\ connected' = connected
    BY <1>1 DEF Mount, TimerFires, PageType, BlankEmpty, OneChain, BadgeTrue, Live, Mounted
  <2>2. Connect
    BY <1>1 DEF Mount, TimerFires
  <2>3. page' = "mounted" /\ timers' = 0 /\ first' \in Conns \cup {NoConn}
    BY <1>1, <2>1, <2>2, ConnectFacts DEF Mount, TimerFires, PageType, BlankEmpty, OneChain, Mounted
  <2> QED
    BY <2>1, <2>2, <2>3, ConnectFacts DEF PageType, BlankEmpty, NoneClosing, OneChain, BadgeTrue,
       Mounted
<1>2. CASE Unmount
  <2>1. timers' = 0 /\ page' = "unmounted"
    BY <1>2 DEF Unmount, PageType, OneChain, Mounted
  <2>2. sock' \in [Conns -> {"none", "connecting", "open", "closing"}]
    BY <1>2 DEF Unmount, PageType, Set
  <2>3. UNCHANGED <<first, connected>>
    BY <1>2 DEF Unmount
  <2> QED
    BY <2>1, <2>2, <2>3 DEF PageType, BlankEmpty, NoneClosing, OneChain, BadgeTrue, Mounted
<1>3. ASSUME NEW c \in Conns, OnOpen(c) PROVE PageInv'
  <2>1. c \in Live /\ page # "blank" /\ sock' = [sock EXCEPT ![c] = "open"]
    BY <1>3 DEF OnOpen, Set, Live, BlankEmpty
  <2>2. Live' = Live
    BY <2>1 DEF Live, PageType
  <2>3. UNCHANGED <<page, first, timers>> /\ connected' = (connected \/ Mounted)
    BY <1>3 DEF OnOpen
  <2>4. PageType' /\ BlankEmpty' /\ OneChain'
    BY <2>1, <2>2, <2>3 DEF PageType, BlankEmpty, OneChain, Mounted
  <2>5. NoneClosing' /\ BadgeTrue'
    BY <2>1, <2>3 DEF PageType, NoneClosing, BadgeTrue, Mounted
  <2> QED
    BY <2>4, <2>5
<1>4. ASSUME NEW c \in Conns, OnMessage(c) PROVE PageInv'
  BY <1>4, PageKept DEF OnMessage
<1>5. ASSUME NEW c \in Conns, OnClose(c) PROVE PageInv'
  <2>1. c \in Live /\ page # "blank" /\ sock' = [sock EXCEPT ![c] = "none"]
    BY <1>5 DEF OnClose, Ended, Set, Live, BlankEmpty
  <2>2. Live' = Live \ {c}
    BY <2>1 DEF Live, PageType
  <2>3. /\ page' = page /\ first' \in Conns \cup {NoConn}
        /\ timers' = IF Mounted THEN timers + 1 ELSE timers
        /\ connected' = IF Mounted THEN FALSE ELSE connected
    BY <1>5 DEF OnClose, Delays, StillConnected, PageType
  <2>4. PageType'
    <3>1. sock' \in [Conns -> {"none", "connecting", "open", "closing"}]
      BY <2>1 DEF PageType
    <3>2. connected' \in BOOLEAN
      BY <2>3 DEF PageType
    <3>3. timers' \in Nat
      BY <2>3 DEF PageType
    <3>4. page' \in {"blank", "mounted", "unmounted"} /\ first' \in Conns \cup {NoConn}
      BY <2>3 DEF PageType
    <3> QED
      BY <3>1, <3>2, <3>3, <3>4 DEF PageType
  <2>5. BlankEmpty' /\ NoneClosing'
    BY <2>1, <2>3 DEF PageType, BlankEmpty, NoneClosing, Mounted
  <2>6. CASE Mounted
    <3>1. timers' = 1 /\ Live' = {}
      BY <2>1, <2>2, <2>3, <2>6 DEF OneChain
    <3> QED
      BY <2>3, <2>4, <2>5, <2>6, <3>1 DEF OneChain, BadgeTrue, Live, Mounted
  <2>7. CASE ~Mounted
    BY <2>3, <2>4, <2>5, <2>7 DEF OneChain, BadgeTrue, Mounted
  <2> QED
    BY <2>6, <2>7
<1> QED
  BY <1>1, <1>2, <1>3, <1>4, <1>5 DEF BrowserNext, SocketNext

\* Every step keeps the provider's invariant.
LEMMA PageAlways == PageInv /\ [Next]_vars => PageInv'
<1> SUFFICES ASSUME PageInv, [Next]_vars PROVE PageInv'
  OBVIOUS
<1>1. CASE HubNext
  BY <1>1, PageKept DEF HubNext, HubGreet, HubBroadcast, HubTick, HubDone, Close, uiVars
<1>2. ASSUME NEW c \in Conns, ClientNext(c) PROVE PageInv'
  <2>1. UNCHANGED uiVars
    BY <1>2 DEF ClientNext, ReaderNext, WriterNext, ServeRefuse, ServeAccept, HubRegister,
       ServeDone, ReadFails, HubUnregister, LeaveDone, WriterWrites, WriterFails, WriterEnds
  <2> QED
    BY <2>1, PageKept DEF uiVars
<1>3. CASE BrowserNext
  BY <1>3, PageStep
<1>4. CASE (\E c \in Conns : Drop(c)) \/ Restart \/ UNCHANGED vars
  BY <1>4, PageKept DEF Drop, Restart, vars, uiVars
<1> QED
  BY <1>1, <1>2, <1>3, <1>4 DEF Next

\* A mounted provider has one socket or one reconnect timer, an unmounted one never
\* connects again, and the header's badge is true (connect and its effect).
THEOREM OneConnectionCorrect == Spec => []OneConnection
<1>1. PageInv => OneConnection
  BY DEF PageInv, OneConnection
<1> QED
  BY <1>1, PageInit, PageAlways, PTL DEF Spec

-----------------------------------------------------------------------------
(* Types: what the two invariants leave, above all the queues. *)

HubData ==
    /\ hub \in {"select", "greeting", "stopped"}
    /\ greeted \in Conns \cup {NoConn} /\ left \in Seq(KindSet)
    /\ hub = "greeting" => greeted \in Conns /\ left # <<>>
    /\ broadcast \in Seq(KindSet) /\ Len(broadcast) <= BroadcastCap

SendData == send \in [Conns -> Seq(KindSet)] /\ \A c \in Conns : Len(send[c]) <= SendCap

WireData == wire \in [Conns -> Seq(Seq(KindSet))]

PlainData ==
    /\ secret \in BOOLEAN /\ done \in BOOLEAN
    /\ writer \in [Conns -> {"none", "running"}]
    /\ live \subseteq KindSet
    /\ faults \in 0..MaxFaults

DataInv == HubData /\ SendData /\ WireData /\ PlainData

\* The assumptions on the numbers alone.
LEMMA Bounds == SendCap \in Nat /\ BroadcastCap \in Nat /\ WireCap \in Nat /\ MaxFaults \in Nat
BY LiveAssumption

\* The kinds are a sequence of kinds, and not empty.
LEMMA KindsType == Kinds \in Seq(KindSet) /\ Kinds # <<>> /\ Len(Kinds) \in Nat
<1>1. Len(Kinds) \in Nat /\ Kinds = SubSeq(Kinds, 1, Len(Kinds))
  BY LiveAssumption, LenProperties, SubSeqFull
<1>2. \A i \in 1..Len(Kinds) : Kinds[i] \in KindSet
  BY DEF KindSet
<1>3. SubSeq(Kinds, 1, Len(Kinds)) \in Seq(KindSet)
  BY <1>1, <1>2, SubSeqProperties
<1>4. Kinds # <<>>
  BY LiveAssumption
<1> QED
  BY <1>1, <1>3, <1>4

\* The first members of a sequence, and those after them.
LEMMA PartTypes ==
    ASSUME NEW S, NEW s \in Seq(S), NEW n \in 0..Len(s)
    PROVE  /\ SubSeq(s, 1, n) \in Seq(S) /\ Len(SubSeq(s, 1, n)) = n
           /\ SubSeq(s, n + 1, Len(s)) \in Seq(S) /\ Len(SubSeq(s, n + 1, Len(s))) = Len(s) - n
<1>1. Len(s) \in Nat /\ n \in Nat /\ n <= Len(s)
  BY LenProperties
<1>2. \A i \in 1..Len(s) : s[i] \in S
  BY ElementOfSeq
<1>3. \A i \in 1..n : s[i] \in S
  BY <1>1, <1>2
<1>4. SubSeq(s, 1, n) \in Seq(S) /\ Len(SubSeq(s, 1, n)) = IF 1 <= n THEN n - 1 + 1 ELSE 0
  BY <1>1, <1>3, SubSeqProperties
<1>5. \A i \in (n + 1)..Len(s) : s[i] \in S
  BY <1>1, <1>2
<1>6. /\ SubSeq(s, n + 1, Len(s)) \in Seq(S)
      /\ Len(SubSeq(s, n + 1, Len(s))) = IF n + 1 <= Len(s) THEN Len(s) - (n + 1) + 1 ELSE 0
  BY <1>1, <1>5, SubSeqProperties
<1> QED
  BY <1>1, <1>4, <1>6

\* A queue that has room takes a message.
LEMMA OfferType ==
    ASSUME NEW s \in Seq(KindSet), NEW k \in KindSet, Len(s) < SendCap
    PROVE  Append(s, k) \in Seq(KindSet) /\ Len(Append(s, k)) <= SendCap
<1>1. Len(s) \in Nat /\ Append(s, k) \in Seq(KindSet) /\ Len(Append(s, k)) = Len(s) + 1
  OBVIOUS
<1> QED
  BY <1>1, Bounds

\* An empty queue is within every bound.
LEMMA EmptyQueue == <<>> \in Seq(KindSet) /\ Len(<<>>) <= SendCap /\ <<>> \in Seq(Seq(KindSet))
BY EmptySeq, Bounds

\* Initially every queue is empty.
LEMMA DataInit == Init => DataInv
<1> SUFFICES ASSUME Init PROVE DataInv
  OBVIOUS
<1> USE Bounds DEF Init
<1>1. HubData
  BY EmptySeq DEF HubData
<1>2. SendData /\ WireData
  BY EmptyQueue DEF SendData, WireData
<1>3. PlainData
  <2>1. 0 \in 0..MaxFaults
    BY Bounds
  <2>2. writer \in [Conns -> {"none", "running"}]
    OBVIOUS
  <2> QED
    BY <2>1, <2>2 DEF PlainData
<1> QED
  BY <1>1, <1>2, <1>3 DEF DataInv

\* A step that leaves the queues alone.
LEMMA QueuesKept ==
    ASSUME DataInv, UNCHANGED <<hubVars, send, wire>>, PlainData'
    PROVE  DataInv'
BY DEF DataInv, HubData, SendData, WireData, hubVars

\* A step that changes one channel.
LEMMA SendChanges ==
    ASSUME DataInv, NEW c \in Conns, NEW s \in Seq(KindSet), Len(s) <= SendCap,
           send' = [send EXCEPT ![c] = s]
    PROVE  SendData'
BY DEF DataInv, SendData

\* What the hub does.
LEMMA HubDataStep ==
    ASSUME DataInv, HubInv, HubNext
    PROVE  DataInv'
<1> USE DEF DataInv
<1>1. CASE HubGreet
  <2>1. hub = "greeting" /\ greeted \in Conns /\ left \in Seq(KindSet) /\ left # <<>>
    BY <1>1 DEF HubGreet, HubData
  <2>2. Head(left) \in KindSet /\ Tail(left) \in Seq(KindSet)
    BY <2>1, HeadTailProperties
  <2>3. HubData'
    BY <1>1, <2>1, <2>2 DEF HubGreet, HubData
  <2>4. SendData'
    <3>1. CASE Len(send[greeted]) < SendCap
      <4>1. send[greeted] \in Seq(KindSet)
        BY <2>1 DEF SendData
      <4>2. send' = [send EXCEPT ![greeted] = Append(send[greeted], Head(left))]
        BY <1>1, <3>1 DEF HubGreet
      <4> QED
        BY <2>1, <2>2, <3>1, <4>1, <4>2, OfferType, SendChanges
    <3>2. CASE ~(Len(send[greeted]) < SendCap)
      BY <1>1, <3>2 DEF HubGreet, SendData
    <3> QED
      BY <3>1, <3>2
  <2>5. WireData' /\ PlainData'
    BY <1>1 DEF HubGreet, WireData, PlainData, serverVars, pumpVars, netVars, uiVars
  <2> QED
    BY <2>3, <2>4, <2>5
<1>2. CASE HubBroadcast
  <2>1. broadcast \in Seq(KindSet) /\ broadcast # <<>> /\ Len(broadcast) <= BroadcastCap
    BY <1>2 DEF HubBroadcast, HubData
  <2>2. /\ Head(broadcast) \in KindSet /\ Tail(broadcast) \in Seq(KindSet)
        /\ Len(Tail(broadcast)) = Len(broadcast) - 1 /\ Len(broadcast) \in Nat
    BY <2>1, HeadTailProperties, LenProperties
  <2>3. Len(Tail(broadcast)) <= BroadcastCap
    BY <2>1, <2>2, Bounds
  <2>4. HubData'
    BY <1>2, <2>2, <2>3 DEF HubBroadcast, HubData
  <2>5. ASSUME NEW c \in Conns
        PROVE  send'[c] \in Seq(KindSet) /\ Len(send'[c]) <= SendCap
    <3>1. send[c] \in Seq(KindSet) /\ Len(send[c]) <= SendCap /\ Len(send[c]) \in Nat
      BY LenProperties DEF SendData
    <3>2. CASE c \in table \ Slow
      <4>1. Len(send[c]) < SendCap
        BY <3>1, <3>2, Bounds DEF Slow
      <4>2. send'[c] = Append(send[c], Head(broadcast))
        BY <1>2, <3>2 DEF HubBroadcast
      <4> QED
        BY <2>2, <3>1, <4>1, <4>2, OfferType
    <3>3. CASE c \notin table \ Slow
      BY <1>2, <3>1, <3>3 DEF HubBroadcast
    <3> QED
      BY <3>2, <3>3
  <2>6. SendData'
    <3>1. send' = [c \in Conns |-> send'[c]]
      BY <1>2 DEF HubBroadcast
    <3> QED
      BY <2>5, <3>1 DEF SendData
  <2>7. WireData' /\ PlainData'
    BY <1>2 DEF HubBroadcast, WireData, PlainData, serverVars, pumpVars, netVars, uiVars
  <2> QED
    BY <2>4, <2>6, <2>7
<1>3. CASE HubTick
  <2> DEFINE room == BroadcastCap - Len(broadcast)
             n == IF Len(Kinds) < room THEN Len(Kinds) ELSE room
  <2>1. broadcast \in Seq(KindSet) /\ Len(broadcast) \in Nat /\ Len(broadcast) <= BroadcastCap
    BY LenProperties DEF HubData
  <2>2. n \in 0..Len(Kinds) /\ n <= room
    BY <2>1, KindsType, Bounds
  <2>3. SubSeq(Kinds, 1, n) \in Seq(KindSet) /\ Len(SubSeq(Kinds, 1, n)) = n
    BY <2>2, KindsType, PartTypes
  <2>4. broadcast' = broadcast \o SubSeq(Kinds, 1, n)
    BY <1>3 DEF HubTick
  <2>5. broadcast' \in Seq(KindSet) /\ Len(broadcast') = Len(broadcast) + n
    BY <2>1, <2>3, <2>4, ConcatProperties
  <2>6. Len(broadcast') <= BroadcastCap
    BY <2>1, <2>2, <2>5, KindsType, Bounds
  <2>7. HubData'
    BY <1>3, <2>5, <2>6 DEF HubTick, HubData
  <2>8. SendData' /\ WireData' /\ PlainData'
    BY <1>3 DEF HubTick, SendData, WireData, PlainData, serverVars, chanVars, pumpVars, netVars,
       uiVars
  <2> QED
    BY <2>7, <2>8
<1>4. CASE HubDone
  <2>1. HubData' /\ SendData'
    BY <1>4 DEF HubDone, HubData, SendData
  <2>2. WireData' /\ PlainData'
    BY <1>4 DEF HubDone, WireData, PlainData, serverVars, pumpVars, netVars, uiVars
  <2> QED
    BY <2>1, <2>2
<1>5. CASE Close
  <2>1. UNCHANGED <<hubVars, send, wire>>
    BY <1>5 DEF Close, chanVars, netVars
  <2>2. PlainData'
    BY <1>5 DEF Close, PlainData, pumpVars, uiVars
  <2> QED
    BY <2>1, <2>2, QueuesKept
<1> QED
  BY <1>1, <1>2, <1>3, <1>4, <1>5 DEF HubNext

\* What the handler of a connection and its two goroutines do.
LEMMA ClientDataStep ==
    ASSUME DataInv, HubInv, NEW c \in Conns, ClientNext(c)
    PROVE  DataInv'
<1> USE DEF DataInv, Set
<1>1. CASE ServeRefuse(c) \/ ServeDone(c) \/ ReadFails(c) \/ WriterFails(c) \/ WriterEnds(c)
  <2>1. UNCHANGED <<hubVars, send, wire, serverVars, live, faults>>
    BY <1>1 DEF ServeRefuse, ServeDone, ReadFails, WriterFails, WriterEnds, chanVars, netVars, uiVars
  <2>2. writer' = writer \/ writer' = [writer EXCEPT ![c] = "none"]
    BY <1>1 DEF ServeRefuse, ServeDone, ReadFails, WriterFails, WriterEnds, pumpVars
  <2>3. writer' \in [Conns -> {"none", "running"}]
    BY <2>2 DEF PlainData
  <2>4. PlainData'
    BY <2>1, <2>3 DEF PlainData, serverVars
  <2> QED
    BY <2>1, <2>4, QueuesKept
<1>2. CASE ServeAccept(c) \/ LeaveDone(c) \/ HubUnregister(c)
  <2>1. send' = [send EXCEPT ![c] = <<>>]
    BY <1>2 DEF ServeAccept, LeaveDone, HubUnregister, Leave
  <2>2. SendData'
    BY <2>1, EmptyQueue, SendChanges
  <2>3. UNCHANGED <<hub, greeted, left, broadcast, wire, writer, secret, done, live, faults>>
    BY <1>2 DEF ServeAccept, LeaveDone, HubUnregister, Leave, hubVars, serverVars, netVars, uiVars
  <2> QED
    BY <2>2, <2>3 DEF HubData, WireData, PlainData
<1>3. CASE HubRegister(c)
  <2>1. HubData'
    BY <1>3, KindsType DEF HubRegister, HubData
  <2>2. writer' \in [Conns -> {"none", "running"}]
    BY <1>3 DEF HubRegister, PlainData
  <2>3. UNCHANGED <<send, wire, secret, done, live, faults>>
    BY <1>3 DEF HubRegister, chanVars, netVars, serverVars, uiVars
  <2> QED
    BY <2>1, <2>2, <2>3 DEF SendData, WireData, PlainData
<1>4. CASE WriterWrites(c)
  <2>1. send[c] \in Seq(KindSet) /\ Len(send[c]) \in Nat /\ Len(send[c]) <= SendCap
    BY LenProperties DEF SendData
  <2> DEFINE n == Queued(c)
  <2>2. n \in 0..Len(send[c])
    BY <2>1 DEF Queued
  <2>3. SubSeq(send[c], 1, n) \in Seq(KindSet)
    BY <2>1, <2>2, PartTypes
  <2>4. /\ SubSeq(send[c], n + 1, Len(send[c])) \in Seq(KindSet)
        /\ Len(SubSeq(send[c], n + 1, Len(send[c]))) <= SendCap
    BY <2>1, <2>2, PartTypes, Bounds
  <2>5. /\ wire' = [wire EXCEPT ![c] = Append(wire[c], SubSeq(send[c], 1, n))]
        /\ send' = [send EXCEPT ![c] = SubSeq(send[c], n + 1, Len(send[c]))]
    BY <1>4 DEF WriterWrites
  <2> HIDE DEF n
  <2>6. SendData'
    BY <2>4, <2>5, SendChanges
  <2>7. Append(wire[c], SubSeq(send[c], 1, n)) \in Seq(Seq(KindSet))
    BY <2>3 DEF WireData
  <2>8. WireData'
    BY <2>5, <2>7 DEF WireData
  <2>9. HubData' /\ PlainData'
    BY <1>4 DEF WriterWrites, HubData, PlainData, hubVars, serverVars, pumpVars, uiVars
  <2> QED
    BY <2>6, <2>8, <2>9
<1> QED
  BY <1>1, <1>2, <1>3, <1>4 DEF ClientNext, ReaderNext, WriterNext

\* What the provider, the browser and the network do, and a restart.
LEMMA OutsideDataStep ==
    ASSUME DataInv, BrowserNext \/ (\E c \in Conns : Drop(c)) \/ Restart
    PROVE  DataInv'
<1> USE DEF DataInv, Set
<1>1. CASE Mount \/ TimerFires
  <2>1. wire' = [wire EXCEPT ![Unused] = <<>>]
    BY <1>1 DEF Mount, TimerFires, Connect
  <2>2. WireData'
    BY <2>1, EmptyQueue DEF WireData
  <2>3. UNCHANGED <<hubVars, send, writer, serverVars, live, faults>>
    BY <1>1 DEF Mount, TimerFires, chanVars, pumpVars
  <2> QED
    BY <2>2, <2>3 DEF HubData, SendData, PlainData, hubVars, serverVars
<1>2. CASE Unmount
  <2>1. UNCHANGED <<hubVars, send, wire, writer, serverVars, live, faults>>
    BY <1>2 DEF Unmount, chanVars, pumpVars, netVars
  <2> QED
    BY <2>1, QueuesKept DEF PlainData, serverVars
<1>3. ASSUME NEW c \in Conns, OnOpen(c) PROVE DataInv'
  <2>1. UNCHANGED <<hubVars, send, wire, writer, serverVars, live, faults>>
    BY <1>3 DEF OnOpen, chanVars, pumpVars, netVars
  <2> QED
    BY <2>1, QueuesKept DEF PlainData, serverVars
<1>4. ASSUME NEW c \in Conns, OnMessage(c) PROVE DataInv'
  <2>1. wire[c] \in Seq(Seq(KindSet)) /\ wire[c] # <<>>
    BY <1>4 DEF OnMessage, WireData
  <2>2. Head(wire[c]) \in Seq(KindSet) /\ Tail(wire[c]) \in Seq(Seq(KindSet))
    BY <2>1, HeadTailProperties
  <2>3. WireData'
    BY <1>4, <2>2 DEF OnMessage, WireData
  <2>4. ASSUME Len(Head(wire[c])) = 1 PROVE Head(wire[c])[1] \in KindSet
    BY <2>2, <2>4, ElementOfSeq
  <2>5. Parsed(Head(wire[c])) \subseteq KindSet
    BY <2>4 DEF Parsed
  <2>6. UNCHANGED <<hubVars, send, writer, serverVars, faults>>
    BY <1>4 DEF OnMessage, chanVars, pumpVars
  <2>7. live' \subseteq KindSet
    BY <1>4, <2>5 DEF OnMessage, PlainData
  <2> QED
    BY <2>3, <2>6, <2>7 DEF HubData, SendData, PlainData, hubVars, serverVars
<1>5. ASSUME NEW c \in Conns, OnClose(c) \/ Drop(c) PROVE DataInv'
  <2>1. wire' = [wire EXCEPT ![c] = <<>>]
    BY <1>5 DEF OnClose, Drop
  <2>2. WireData'
    BY <2>1, EmptyQueue DEF WireData
  <2>3. UNCHANGED <<hubVars, send, writer, serverVars, live>>
    BY <1>5 DEF OnClose, Drop, chanVars, pumpVars, uiVars
  <2>4. faults' \in 0..MaxFaults
    BY <1>5, Bounds DEF OnClose, Drop, PlainData
  <2> QED
    BY <2>2, <2>3, <2>4 DEF HubData, SendData, PlainData, hubVars, serverVars
<1>6. CASE Restart
  <2>1. HubData'
    BY <1>6, EmptySeq, Bounds DEF Restart, HubData
  <2>2. SendData' /\ WireData'
    BY <1>6, EmptyQueue DEF Restart, SendData, WireData
  <2>3. PlainData'
    <3>1. faults' \in 0..MaxFaults
      BY <1>6, Bounds DEF Restart, PlainData
    <3>2. writer' \in [Conns -> {"none", "running"}]
      BY <1>6 DEF Restart
    <3>3. UNCHANGED <<secret, live>> /\ done' = FALSE
      BY <1>6 DEF Restart, uiVars
    <3> QED
      BY <3>1, <3>2, <3>3 DEF PlainData
  <2> QED
    BY <2>1, <2>2, <2>3
<1> QED
  BY <1>1, <1>2, <1>3, <1>4, <1>5, <1>6 DEF BrowserNext, SocketNext

\* Everything has its type, and no queue between the hub and the browser holds more
\* than its capacity (Client.send, Hub.broadcast).
THEOREM TypeCorrect == Spec => []TypeOK
<1>1. DataInv /\ HubInv /\ [Next]_vars => DataInv'
  <2> SUFFICES ASSUME DataInv, HubInv, [Next]_vars PROVE DataInv'
    OBVIOUS
  <2>1. CASE HubNext
    BY <2>1, HubDataStep
  <2>2. ASSUME NEW c \in Conns, ClientNext(c) PROVE DataInv'
    BY <2>2, ClientDataStep
  <2>3. CASE BrowserNext \/ (\E c \in Conns : Drop(c)) \/ Restart
    BY <2>3, OutsideDataStep
  <2>4. CASE UNCHANGED vars
    <3>1. UNCHANGED <<hubVars, send, wire, writer, serverVars, live, faults>>
      BY <2>4 DEF vars, chanVars, pumpVars, netVars, uiVars
    <3> QED
      BY <3>1, QueuesKept DEF DataInv, PlainData, serverVars
  <2> QED
    BY <2>1, <2>2, <2>3, <2>4 DEF Next
<1>2. DataInv /\ HubInv /\ PageInv => TypeOK
  <2> SUFFICES ASSUME DataInv, HubInv, PageInv PROVE TypeOK
    OBVIOUS
  <2>1. /\ hub \in {"select", "greeting", "stopped"}
        /\ greeted \in Conns \cup {NoConn} /\ left \in Seq(KindSet)
        /\ broadcast \in Seq(KindSet) /\ Len(broadcast) <= BroadcastCap
    BY DEF DataInv, HubData
  <2>2. SendData /\ WireData /\ PlainData
    BY DEF DataInv
  <2>3. HubType /\ PageType
    BY DEF HubInv, PageInv
  <2> QED
    BY <2>1, <2>2, <2>3 DEF SendData, WireData, PlainData, HubType, PageType, Readers, TypeOK
<1> QED
  BY <1>1, <1>2, HubInit, HubAlways, PageInit, PageAlways, DataInit, PTL DEF Spec
=============================================================================
