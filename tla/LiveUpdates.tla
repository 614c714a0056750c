---------------------------- MODULE LiveUpdates -----------------------------
(***************************************************************************)
(* The live updates of the web UI: the hub of the coordinator, which keeps *)
(* a table of WebSocket clients and pushes the state to them               *)
(* (internal/coordinator/websocket.go), and the provider in the browser,   *)
(* which opens the socket, applies what it receives and reconnects         *)
(* (web/src/lib/websocket.tsx).                                            *)
(*                                                                         *)
(* A connection stands for the two ends of one socket: sock is the         *)
(* browser's, reader and writer are the goroutines of the Client, link is  *)
(* what lies between.  A member of Conns is used again when nothing is     *)
(* left of its last use.  A message is its kind; a frame is the sequence    *)
(* of the messages the writer put into it.                                 *)
(***************************************************************************)
EXTENDS Integers, Sequences

CONSTANTS
    Conns,          \* connections
    Kinds,          \* the kinds of message, in the order they are sent
    SendCap,        \* capacity of Client.send (256)
    BroadcastCap,   \* capacity of Hub.broadcast (64)
    WireCap,        \* bound: frames between the two ends
    MaxFaults       \* bound: connections lost and restarts of the coordinator

ASSUME LiveAssumption ==
    /\ Kinds \in Seq(STRING) /\ Kinds # <<>>
    /\ SendCap \in Nat
    /\ BroadcastCap \in Nat
    /\ WireCap \in Nat
    /\ MaxFaults \in Nat
    /\ "no connection" \notin Conns

VARIABLES
    secret,         \* an admin secret is configured
    done,           \* Hub.done is closed
    hub,            \* the hub's goroutine: "select", "greeting" or "stopped"
    greeted, left,  \* sendInitialState: to whom, and the kinds still to be sent
    table,          \* Hub.clients
    broadcast,      \* Hub.broadcast
    reader, writer, \* per connection: the step of the goroutine
    send, sendOpen, closes, \* per connection: Client.send, whether it is open, closings
    link, wire,     \* per connection: how it stands, and the frames on it
    sock,           \* per connection: the browser's end
    page,           \* the provider: "blank", "mounted" or "unmounted"
    first,          \* the socket the effect's cleanup knows
    timers,         \* reconnect timers that have not fired
    connected,      \* the provider's state, which the header's badge shows
    live,           \* the kinds the store has been given
    faults          \* bounded: faults

serverVars == <<secret, done>>
hubVars == <<hub, greeted, left, table, broadcast>>
chanVars == <<send, sendOpen, closes>>
pumpVars == <<reader, writer>>
netVars == <<link, wire>>
uiVars == <<sock, page, first, timers, connected, live>>
vars == <<serverVars, hubVars, chanVars, pumpVars, netVars, uiVars, faults>>

KindSet == {Kinds[i] : i \in 1..Len(Kinds)}

\* A request that waits for its answer, a connection that stands, one the
\* coordinator has closed (what it wrote still arrives), one that is lost.
Links == {"asking", "up", "closed", "down"}

\* No connection: the cleanup's null, and a hub that greets nobody.
NoConn == "no connection"

Init ==
    /\ secret \in BOOLEAN /\ done = FALSE
    /\ hub = "select" /\ greeted = NoConn /\ left = <<>>
    /\ table = {} /\ broadcast = <<>>
    /\ reader = [c \in Conns |-> "none"]
    /\ writer = [c \in Conns |-> "none"]
    /\ send = [c \in Conns |-> <<>>]
    /\ sendOpen = [c \in Conns |-> FALSE]
    /\ closes = [c \in Conns |-> 0]
    /\ link = [c \in Conns |-> "down"]
    /\ wire = [c \in Conns |-> <<>>]
    /\ sock = [c \in Conns |-> "none"]
    /\ page = "blank" /\ first = NoConn /\ timers = 0
    /\ connected = FALSE
    /\ live = {}
    /\ faults = 0

Set(f, c, v) == [f EXCEPT ![c] = v]

\* Nothing is left of the connection's last use.
Free(c) ==
    /\ sock[c] = "none"
    /\ reader[c] = "none"
    /\ writer[c] = "none"
    /\ c \notin table

-----------------------------------------------------------------------------
(* The handler of /ws and the two goroutines of a client. *)

\* The secret is asked for before the upgrade, and the UI sends no token; a
\* server that is shutting down no longer listens.
ServeRefuse(c) ==
    /\ link[c] = "asking"
    /\ secret \/ done
    /\ link' = Set(link, c, "down")
    /\ UNCHANGED <<serverVars, hubVars, chanVars, pumpVars, wire, uiVars, faults>>

\* The upgrade, and a new Client with an empty channel.
ServeAccept(c) ==
    /\ link[c] = "asking"
    /\ ~secret
    /\ link' = Set(link, c, "up")
    /\ reader' = Set(reader, c, "registering")
    /\ send' = Set(send, c, <<>>)
    /\ sendOpen' = Set(sendOpen, c, TRUE)
    /\ closes' = Set(closes, c, 0)
    /\ UNCHANGED <<serverVars, hubVars, writer, wire, uiVars, faults>>

\* MUTANT of CloseConn: the writer that ends leaves the connection to the reader.
CloseConnNever(c) == UNCHANGED link

\* conn.Close: the other end still gets what was written.
CloseConn(c) == link' = Set(link, c, IF link[c] = "up" THEN "closed" ELSE link[c])

\* The hub is shutting down: the handler closes the connection.
ServeDone(c) ==
    /\ reader[c] = "registering"
    /\ done
    /\ reader' = Set(reader, c, "none")
    /\ CloseConn(c)
    /\ UNCHANGED <<serverVars, hubVars, chanVars, writer, wire, uiVars, faults>>

\* ReadMessage fails when either end has closed, or after 60 s without a pong.
ReadFails(c) ==
    /\ reader[c] = "reading"
    /\ link[c] # "up"
    /\ reader' = Set(reader, c, "leaving")
    /\ UNCHANGED <<serverVars, hubVars, chanVars, writer, netVars, uiVars, faults>>

\* readPump ends.  The connection was closed before: what the channel holds can
\* no longer be written, and is forgotten.
Leave(c) ==
    /\ reader' = Set(reader, c, "none")
    /\ send' = Set(send, c, <<>>)
    /\ CloseConn(c)

\* The deferred function of readPump, when the hub has gone.
LeaveDone(c) ==
    /\ reader[c] = "leaving"
    /\ done
    /\ Leave(c)
    /\ UNCHANGED <<serverVars, hubVars, sendOpen, closes, writer, wire, uiVars, faults>>

\* How many of the queued messages go into one frame: all there are.
Queued(c) == Len(send[c])

\* writePump takes a message, and those that are queued by then, into a frame.
WriterWrites(c) ==
    /\ writer[c] = "running"
    /\ send[c] # <<>>
    /\ link[c] = "up"
    /\ Len(wire[c]) < WireCap
    /\ LET n == Queued(c)
       IN  /\ wire' = Set(wire, c, Append(wire[c], SubSeq(send[c], 1, n)))
           /\ send' = Set(send, c, SubSeq(send[c], n + 1, Len(send[c])))
    /\ UNCHANGED <<serverVars, hubVars, sendOpen, closes, pumpVars, link, uiVars, faults>>

\* A frame or a ping cannot be written: closed, lost, or 10 s without progress.
WriterFails(c) ==
    /\ writer[c] # "none"
    /\ \/ link[c] # "up"
       \/ send[c] # <<>> /\ Len(wire[c]) >= WireCap
    /\ writer' = Set(writer, c, "none")
    /\ CloseConn(c)
    /\ UNCHANGED <<serverVars, hubVars, chanVars, reader, wire, uiVars, faults>>

\* The channel is closed and drained: a close frame, and the connection is closed.
WriterEnds(c) ==
    /\ writer[c] = "running"
    /\ send[c] = <<>>
    /\ ~sendOpen[c]
    /\ writer' = Set(writer, c, "none")
    /\ CloseConn(c)
    /\ UNCHANGED <<serverVars, hubVars, chanVars, reader, wire, uiVars, faults>>

-----------------------------------------------------------------------------
(* The hub's goroutine: one case of its select at a time. *)

\* A registration is received, and the client's goroutines are started.
HubRegister(c) ==
    /\ hub = "select"
    /\ reader[c] = "registering"
    /\ table' = table \cup {c}
    /\ reader' = Set(reader, c, "reading")
    /\ writer' = Set(writer, c, "running")
    /\ hub' = "greeting" /\ greeted' = c /\ left' = Kinds
    /\ UNCHANGED <<serverVars, broadcast, chanVars, netVars, uiVars, faults>>

\* close(client.send) of the clients of a set.
CloseSends(cs) ==
    /\ sendOpen' = [c \in Conns |-> sendOpen[c] /\ c \notin cs]
    /\ closes' = [c \in Conns |-> IF c \in cs THEN closes[c] + 1 ELSE closes[c]]

\* sendInitialState offers the client one message of each kind, and returns.
HubGreet ==
    /\ hub = "greeting"
    /\ send' = IF Len(send[greeted]) < SendCap
               THEN [send EXCEPT ![greeted] = Append(@, Head(left))]
               ELSE send
    /\ left' = Tail(left)
    /\ IF Tail(left) = <<>> THEN hub' = "select" /\ greeted' = NoConn
                            ELSE UNCHANGED <<hub, greeted>>
    /\ UNCHANGED <<serverVars, table, broadcast, sendOpen, closes,
                   pumpVars, netVars, uiVars, faults>>

Registered(c) == c \in table

\* A reader takes its leave, the hub receives it, and the connection is closed.
HubUnregister(c) ==
    /\ hub = "select"
    /\ reader[c] = "leaving"
    /\ table' = table \ {c}
    /\ IF Registered(c) THEN CloseSends({c}) ELSE UNCHANGED <<sendOpen, closes>>
    /\ Leave(c)
    /\ UNCHANGED <<serverVars, hub, greeted, left, broadcast, writer,
                   wire, uiVars, faults>>

\* The clients whose channel is full.
Slow == {c \in table : Len(send[c]) >= SendCap}

\* MUTANT of Dropped: a slow client stays in the table with its channel closed.
DroppedNone == {}

\* The clients that leave the table because they are slow.
Dropped == Slow

\* A message is offered to every client; the slow ones are closed.
HubBroadcast ==
    /\ hub = "select"
    /\ broadcast # <<>>
    /\ broadcast' = Tail(broadcast)
    /\ send' = [c \in Conns |-> IF c \in table \ Slow THEN Append(send[c], Head(broadcast))
                               ELSE send[c]]
    /\ CloseSends(Slow)
    /\ table' = table \ Dropped
    /\ UNCHANGED <<serverVars, hub, greeted, left, pumpVars, netVars, uiVars, faults>>

\* broadcastUpdate: the hub, the only receiver of its channel, fills it up.
HubTick ==
    /\ hub = "select"
    /\ LET room == BroadcastCap - Len(broadcast)
           n == IF Len(Kinds) < room THEN Len(Kinds) ELSE room
       IN  broadcast' = broadcast \o SubSeq(Kinds, 1, n)
    /\ UNCHANGED <<serverVars, hub, greeted, left, table, chanVars, pumpVars, netVars,
                   uiVars, faults>>

\* done: every channel is closed and the hub returns.
HubDone ==
    /\ hub = "select"
    /\ done
    /\ CloseSends(table)
    /\ table' = {}
    /\ hub' = "stopped"
    /\ UNCHANGED <<serverVars, greeted, left, broadcast, send, pumpVars, netVars,
                   uiVars, faults>>

\* Hub.Close, as the server shuts down.
Close ==
    /\ ~done
    /\ done' = TRUE
    /\ UNCHANGED <<secret, hubVars, chanVars, pumpVars, netVars, uiVars, faults>>

-----------------------------------------------------------------------------
(* The provider in the browser. *)

Mounted == page = "mounted"

\* The connection that is used next: they are interchangeable.
Unused == CHOOSE c \in Conns : Free(c)

\* connect: a new socket.
Connect ==
    /\ \E c \in Conns : Free(c)
    /\ sock' = Set(sock, Unused, "connecting")
    /\ link' = Set(link, Unused, "asking")
    /\ wire' = Set(wire, Unused, <<>>)

\* The effect: mountedRef is set, and connect called.
Mount ==
    /\ page = "blank"
    /\ Connect
    /\ page' = "mounted" /\ first' = Unused
    /\ UNCHANGED <<serverVars, hubVars, chanVars, pumpVars, timers, connected, live, faults>>

\* A reconnect timer fires and connect is called again.
TimerFires ==
    /\ timers > 0
    /\ Connect
    /\ timers' = timers - 1
    /\ UNCHANGED <<serverVars, hubVars, chanVars, pumpVars, page, first, connected, live,
                   faults>>

\* onopen, after the upgrade.
OnOpen(c) ==
    /\ sock[c] = "connecting"
    /\ link[c] \in {"up", "closed"}
    /\ sock' = Set(sock, c, "open")
    /\ connected' = (connected \/ Mounted)
    /\ UNCHANGED <<serverVars, hubVars, chanVars, pumpVars, netVars, page, first, timers, live,
                   faults>>

\* JSON.parse: two documents in one frame are a syntax error, and nothing is applied.
Parsed(f) == IF Len(f) = 1 THEN {f[1]} ELSE {}

\* onmessage: what the frame parses to goes into the store, mounted or not.
OnMessage(c) ==
    /\ sock[c] = "open"
    /\ wire[c] # <<>>
    /\ wire' = Set(wire, c, Tail(wire[c]))
    /\ live' = live \cup Parsed(Head(wire[c]))
    /\ UNCHANGED <<serverVars, hubVars, chanVars, pumpVars, link, sock, page, first, timers,
                   connected, faults>>

\* The connection has ended for the browser: refused, lost, closed by either end.
Ended(c) ==
    \/ sock[c] = "closing"
    \/ sock[c] # "none" /\ link[c] = "down"
    \/ sock[c] = "open" /\ link[c] = "closed" /\ wire[c] = <<>>

\* MUTANT of Delays: onerror, which comes first when a connection fails, sets a timer too.
DelaysTwice(c) == IF link[c] = "down" THEN 2 ELSE 1

\* MUTANT of Delays: only a connection that was open is made again.
DelaysOpened(c) == IF sock[c] = "open" THEN 1 ELSE 0

\* The reconnect timers that an ended connection leaves behind.
Delays(c) == 1

\* What becomes of connected when a connection ends.
StillConnected(c) == FALSE

\* onclose, with the onerror that may precede it: unmounted, nothing is done.
OnClose(c) ==
    /\ Ended(c)
    /\ sock' = Set(sock, c, "none")
    /\ link' = Set(link, c, "down")
    /\ wire' = Set(wire, c, <<>>)
    /\ first' = IF c = first THEN NoConn ELSE first
    /\ timers' = IF Mounted THEN timers + Delays(c) ELSE timers
    /\ connected' = IF Mounted THEN StillConnected(c) ELSE connected
    /\ UNCHANGED <<serverVars, hubVars, chanVars, pumpVars, page, live, faults>>

\* The cleanup: the last timer is cleared, and the first socket, if it lives, closed.
Unmount ==
    /\ Mounted
    /\ page' = "unmounted"
    /\ timers' = IF timers > 0 THEN timers - 1 ELSE 0
    /\ sock' = IF first = NoConn THEN sock ELSE Set(sock, first, "closing")
    /\ UNCHANGED <<serverVars, hubVars, chanVars, pumpVars, netVars, first, connected, live,
                   faults>>

-----------------------------------------------------------------------------
(* Faults. *)

\* The network loses a connection, with what was on it.
Drop(c) ==
    /\ faults < MaxFaults
    /\ sock[c] # "none"
    /\ link[c] \in {"asking", "up"}
    /\ link' = Set(link, c, "down")
    /\ wire' = Set(wire, c, <<>>)
    /\ faults' = faults + 1
    /\ UNCHANGED <<serverVars, hubVars, chanVars, pumpVars, uiVars>>

\* The coordinator's process ends, after Close or without it, and a new one starts.
Restart ==
    /\ faults < MaxFaults
    /\ faults' = faults + 1
    /\ done' = FALSE
    /\ hub' = "select" /\ greeted' = NoConn /\ left' = <<>>
    /\ table' = {} /\ broadcast' = <<>>
    /\ reader' = [c \in Conns |-> "none"]
    /\ writer' = [c \in Conns |-> "none"]
    /\ send' = [c \in Conns |-> <<>>]
    /\ sendOpen' = [c \in Conns |-> FALSE]
    /\ closes' = [c \in Conns |-> 0]
    /\ link' = [c \in Conns |-> CASE link[c] = "asking" -> "down"
                               [] link[c] = "up"     -> "closed"
                               [] OTHER              -> link[c]]
    /\ UNCHANGED <<secret, wire, uiVars>>

-----------------------------------------------------------------------------

HubNext == HubGreet \/ HubBroadcast \/ HubTick \/ HubDone \/ Close

\* The handler that readPump runs in, and the hub where it receives from it.
ReaderNext(c) ==
    \/ HubRegister(c) \/ ServeDone(c)
    \/ ReadFails(c)
    \/ HubUnregister(c) \/ LeaveDone(c)

WriterNext(c) == WriterWrites(c) \/ WriterFails(c) \/ WriterEnds(c)

ClientNext(c) == ServeRefuse(c) \/ ServeAccept(c) \/ ReaderNext(c) \/ WriterNext(c)

SocketNext(c) == OnOpen(c) \/ OnMessage(c) \/ OnClose(c)

BrowserNext == Mount \/ TimerFires \/ Unmount \/ \E c \in Conns : SocketNext(c)

Next ==
    \/ HubNext
    \/ \E c \in Conns : ClientNext(c)
    \/ BrowserNext
    \/ \E c \in Conns : Drop(c)
    \/ Restart

Spec == Init /\ [][Next]_vars

\* The goroutines run, a timer fires and the browser dispatches events; the
\* hub's select chooses at random among what is ready, so that no case that
\* is ready again and again is passed over for ever.
Fairness ==
    /\ WF_vars(HubGreet)
    /\ SF_vars(HubBroadcast) /\ SF_vars(HubDone)
    /\ WF_vars(TimerFires)
    /\ \A c \in Conns :
        /\ WF_vars(ServeRefuse(c) \/ ServeAccept(c))
        /\ SF_vars(ReaderNext(c))
        /\ WF_vars(WriterNext(c))
        /\ WF_vars(SocketNext(c))

FairSpec == Spec /\ Fairness

-----------------------------------------------------------------------------
(* Properties. *)

\* Everything has its type, and no channel or connection holds more than it can.
TypeOK ==
    /\ secret \in BOOLEAN /\ done \in BOOLEAN
    /\ hub \in {"select", "greeting", "stopped"}
    /\ greeted \in Conns \cup {NoConn} /\ left \in Seq(KindSet)
    /\ table \subseteq Conns
    /\ broadcast \in Seq(KindSet) /\ Len(broadcast) <= BroadcastCap
    /\ reader \in [Conns -> {"none", "registering", "reading", "leaving"}]
    /\ writer \in [Conns -> {"none", "running"}]
    /\ send \in [Conns -> Seq(KindSet)] /\ \A c \in Conns : Len(send[c]) <= SendCap
    /\ sendOpen \in [Conns -> BOOLEAN] /\ closes \in [Conns -> Nat]
    /\ link \in [Conns -> Links] /\ wire \in [Conns -> Seq(Seq(KindSet))]
    /\ sock \in [Conns -> {"none", "connecting", "open", "closing"}]
    /\ page \in {"blank", "mounted", "unmounted"}
    /\ first \in Conns \cup {NoConn}
    /\ timers \in Nat /\ connected \in BOOLEAN /\ live \subseteq KindSet
    /\ faults \in 0..MaxFaults

\* The hub closes a client's channel once, and sends only on open ones: neither
\* a close of a slow client, nor a goodbye, nor a shutdown can make it panic.
ClosedOnce ==
    /\ \A c \in Conns : closes[c] <= 1 /\ (c \in table => sendOpen[c])
    /\ hub = "greeting" => sendOpen[greeted]

Live == {c \in Conns : sock[c] # "none"}

\* A mounted provider has one socket or one timer, never two chains of
\* reconnections and never none; an unmounted one never connects again.
OneChain ==
    /\ Mounted => \/ timers = 0 /\ \E c \in Conns : Live = {c}
                  \/ timers = 1 /\ Live = {}
    /\ page = "unmounted" => timers = 0

\* The badge of the header says that the socket is open exactly when it is.
BadgeTrue == Mounted => (connected <=> \E c \in Conns : sock[c] = "open")

\* What the provider keeps and shows of its connection is true of it, in whatever
\* order sockets open, fail and close, timers fire and the page goes away.
OneConnection == OneChain /\ BadgeTrue

\* The end of a connection has begun: it is closed or lost, its writer has
\* returned, or the hub has dropped the client.
Ending(c) ==
    /\ reader[c] # "none" \/ writer[c] # "none"
    /\ \/ link[c] # "up"
       \/ reader[c] = "reading" /\ (writer[c] = "none" \/ ~sendOpen[c])

\* A connection whose end has begun, wherever it began, leaves nothing behind in
\* the coordinator: no entry of the table and neither of its two goroutines.
DeadLeaves ==
    \A c \in Conns :
        Ending(c) ~> reader[c] = "none" /\ writer[c] = "none" /\ c \notin table

\* After any loss, refusal or restart the UI is connected again, if it may be.
Reconnects == Mounted /\ ~secret ~> connected \/ done \/ ~Mounted
=============================================================================
