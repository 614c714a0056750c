------------------------------- MODULE Relay -------------------------------
(***************************************************************************)
(* The relay server (internal/relay/server.go): the table of connected     *)
(* clients, and for each connection the goroutine that reads its frames    *)
(* (handleClient) and the one that writes the frames of its channel.       *)
(*                                                                         *)
(* The table is keyed by public key, and a node that reconnects has two    *)
(* connections for a while.  A send on a closed channel panics; net/http   *)
(* recovers the panic of a handler after its deferred calls have run.      *)
(* What a frame contains is left out: a channel is the number of its       *)
(* frames.                                                                 *)
(***************************************************************************)
EXTENDS Integers, FiniteSets

CONSTANTS
    Conns,          \* the connections, each accepted once
    KeyOf,          \* the public key that each sends in its ClientInfo
    NoConn,         \* stands for a missing entry of the table
    MaxClients,     \* maxClients (1024 in the code)
    SendCap         \* capacity of a client's channel (64 in the code)

Keys == {KeyOf[c] : c \in Conns}

ASSUME RelayAssumption ==
    /\ KeyOf \in [Conns -> Keys]
    /\ NoConn \notin Conns
    /\ MaxClients \in Nat
    /\ SendCap \in Nat

VARIABLES
    clients,        \* Server.clients: the registered connection of each key
    pc,             \* per connection: the step of handleClient
    target,         \* per connection: the client that route has looked up
    open,           \* per connection: its channel is not closed
    chan,           \* per connection: how many frames its channel holds
    writer,         \* per connection: the writing goroutine
    link,           \* per connection: the socket is not closed
    overlapped,     \* history: connections served while another of their key was
    raced           \* history: some client was added between another's check and its add

tableVars == <<clients, open, overlapped, raced>>
wireVars == <<chan, writer, link>>
vars == <<clients, pc, target, open, chan, writer, link, overlapped, raced>>

Steps == {"new", "admitted", "added", "serving", "routing", "ending", "leaving", "closing", "done"}

Registered == {c \in Conns : clients[KeyOf[c]] = c}

\* The connections that addClient has put in the table and whose handler runs.
Served == {c \in Conns : pc[c] \in {"added", "serving", "routing", "ending", "leaving"}}

Init ==
    /\ clients = [k \in Keys |-> NoConn]
    /\ pc = [c \in Conns |-> "new"]
    /\ target = [c \in Conns |-> NoConn]
    /\ open = [c \in Conns |-> TRUE]
    /\ chan = [c \in Conns |-> 0]
    /\ writer = [c \in Conns |-> "none"]
    /\ link = [c \in Conns |-> TRUE]
    /\ overlapped = {} /\ raced = FALSE

Goto(c, step) == pc' = [pc EXCEPT ![c] = step]

\* enqueue, and the select of route: drop if the channel is full.
Offer(n) == IF n < SendCap THEN n + 1 ELSE n

\* broadcastPresence: a frame for every registered client but the key's own.
Broadcast(k) ==
    chan' = [c \in Conns |->
                IF c \in Registered /\ KeyOf[c] # k THEN Offer(chan[c]) ELSE chan[c]]

\* MUTANT of Panicked: the clean-up is not deferred.
PanickedNoDefer(c) == Goto(c, "closing")

\* A panic in the read loop runs the deferred calls, as a return does.
Panicked(c) == Goto(c, "ending")

-----------------------------------------------------------------------------
(* handleClient. *)

\* MUTANT of Room: one too many.
RoomOneMore == Cardinality({k \in Keys : clients[k] # NoConn}) <= MaxClients

Room == Cardinality({k \in Keys : clients[k] # NoConn}) < MaxClients

\* MUTANT of Rejected: removeClient is deferred before the checks.
RejectedRemoves(c) == Goto(c, "leaving")

\* The connection is closed before its client is in the table.
Rejected(c) == Goto(c, "closing")

\* A bad first frame, an unknown key, or a full server.
Refuse(c) ==
    /\ pc[c] = "new"
    /\ Rejected(c)
    /\ UNCHANGED <<tableVars, wireVars, target>>

\* The limit is read under the lock, and the lock released.
CheckLimit(c) ==
    /\ pc[c] = "new"
    /\ Room
    /\ Goto(c, "admitted")
    /\ UNCHANGED <<tableVars, wireVars, target>>

\* MUTANT of CloseOld: the replaced client's channel stays open.
CloseOldNot(k) == open

CloseOld(k) == [d \in Conns |-> open[d] /\ clients[k] # d]

AddClient(c) ==
    /\ pc[c] = "admitted"
    /\ clients' = [clients EXCEPT ![KeyOf[c]] = c]
    /\ open' = CloseOld(KeyOf[c])
    /\ Goto(c, "added")
    /\ LET others == {d \in Served : KeyOf[d] = KeyOf[c]}
       IN  overlapped' = IF others = {} THEN overlapped ELSE overlapped \cup others \cup {c}
    /\ raced' = (raced \/ \E d \in Conns \ {c} : pc[d] = "admitted")
    /\ UNCHANGED <<wireVars, target>>

\* broadcastPresence(true), after which the writer is started.
Announce(c) ==
    /\ pc[c] = "added"
    /\ Broadcast(KeyOf[c])
    /\ writer' = [writer EXCEPT ![c] = "running"]
    /\ Goto(c, "serving")
    /\ UNCHANGED <<tableVars, target, link>>

\* route, first half: the table is read under the lock.
RouteLookup(c, k) ==
    /\ pc[c] = "serving"
    /\ clients[k] # NoConn
    /\ target' = [target EXCEPT ![c] = clients[k]]
    /\ Goto(c, "routing")
    /\ UNCHANGED <<tableVars, wireVars>>

\* route, second half: the send, to a client that may have been removed since.
RouteSend(c) ==
    /\ pc[c] = "routing"
    /\ LET d == target[c]
       IN  IF open[d]
           THEN /\ chan' = [chan EXCEPT ![d] = Offer(@)]
                /\ Goto(c, "serving")
           ELSE Panicked(c) /\ UNCHANGED chan
    /\ target' = [target EXCEPT ![c] = NoConn]
    /\ UNCHANGED <<tableVars, writer, link>>

\* A ping is answered on the connection's own channel.
Ping(c) ==
    /\ pc[c] = "serving"
    /\ IF open[c]
       THEN chan' = [chan EXCEPT ![c] = Offer(@)] /\ UNCHANGED pc
       ELSE Panicked(c) /\ UNCHANGED chan
    /\ UNCHANGED <<tableVars, target, writer, link>>

\* ReadFrame fails: the client has closed, or was silent for 60 seconds.
ReadEnd(c) ==
    /\ pc[c] = "serving"
    /\ Goto(c, "ending")
    /\ UNCHANGED <<tableVars, wireVars, target>>

\* The deferred broadcastPresence(false).
AnnounceGone(c) ==
    /\ pc[c] = "ending"
    /\ Broadcast(KeyOf[c])
    /\ Goto(c, "leaving")
    /\ UNCHANGED <<tableVars, target, writer, link>>

\* MUTANT of Unregister: the entry is left in the table.
UnregisterKeep(k) ==
    /\ open' = [d \in Conns |-> open[d] /\ clients[k] # d]
    /\ UNCHANGED clients

\* removeClient: whichever connection the key has now is taken out and closed.
Unregister(k) ==
    /\ clients' = [clients EXCEPT ![k] = NoConn]
    /\ open' = [d \in Conns |-> open[d] /\ clients[k] # d]

RemoveClient(c) ==
    /\ pc[c] = "leaving"
    /\ Unregister(KeyOf[c])
    /\ Goto(c, "closing")
    /\ UNCHANGED <<wireVars, target, overlapped, raced>>

\* The first deferred call, which runs last.
CloseConn(c) ==
    /\ pc[c] = "closing"
    /\ link' = [link EXCEPT ![c] = FALSE]
    /\ Goto(c, "done")
    /\ UNCHANGED <<tableVars, target, chan, writer>>

-----------------------------------------------------------------------------
(* The writing goroutine. *)

\* A frame is taken from the channel and written.
WriteFrame(c) ==
    /\ writer[c] = "running"
    /\ chan[c] > 0
    /\ link[c]
    /\ chan' = [chan EXCEPT ![c] = @ - 1]
    /\ UNCHANGED <<tableVars, pc, target, writer, link>>

\* The socket is closed, or takes nothing for 5 seconds: the goroutine returns,
\* while its connection goes on reading.
WriteError(c) ==
    /\ writer[c] = "running"
    /\ chan[c] > 0
    /\ chan' = [chan EXCEPT ![c] = @ - 1]
    /\ writer' = [writer EXCEPT ![c] = "ended"]
    /\ UNCHANGED <<tableVars, pc, target, link>>

\* The range over the channel ends when it is closed and empty.
WriterEnd(c) ==
    /\ writer[c] = "running"
    /\ chan[c] = 0
    /\ ~ open[c]
    /\ writer' = [writer EXCEPT ![c] = "ended"]
    /\ UNCHANGED <<tableVars, pc, target, chan, link>>

Write(c) == WriteFrame(c) \/ WriteError(c) \/ WriterEnd(c)

Unwind(c) == RouteSend(c) \/ AnnounceGone(c) \/ RemoveClient(c) \/ CloseConn(c)

Next == \E c \in Conns :
    \/ Refuse(c) \/ CheckLimit(c) \/ AddClient(c) \/ Announce(c)
    \/ \E k \in Keys : RouteLookup(c, k)
    \/ Ping(c) \/ ReadEnd(c) \/ Unwind(c) \/ Write(c)

Spec == Init /\ [][Next]_vars

\* Go runs every goroutine that can take a step; nothing makes a client connect,
\* send, or leave.
FairSpec == Spec /\ \A c \in Conns : WF_vars(Unwind(c)) /\ WF_vars(Write(c))

-----------------------------------------------------------------------------
(* Properties. *)

\* Types; a channel never holds more than its capacity.
TypeOK ==
    /\ clients \in [Keys -> Conns \cup {NoConn}]
    /\ pc \in [Conns -> Steps]
    /\ target \in [Conns -> Conns \cup {NoConn}]
    /\ open \in [Conns -> BOOLEAN]
    /\ chan \in [Conns -> 0 .. SendCap]
    /\ writer \in [Conns -> {"none", "running", "ended"}]
    /\ link \in [Conns -> BOOLEAN]
    /\ overlapped \subseteq Conns /\ raced \in BOOLEAN

\* The channels of registered clients are open: broadcastPresence, which sends to
\* them under the lock, never panics, nor does removeClient close one twice.
RegisteredOpen == \A c \in Registered : open[c]

\* No ghosts: however connections of a key overlap, and however a handler ends, the
\* table holds no connection whose handler has run its deferred removeClient.
NoGhost == \A c \in Registered : c \in Served

\* A connection that is still read but no longer in the table, so that no packet
\* reaches it, lost its entry to another connection of its own key.
CutOffOnlyByOverlap == \A c \in Served \ Registered : c \in overlapped

\* There are more clients than the limit only if one was added between another's
\* check of the limit and its addition.
LimitOnlyByRace == Cardinality({k \in Keys : clients[k] # NoConn}) > MaxClients => raced

\* No writing goroutine outlives its connection.
WritersEnd == \A c \in Conns : pc[c] = "done" ~> writer[c] # "running"
=============================================================================
