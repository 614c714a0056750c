---------------------------- MODULE RelayClient ----------------------------
(***************************************************************************)
(* A node's end of the relay (internal/relay/client.go): Run, which        *)
(* connects again and again, and for each connection its reading goroutine *)
(* (Run's own) and its writing goroutine; and the engine's goroutines      *)
(* inside SendPacket.                                                      *)
(*                                                                         *)
(* Connections and channels are numbered by the call of connect that made  *)
(* them; channel 0 is NewClient's.  Client.mu guards the closed flag and   *)
(* the assignment of c.send, and neither of the reads of c.send: each read *)
(* is a step, and gets the channel of that moment.  What a frame contains  *)
(* is left out: a channel is the number of its packets.  Nobody pings: the *)
(* relay never reads its ticker, and the client only answers.              *)
(***************************************************************************)
EXTENDS Integers

CONSTANTS
    Senders,        \* goroutines of the engine that may be inside SendPacket
    ClientCap,      \* capacity of a channel (256 in the code)
    MaxConnects,    \* bound: calls of connect
    MaxFaults       \* bound: faults of the network

ASSUME RelayClientAssumption ==
    ClientCap \in Nat /\ MaxConnects \in Nat /\ MaxFaults \in Nat

VARIABLES
    run,            \* where Run is
    current,        \* the channel in c.send
    closed,         \* Client.closed
    shut,           \* the channels that are closed
    queue,          \* per channel: how many packets it holds
    tcp,            \* per connection: its TCP connection
    fresh,          \* per connection: "sent" if the relay got a frame in its
                    \* last read deadline, "got" if the client did
    pump, taking,   \* per connection: its writer, and the channel it waits on
    sender, aim,    \* per goroutine in SendPacket: its step, and its channel
    cancelled,      \* the engine's context is done
    panicked,       \* goroutines whose send has panicked: the process is dead
    faults,         \* bounded: faults of the network
    slipped, stolen \* history: senders whose channel was closed after their
                    \* check; per writer, packets taken from later channels

client == <<run, current, closed, shut, cancelled>>
conns == <<tcp, fresh>>
writers == <<pump, taking, stolen>>
senders == <<sender, aim, panicked>>
clientVars == <<client, queue, conns, writers, senders, faults, slipped>>

Connects == 1 .. MaxConnects
Chans == 0 .. MaxConnects

ClientInit ==
    /\ run = "waiting" /\ current = 0 /\ closed = FALSE /\ shut = {}
    /\ queue = [c \in Chans |-> 0]
    /\ tcp = [n \in Connects |-> "none"] /\ fresh = [n \in Connects |-> {}]
    /\ pump = [n \in Connects |-> "none"] /\ taking = [n \in Connects |-> 0]
    /\ sender = [s \in Senders |-> "idle"] /\ aim = [s \in Senders |-> 0]
    /\ cancelled = FALSE /\ panicked = {} /\ faults = 0
    /\ slipped = {} /\ stolen = [n \in Connects |-> 0]

-----------------------------------------------------------------------------
(* Run and connect. *)

\* connect makes a new channel; Run does not look at the context before.
Connect ==
    /\ run = "waiting"
    /\ current < MaxConnects
    /\ current' = current + 1
    /\ closed' = FALSE
    /\ run' = "dialing"
    /\ UNCHANGED <<shut, cancelled, queue, conns, writers, senders, faults, slipped>>

\* The backoff ends with the context.
GiveUp ==
    /\ run = "waiting" /\ current > 0
    /\ cancelled
    /\ run' = "done"
    /\ UNCHANGED <<current, closed, shut, cancelled, queue, conns, writers, senders,
                   faults, slipped>>

\* The upgrade is answered with 101 and the ClientInfo is sent.
DialSucceeds ==
    /\ run = "dialing"
    /\ run' = "reading"
    /\ tcp' = [tcp EXCEPT ![current] = "up"]
    /\ fresh' = [fresh EXCEPT ![current] = {"sent", "got"}]
    /\ pump' = [pump EXCEPT ![current] = "idle"]
    /\ UNCHANGED <<current, closed, shut, cancelled, queue, taking, stolen, senders,
                   faults, slipped>>

\* The new channel stays open, with what was queued in it meanwhile.
DialFails ==
    /\ run = "dialing"
    /\ run' = IF cancelled THEN "done" ELSE "waiting"
    /\ UNCHANGED <<current, closed, shut, cancelled, queue, conns, writers, senders,
                   faults, slipped>>

\* A frame arrives, which is handed to the engine.
Receive ==
    /\ run = "reading" /\ tcp[current] = "up"
    /\ fresh' = [fresh EXCEPT ![current] = @ \cup {"got"}]
    /\ UNCHANGED <<client, queue, tcp, writers, senders, faults, slipped>>

\* MUTANT of Silent: the relay waits for its clients without a deadline.
SilentOneWay(n) == "got" \notin fresh[n]

\* Relay and client each give the other 60 s for its next frame.
Silent(n) == fresh[n] # {"sent", "got"}

\* A read deadline passes: in the relay, which closes the connection, or here.
ReadTimesOut(n) ==
    /\ tcp[n] = "up" /\ Silent(n)
    /\ tcp' = [tcp EXCEPT ![n] = "failed"]
    /\ UNCHANGED <<client, queue, fresh, writers, senders, faults, slipped>>

\* 60 s in which both were heard.
Period(n) ==
    /\ tcp[n] = "up" /\ ~ Silent(n)
    /\ fresh' = [fresh EXCEPT ![n] = {}]
    /\ UNCHANGED <<client, queue, tcp, writers, senders, faults, slipped>>

NetworkFails(n) ==
    /\ faults < MaxFaults
    /\ tcp[n] = "up"
    /\ tcp' = [tcp EXCEPT ![n] = "failed"]
    /\ faults' = faults + 1
    /\ UNCHANGED <<client, queue, fresh, writers, senders, slipped>>

\* ReadFrame fails: the channel is closed and the flag set under the lock, then
\* the connection is closed.
ReadFails ==
    /\ run = "reading" /\ tcp[current] # "up"
    /\ shut' = IF closed THEN shut ELSE shut \cup {current}
    /\ closed' = TRUE
    /\ tcp' = [tcp EXCEPT ![current] = "closed"]
    /\ run' = IF cancelled THEN "done" ELSE "waiting"
    /\ slipped' = slipped \cup {s \in Senders : sender[s] # "idle"}
    /\ UNCHANGED <<current, cancelled, queue, fresh, writers, senders, faults>>

\* The engine stops.
Cancel ==
    /\ ~ cancelled
    /\ cancelled' = TRUE
    /\ UNCHANGED <<run, current, closed, shut, queue, conns, writers, senders, faults, slipped>>

\* The goroutine that waits for the context closes the connection.
CutOff ==
    /\ cancelled /\ run = "reading" /\ tcp[current] \in {"up", "failed"}
    /\ tcp' = [tcp EXCEPT ![current] = "closed"]
    /\ UNCHANGED <<client, queue, fresh, writers, senders, faults, slipped>>

-----------------------------------------------------------------------------
(* The writing goroutine of connection n.  It reads c.send for every packet, so
   that the pump of a lost connection may come to wait on a later channel. *)

WriterPick(n) ==
    /\ pump[n] = "idle"
    /\ taking' = [taking EXCEPT ![n] = current]
    /\ pump' = [pump EXCEPT ![n] = "waiting"]
    /\ UNCHANGED <<client, queue, conns, stolen, senders, faults, slipped>>

WriterTake(n) ==
    /\ pump[n] = "waiting" /\ queue[taking[n]] > 0
    /\ queue' = [queue EXCEPT ![taking[n]] = @ - 1]
    /\ stolen' = IF taking[n] = n THEN stolen ELSE [stolen EXCEPT ![n] = @ + 1]
    /\ pump' = [pump EXCEPT ![n] = "writing"]
    /\ UNCHANGED <<client, conns, taking, senders, faults, slipped>>

\* MUTANT of Stopped: the context is not looked at.
StoppedByClose(n) == taking[n] \in shut /\ queue[taking[n]] = 0

\* A closed channel still gives what it holds.
Stopped(n) == cancelled \/ (taking[n] \in shut /\ queue[taking[n]] = 0)

WriterStop(n) ==
    /\ pump[n] = "waiting" /\ Stopped(n)
    /\ pump' = [pump EXCEPT ![n] = "ended"]
    /\ UNCHANGED <<client, queue, conns, taking, stolen, senders, faults, slipped>>

WriterWrites(n) ==
    /\ pump[n] = "writing" /\ tcp[n] # "closed"
    /\ pump' = [pump EXCEPT ![n] = "idle"]
    /\ fresh' = IF tcp[n] = "up" THEN [fresh EXCEPT ![n] = @ \cup {"sent"}] ELSE fresh
    /\ UNCHANGED <<client, queue, tcp, taking, stolen, senders, faults, slipped>>

\* MUTANT of AfterError: the writer goes on.
AfterErrorGoesOn == "idle"

\* The writer leaves its error in errCh, which nobody reads, and returns.
AfterError == "ended"

\* The connection is gone, or took longer than the write deadline.
WriterFails(n) ==
    /\ pump[n] = "writing"
    /\ \/ tcp[n] # "up" /\ UNCHANGED faults
       \/ tcp[n] = "up" /\ faults < MaxFaults /\ faults' = faults + 1
    /\ pump' = [pump EXCEPT ![n] = AfterError]
    /\ UNCHANGED <<client, queue, conns, taking, stolen, senders, slipped>>

-----------------------------------------------------------------------------
(* SendPacket. *)

\* MUTANT of Refused: without the flag.
RefusedNever == FALSE

Refused == closed

\* The flag is read under the lock, and the lock released.
SendCheck(s) ==
    /\ sender[s] = "idle"
    /\ ~ Refused
    /\ sender' = [sender EXCEPT ![s] = "checked"]
    /\ slipped' = slipped \ {s}
    /\ UNCHANGED <<client, queue, conns, writers, aim, panicked, faults>>

\* The select reads c.send.
SendPick(s) ==
    /\ sender[s] = "checked"
    /\ aim' = [aim EXCEPT ![s] = current]
    /\ sender' = [sender EXCEPT ![s] = "picked"]
    /\ UNCHANGED <<client, queue, conns, writers, panicked, faults, slipped>>

HasRoom(c) == queue[c] < ClientCap

\* The select sends, or drops when the channel is full; on a closed channel it
\* panics, and no caller recovers.
SendPut(s) ==
    /\ sender[s] = "picked"
    /\ sender' = [sender EXCEPT ![s] = "idle"]
    /\ \/ /\ aim[s] \in shut
          /\ panicked' = panicked \cup {s}
          /\ UNCHANGED queue
       \/ /\ aim[s] \notin shut
          /\ queue' = IF HasRoom(aim[s]) THEN [queue EXCEPT ![aim[s]] = @ + 1] ELSE queue
          /\ UNCHANGED panicked
    /\ aim' = [aim EXCEPT ![s] = 0]
    /\ UNCHANGED <<client, conns, writers, faults, slipped>>

-----------------------------------------------------------------------------

Running ==
    \/ Connect \/ GiveUp \/ DialSucceeds \/ DialFails
    \/ Receive \/ ReadFails \/ Cancel \/ CutOff
    \/ \E n \in Connects : ReadTimesOut(n) \/ Period(n) \/ NetworkFails(n)

Writing(n) ==
    WriterPick(n) \/ WriterTake(n) \/ WriterStop(n) \/ WriterWrites(n) \/ WriterFails(n)

Sending(s) == SendCheck(s) \/ SendPick(s) \/ SendPut(s)

\* A panic ends the process.
ClientNext ==
    /\ panicked = {}
    /\ \/ Running
       \/ \E n \in Connects : Writing(n)
       \/ \E s \in Senders : Sending(s)

ClientSpec == ClientInit /\ [][ClientNext]_clientVars

\* What goes on by itself: goroutines that can take a step, dials that end, and
\* deadlines and backoffs that pass.
ClientFairSpec ==
    /\ ClientSpec
    /\ WF_clientVars(panicked = {} /\ (DialSucceeds \/ DialFails))
    /\ WF_clientVars(panicked = {} /\ ReadFails)
    /\ WF_clientVars(panicked = {} /\ (Connect \/ GiveUp))
    /\ WF_clientVars(panicked = {} /\ CutOff)
    /\ \A n \in Connects : /\ WF_clientVars(panicked = {} /\ Writing(n))
                        /\ WF_clientVars(panicked = {} /\ (ReadTimesOut(n) \/ Period(n)))

-----------------------------------------------------------------------------
(* Properties. *)

\* Types; a channel never holds more than its capacity, although goroutines of
\* the engine fill it at once and two writers may drain it.
ClientTypeOK ==
    /\ run \in {"waiting", "dialing", "reading", "done"}
    /\ current \in Chans /\ closed \in BOOLEAN /\ shut \subseteq Chans
    /\ queue \in [Chans -> 0 .. ClientCap]
    /\ tcp \in [Connects -> {"none", "up", "failed", "closed"}]
    /\ fresh \in [Connects -> SUBSET {"sent", "got"}]
    /\ pump \in [Connects -> {"none", "idle", "waiting", "writing", "ended"}]
    /\ taking \in [Connects -> Chans]
    /\ sender \in [Senders -> {"idle", "checked", "picked"}]
    /\ aim \in [Senders -> Chans]
    /\ cancelled \in BOOLEAN /\ panicked \subseteq Senders
    /\ faults \in 0 .. MaxFaults
    /\ slipped \subseteq Senders /\ stolen \in [Connects -> Nat]

\* What the flag does achieve: SendPacket panics only when the connection was
\* lost between its check and its send.
PanicOnlyByRace == panicked \subseteq slipped

\* The writer of a lost connection, which may drain a later connection's channel,
\* loses one packet of it at most.
StolenOnce == \A n \in Connects : stolen[n] <= 1

\* A write that failed ends the writer and tells nobody; still the connection, on
\* which nothing can be sent any more, does not stay: the relay misses its frames.
MuteIsLeft ==
    \A n \in Connects : pump[n] = "ended" /\ tcp[n] = "up" ~> tcp[n] # "up" \/ panicked # {}

\* When the engine stops, Run returns and no writer stays, those of connections
\* lost before included.
ShutdownEnds ==
    cancelled ~> \/ panicked # {}
                 \/ run = "done" /\ \A n \in Connects : pump[n] \in {"none", "ended"}
=============================================================================
