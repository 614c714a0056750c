------------------------------- MODULE Session -------------------------------
(***************************************************************************)
(* One direction of an encrypted channel: the Session of the sending node  *)
(* (internal/node/session.go, Encrypt and Rotate) and the Session of the   *)
(* receiving node (Decrypt and Rotate), with the network between them.     *)
(*                                                                         *)
(* Encrypt runs on the goroutine that reads the TUN device and on every    *)
(* other caller of sendToPeer; every inbound packet gets a goroutine of    *)
(* its own (udpReadLoop, onDERPRecv), so Decrypt runs concurrently with    *)
(* itself.  Each lock or atomic operation of the code is one step here.    *)
(*                                                                         *)
(* A key is the number of rotations that led to it; the two ends derive    *)
(* the same sequence of keys from their handshakes.  A packet stays on the *)
(* wire for ever: the network may delay, reorder, duplicate and lose it.   *)
(* AEAD is perfect: a packet opens under the key and counter that sealed   *)
(* it and under nothing else.                                              *)
(***************************************************************************)
EXTENDS ReplayWindow

CONSTANTS
    Senders,        \* goroutines that may be inside Encrypt
    Receivers,      \* goroutines that may be inside Decrypt
    MaxPackets,     \* bound: packets sealed in a behaviour
    MaxRotations    \* bound: calls of Rotate at each end

ASSUME SessionAssumption ==
    /\ MaxPackets \in Nat
    /\ MaxRotations \in Nat

VARIABLES
    sendKey, sendCounter,   \* the sender's Session.sendKey and .sendCounter
    sendPc, heldKey,        \* per sender: its step, and the key it copied
    recvKey, win,           \* the receiver's Session.recvKey and .replayWin
    recvPc, heldPkt,        \* per receiver: its step, and its packet
    sealed, seals,          \* packets put on the wire, and how many
    delivered, replayed,    \* history: packets returned once, more than once
    overlapped,             \* history: packets two receivers held at once
    advanced                \* history: counters marked since the last Reset

sendVars == <<sendKey, sendCounter, sendPc, heldKey, sealed, seals>>
recvVars == <<recvKey, win, recvPc, heldPkt, delivered, replayed, overlapped,
              advanced>>
vars == <<sendVars, recvVars>>

Keys == 0 .. MaxRotations

\* body identifies the plaintext: two packets of one body are one packet.
Packets == [key : Keys, counter : Nat, body : Nat]

NoPacket == [key |-> 0, counter |-> 0, body |-> 0]

Init ==
    /\ sendKey = 0 /\ sendCounter = 0
    /\ sendPc = [s \in Senders |-> "idle"]
    /\ heldKey = [s \in Senders |-> 0]
    /\ recvKey = 0 /\ win = EmptyWindow
    /\ recvPc = [r \in Receivers |-> "idle"]
    /\ heldPkt = [r \in Receivers |-> NoPacket]
    /\ sealed = {} /\ seals = 0
    /\ delivered = {} /\ replayed = {} /\ overlapped = {} /\ advanced = {}

-----------------------------------------------------------------------------
(* Encrypt: copy the key under RLock, then take a counter and seal. *)

EncryptReadKey(s) ==
    /\ sendPc[s] = "idle"
    /\ sendPc' = [sendPc EXCEPT ![s] = "keyed"]
    /\ heldKey' = [heldKey EXCEPT ![s] = sendKey]
    /\ UNCHANGED <<sendKey, sendCounter, sealed, seals, recvVars>>

\* sendCounter.Add(1) - 1, and the packet sealed with the value it had.
EncryptSeal(s) ==
    /\ sendPc[s] = "keyed"
    /\ seals < MaxPackets
    /\ sealed' = sealed \cup
           {[key |-> heldKey[s], counter |-> sendCounter, body |-> seals]}
    /\ sendCounter' = sendCounter + 1
    /\ seals' = seals + 1
    /\ sendPc' = [sendPc EXCEPT ![s] = "idle"]
    /\ heldKey' = [heldKey EXCEPT ![s] = 0]
    /\ UNCHANGED <<sendKey, recvVars>>

\* MUTANT of RotateSend: the counter restarts although the key stays.
RotateSendKeepsKey ==
    /\ seals < MaxPackets
    /\ sendCounter' = 0
    /\ UNCHANGED <<sendKey, sendPc, heldKey, sealed, seals, recvVars>>

\* Rotate at the sender: new key, counter stored as 0, under the lock.
RotateSend ==
    /\ sendKey < MaxRotations
    /\ sendKey' = sendKey + 1
    /\ sendCounter' = 0
    /\ UNCHANGED <<sendPc, heldKey, sealed, seals, recvVars>>

-----------------------------------------------------------------------------
(* Decrypt: Check, open under a copy of the key, Advance and return. *)

Holds(r, p) == recvPc[r] # "idle" /\ heldPkt[r] = p

Return(r) ==
    /\ recvPc' = [recvPc EXCEPT ![r] = "idle"]
    /\ heldPkt' = [heldPkt EXCEPT ![r] = NoPacket]

\* A packet the window refuses is dropped, which changes nothing.
DecryptCheck(r, p) ==
    /\ recvPc[r] = "idle"
    /\ Check(win, p.counter)
    /\ recvPc' = [recvPc EXCEPT ![r] = "checked"]
    /\ heldPkt' = [heldPkt EXCEPT ![r] = p]
    /\ overlapped' = overlapped \cup
           {heldPkt[q] : q \in {x \in Receivers : Holds(x, p)}}
    /\ UNCHANGED <<sendVars, recvKey, win, delivered, replayed, advanced>>

\* Open under the current key, or fail and return.
DecryptOpen(r) ==
    /\ recvPc[r] = "checked"
    /\ IF heldPkt[r].key = recvKey
       THEN recvPc' = [recvPc EXCEPT ![r] = "opened"] /\ UNCHANGED heldPkt
       ELSE Return(r)
    /\ UNCHANGED <<sendVars, recvKey, win, delivered, replayed, overlapped, advanced>>

DecryptAdvance(r) ==
    /\ recvPc[r] = "opened"
    /\ win' = Advance(win, heldPkt[r].counter)
    /\ advanced' = advanced \cup {heldPkt[r].counter}
    /\ replayed' = replayed \cup (delivered \cap {heldPkt[r]})
    /\ delivered' = delivered \cup {heldPkt[r]}
    /\ Return(r)
    /\ UNCHANGED <<sendVars, recvKey, overlapped>>

\* MUTANT of RotateRecv: the window is not reset.
RotateRecvKeepsWindow ==
    /\ recvKey < MaxRotations
    /\ recvKey' = recvKey + 1
    /\ advanced' = {}
    /\ UNCHANGED <<sendVars, win, recvPc, heldPkt, delivered, replayed, overlapped>>

\* Rotate at the receiver: new key and an empty window.
RotateRecv ==
    /\ recvKey < MaxRotations
    /\ recvKey' = recvKey + 1
    /\ win' = EmptyWindow
    /\ advanced' = {}
    /\ UNCHANGED <<sendVars, recvPc, heldPkt, delivered, replayed, overlapped>>

Next ==
    \/ \E s \in Senders : EncryptReadKey(s) \/ EncryptSeal(s)
    \/ RotateSend
    \/ \E r \in Receivers :
           \/ \E p \in sealed : DecryptCheck(r, p)
           \/ DecryptOpen(r)
           \/ DecryptAdvance(r)
    \/ RotateRecv

Spec == Init /\ [][Next]_vars

-----------------------------------------------------------------------------
(* Properties. *)

TypeOK ==
    /\ sendKey \in Keys /\ sendCounter \in Nat
    /\ sendPc \in [Senders -> {"idle", "keyed"}]
    /\ heldKey \in [Senders -> Keys]
    /\ recvKey \in Keys /\ win \in Window
    /\ recvPc \in [Receivers -> {"idle", "checked", "opened"}]
    /\ heldPkt \in [Receivers -> Packets]
    /\ sealed \subseteq Packets /\ seals \in Nat
    /\ delivered \subseteq Packets /\ replayed \subseteq Packets
    /\ overlapped \subseteq Packets
    /\ advanced \subseteq Nat

\* Encrypt never reuses a nonce under the key that is current at the sender:
\* two packets sealed under it with one counter are the same packet, although
\* the key is copied before the counter is taken.
CurrentKeyNonceUnique ==
    \A p, q \in sealed :
        p.key = sendKey /\ q.key = sendKey /\ p.counter = q.counter => p = q

\* The floor of the receiver's window is exactly one window behind the highest
\* counter marked since the last Reset (or 0 until a counter outruns the first
\* window), whatever order the concurrent Decrypts advance it in.
FloorTracksHighest ==
    /\ \A c \in advanced : c < win.floor + WindowSize
    /\ win.floor > 0 => win.floor + WindowSize - 1 \in advanced

\* An in-order stream is never refused: Check accepts every counter above all
\* those marked since the last Reset.
InOrderAccepted ==
    \A c \in 0 .. MaxPackets :
        (\A a \in advanced : a < c) => Check(win, c)

\* Until the window first slides Check is exact: it refuses the counters marked
\* since the last Reset and no other, in whatever order they came.
FirstWindowExact ==
    win.floor = 0 =>
        \A c \in 0 .. MaxPackets : Check(win, c) <=> c \notin advanced

\* Until the window has first slid or been rotated, a packet is returned twice
\* only when two goroutines were inside Decrypt with a copy of it at once.
NoReplayBeforeSlide ==
    win.floor = 0 /\ recvKey = 0 => replayed \subseteq overlapped

\* Session.Decrypt returns no packet twice, as the design promises
\* ("Duplicate counters within window are dropped").
NoReplay == replayed = {}
=============================================================================
