--------------------------- MODULE SessionProofs ---------------------------
(***************************************************************************)
(* Proofs about Session, for every word size, window length, number of     *)
(* goroutines and bound.                                                   *)
(***************************************************************************)
EXTENDS Session, TLAPS

\* The window has a positive size and a counter's position lies inside it.
LEMMA WindowFacts ==
    /\ WindowSize \in Nat \ {0}
    /\ \A c \in Nat : c % WindowSize \in Positions
  <1>1. WordBits \in Nat /\ WordBits > 0 /\ Words \in Nat /\ Words > 0
    BY WindowAssumption
  <1>2. WindowSize \in Int /\ WindowSize > 0
    BY <1>1, Z3 DEF WindowSize
  <1> QED
    BY <1>2 DEF Positions

\* Inside the first window a counter is its own position.
LEMMA FirstWindowPosition ==
    ASSUME NEW c \in Nat, c < WindowSize
    PROVE  c % WindowSize = c
  BY WindowFacts

\* Advance keeps the window well formed.
LEMMA AdvanceType ==
    ASSUME NEW w \in Window, NEW c \in Nat
    PROVE  Advance(w, c) \in Window
  <1> DEFINE n == SlideDistance(w, c)
             slid == IF c - w.floor >= WindowSize THEN SlideBy(w, n) ELSE w
  <1>1. w.floor \in Nat /\ w.bitmap \subseteq Positions
    BY DEF Window
  <1>2. ASSUME c - w.floor >= WindowSize
        PROVE  SlideBy(w, n) \in Window
    <2>1. n \in Nat
      BY <1>1, <1>2, WindowFacts DEF SlideDistance
    <2> DEFINE shifted == IF n >= WindowSize THEN {} ELSE
                 BitShift(WordShift(w.bitmap, n \div WordBits), n % WordBits)
    <2>2. shifted \subseteq Positions
      BY DEF BitShift
    <2>3. w.floor + n \in Nat
      BY <1>1, <2>1
    <2> QED
      BY <2>2, <2>3 DEF SlideBy, Window
  <1>3. slid \in Window
    BY <1>2
  <1>4. [slid EXCEPT !.bitmap = @ \cup {c % WindowSize}] \in Window
    BY <1>3, WindowFacts DEF Window
  <1> QED
    BY <1>4 DEF Advance

\* Advance never lowers the floor and brings the counter inside the window.
LEMMA AdvanceFloor ==
    ASSUME NEW w \in Window, NEW c \in Nat
    PROVE  Advance(w, c).floor =
               IF c - w.floor >= WindowSize THEN c - WindowSize + 1 ELSE w.floor
  <1>1. w.floor \in Nat
    BY DEF Window
  <1>2. CASE c < w.floor
    BY <1>1, <1>2, WindowFacts DEF Advance
  <1>3. CASE c >= w.floor /\ c - w.floor >= WindowSize
    <2>1. SlideBy(w, SlideDistance(w, c)).floor = w.floor + SlideDistance(w, c)
      BY DEF SlideBy
    <2>2. w.floor + SlideDistance(w, c) = c - WindowSize + 1
      BY <1>1, WindowFacts DEF SlideDistance
    <2>3. Advance(w, c).floor = SlideBy(w, SlideDistance(w, c)).floor
      BY <1>1, <1>3, WindowFacts DEF Advance, SlideBy
    <2> QED
      BY <1>3, <2>1, <2>2, <2>3
  <1>4. CASE c >= w.floor /\ ~(c - w.floor >= WindowSize)
    BY <1>1, <1>4, WindowFacts DEF Advance, Window
  <1> QED
    BY <1>1, <1>2, <1>3, <1>4

-----------------------------------------------------------------------------
(* Type correctness. *)

\* Both ends start with the first key, no packet and an empty window.
LEMMA TypeInit == Init => TypeOK
  <1> SUFFICES ASSUME Init PROVE TypeOK
    OBVIOUS
  <1>1. EmptyWindow \in Window /\ NoPacket \in Packets /\ 0 \in Keys
    BY SessionAssumption DEF EmptyWindow, Window, NoPacket, Packets, Keys
  <1> QED
    BY <1>1 DEF Init, TypeOK

\* What an idle goroutine holds is a packet in form.
LEMMA NoPacketType == NoPacket \in Packets
  BY SessionAssumption DEF NoPacket, Packets, Keys

\* No step of Encrypt, Decrypt or Rotate leaves the types.
LEMMA TypeStep == TypeOK /\ [Next]_vars => TypeOK'
  <1> SUFFICES ASSUME TypeOK, [Next]_vars PROVE TypeOK'
    OBVIOUS
  <1> USE DEF TypeOK, sendVars, recvVars
  <1>1. ASSUME NEW s \in Senders, EncryptReadKey(s) PROVE TypeOK'
    BY <1>1 DEF EncryptReadKey
  <1>2. ASSUME NEW s \in Senders, EncryptSeal(s) PROVE TypeOK'
    <2>1. [key |-> heldKey[s], counter |-> sendCounter, body |-> seals] \in Packets
      BY DEF Packets
    <2>2. 0 \in Keys
      BY SessionAssumption DEF Keys
    <2> QED
      BY <1>2, <2>1, <2>2 DEF EncryptSeal
  <1>3. CASE RotateSend
    BY <1>3, SessionAssumption DEF RotateSend, Keys
  <1>4. ASSUME NEW r \in Receivers, NEW p \in sealed, DecryptCheck(r, p)
        PROVE  TypeOK'
    BY <1>4 DEF DecryptCheck
  <1>5. ASSUME NEW r \in Receivers, DecryptOpen(r) PROVE TypeOK'
    BY <1>5, NoPacketType DEF DecryptOpen, Return
  <1>6. ASSUME NEW r \in Receivers, DecryptAdvance(r) PROVE TypeOK'
    <2>1. heldPkt[r] \in Packets /\ heldPkt[r].counter \in Nat
      BY DEF Packets
    <2>2. win' \in Window
      BY <1>6, <2>1, AdvanceType DEF DecryptAdvance
    <2> QED
      BY <1>6, <2>1, <2>2, NoPacketType DEF DecryptAdvance, Return
  <1>7. CASE RotateRecv
    BY <1>7, SessionAssumption DEF RotateRecv, Keys, EmptyWindow, Window
  <1>8. CASE UNCHANGED vars
    BY <1>8 DEF vars
  <1> QED
    BY <1>1, <1>2, <1>3, <1>4, <1>5, <1>6, <1>7, <1>8 DEF Next

\* The code's types: keys, counters, windows and packets stay in their sets.
THEOREM TypeCorrect == Spec => []TypeOK
  BY TypeInit, TypeStep, PTL DEF Spec

-----------------------------------------------------------------------------
(* The window's floor, and the acceptance of in-order streams. *)

\* Until the first slide the bitmap is exactly the set of marked counters.
BitmapExact ==
    win.floor = 0 => win.bitmap = advanced

WindowInv == TypeOK /\ FloorTracksHighest /\ BitmapExact

\* The empty window has marked nothing.
LEMMA WindowInit == Init => WindowInv
  <1> SUFFICES ASSUME Init PROVE WindowInv
    OBVIOUS
  <1> QED
    BY TypeInit DEF Init, WindowInv, FloorTracksHighest, BitmapExact, EmptyWindow

\* Advance and Reset keep the floor and the first window in step with the
\* counters marked.
LEMMA WindowStep == WindowInv /\ [Next]_vars => WindowInv'
  <1> SUFFICES ASSUME WindowInv, [Next]_vars
               PROVE  FloorTracksHighest' /\ BitmapExact'
    BY TypeStep DEF WindowInv
  <1> USE DEF WindowInv
  <1>1. ASSUME NEW r \in Receivers, DecryptAdvance(r)
        PROVE  FloorTracksHighest' /\ BitmapExact'
    <2> DEFINE c == heldPkt[r].counter
    <2>1. c \in Nat /\ win \in Window /\ win.floor \in Nat
      BY DEF TypeOK, Packets, Window
    <2>2. win' = Advance(win, c) /\ advanced' = advanced \cup {c}
      BY <1>1 DEF DecryptAdvance
    <2>3. win'.floor = IF c - win.floor >= WindowSize
                       THEN c - WindowSize + 1 ELSE win.floor
      BY <2>1, <2>2, AdvanceFloor
    <2>4. \A a \in advanced : a \in Nat
      BY DEF TypeOK
    <2>5. FloorTracksHighest'
      <3>1. WindowSize' = WindowSize /\ WindowSize \in Nat \ {0}
        BY WindowFacts DEF WindowSize
      <3>2. \A a \in advanced : a < win'.floor + WindowSize
        BY <2>1, <2>3, <2>4, <3>1 DEF FloorTracksHighest
      <3>3. c < win'.floor + WindowSize
        BY <2>1, <2>3, <3>1
      <3>4. win'.floor > 0 => win'.floor + WindowSize - 1 \in advanced \cup {c}
        BY <2>1, <2>3, <3>1 DEF FloorTracksHighest
      <3> QED
        BY <2>2, <3>1, <3>2, <3>3, <3>4 DEF FloorTracksHighest
    <2>6. BitmapExact'
      <3> SUFFICES ASSUME win'.floor = 0 PROVE win'.bitmap = advanced'
        BY DEF BitmapExact
      <3>1. win.floor = 0 /\ c < WindowSize
        BY <2>1, <2>3, WindowFacts
      <3>2. win' = [win EXCEPT !.bitmap = @ \cup {c % WindowSize}]
        <4>1. ~(c < win.floor) /\ ~(c - win.floor >= WindowSize)
          BY <2>1, <3>1, WindowFacts
        <4> QED
          BY <2>2, <4>1 DEF Advance
      <3>3. c % WindowSize = c
        BY <2>1, <3>1, FirstWindowPosition
      <3> QED
        BY <2>1, <2>2, <3>1, <3>2, <3>3 DEF BitmapExact, Window
    <2> QED
      BY <2>5, <2>6
  <1>2. CASE RotateRecv
    BY <1>2 DEF RotateRecv, FloorTracksHighest, BitmapExact, EmptyWindow
  <1>3. CASE UNCHANGED <<win, advanced>>
    BY <1>3 DEF FloorTracksHighest, BitmapExact
  <1> QED
    BY <1>1, <1>2, <1>3
    DEF Next, vars, recvVars, EncryptReadKey, EncryptSeal, RotateSend,
        DecryptCheck, DecryptOpen

\* However concurrent Decrypts interleave, the floor of the replay window is
\* one window behind the highest counter marked since the last Reset.
THEOREM FloorCorrect == Spec => []FloorTracksHighest
  BY WindowInit, WindowStep, PTL DEF Spec, WindowInv

\* A counter above every marked one passes Check: the filter never refuses an
\* in-order stream.
THEOREM InOrderCorrect == Spec => []InOrderAccepted
  <1>1. WindowInv => InOrderAccepted
    <2> SUFFICES ASSUME WindowInv, NEW c \in 0 .. MaxPackets,
                        \A a \in advanced : a < c
                 PROVE  Check(win, c)
      BY DEF InOrderAccepted
    <2>1. c \in Nat /\ win.floor \in Nat /\ WindowSize \in Nat \ {0}
      BY SessionAssumption, WindowFacts DEF WindowInv, TypeOK, Window
    <2>2. CASE win.floor > 0
      <3>1. win.floor + WindowSize - 1 < c
        BY <2>2 DEF WindowInv, FloorTracksHighest
      <3> QED
        BY <2>1, <3>1 DEF Check
    <2>3. CASE win.floor = 0 /\ c < WindowSize
      <3>1. c \notin advanced
        BY <2>1
      <3>2. c % WindowSize = c
        BY <2>1, <2>3, FirstWindowPosition
      <3> QED
        BY <2>1, <2>3, <3>1, <3>2 DEF Check, WindowInv, BitmapExact
    <2>4. CASE win.floor = 0 /\ c >= WindowSize
      BY <2>1, <2>4 DEF Check
    <2> QED
      BY <2>1, <2>2, <2>3, <2>4
  <1> QED
    BY <1>1, WindowInit, WindowStep, PTL DEF Spec

\* In the first window every counter is checked against the counters marked.
LEMMA FirstWindowCheck ==
    ASSUME WindowInv, win.floor = 0, NEW c \in Nat
    PROVE  Check(win, c) <=> c \notin advanced
  <1>1. WindowSize \in Nat \ {0} /\ win.bitmap = advanced
    BY WindowFacts DEF WindowInv, BitmapExact
  <1>2. \A a \in advanced : a \in Nat /\ a < WindowSize
    BY <1>1, WindowFacts DEF WindowInv, FloorTracksHighest, TypeOK
  <1>3. CASE c < WindowSize
    <2>1. c % WindowSize = c
      BY <1>3, FirstWindowPosition
    <2> QED
      BY <1>1, <1>3, <2>1 DEF Check
  <1>4. CASE c >= WindowSize
    BY <1>1, <1>2, <1>4 DEF Check
  <1> QED
    BY <1>1, <1>3, <1>4

\* Until the window first slides, no counter is refused that was not marked
\* and none is accepted that was.
THEOREM FirstWindowCorrect == Spec => []FirstWindowExact
  <1>1. WindowInv => FirstWindowExact
    BY FirstWindowCheck, SessionAssumption DEF FirstWindowExact
  <1> QED
    BY <1>1, WindowInit, WindowStep, PTL DEF Spec

-----------------------------------------------------------------------------
(* Replays before the first slide. *)

\* What was returned is marked; two receivers that hold one packet, and one
\* that holds a packet that was returned, overlapped.
ReplayInv ==
    /\ WindowInv
    /\ NoReplayBeforeSlide
    /\ \A q, r \in Receivers :
           q # r /\ recvPc[q] # "idle" /\ recvPc[r] # "idle" /\ heldPkt[q] = heldPkt[r]
               => heldPkt[r] \in overlapped
    /\ win.floor = 0 /\ recvKey = 0 =>
           /\ \A p \in delivered : p.counter \in advanced
           /\ \A r \in Receivers :
                  recvPc[r] # "idle" /\ heldPkt[r] \in delivered
                      => heldPkt[r] \in overlapped

\* A packet that passes Check was not returned before; one that is returned
\* while another receiver holds it has overlapped.
LEMMA ReplayStep == ReplayInv /\ [Next]_vars => ReplayInv'
  <1> SUFFICES ASSUME ReplayInv, [Next]_vars PROVE ReplayInv'
    OBVIOUS
  <1>1. WindowInv /\ WindowInv' /\ TypeOK /\ TypeOK'
    BY WindowStep DEF ReplayInv, WindowInv
  <1>2. ASSUME NEW r \in Receivers, NEW p \in sealed, DecryptCheck(r, p)
        PROVE  ReplayInv'
    <2>1. win.floor = 0 /\ recvKey = 0 => p \notin delivered
      <3>1. p.counter \in Nat
        BY <1>1 DEF TypeOK, Packets
      <3>2. win.floor = 0 => p.counter \notin advanced
        BY <1>1, <1>2, <3>1, FirstWindowCheck DEF DecryptCheck
      <3> QED
        BY <3>2 DEF ReplayInv
    <2>2. /\ recvPc' = [recvPc EXCEPT ![r] = "checked"]
          /\ heldPkt' = [heldPkt EXCEPT ![r] = p]
          /\ recvPc[r] = "idle"
          /\ UNCHANGED <<win, recvKey, delivered, replayed, advanced>>
      BY <1>2 DEF DecryptCheck
    <2>3. heldPkt'[r] = p
          /\ \A q \in Receivers \ {r} : heldPkt'[q] = heldPkt[q] /\ recvPc'[q] = recvPc[q]
      BY <1>1, <2>2 DEF TypeOK
    <2>4. /\ overlapped \subseteq overlapped'
          /\ \A q \in Receivers :
                 recvPc[q] # "idle" /\ heldPkt[q] = p => p \in overlapped'
      BY <1>2 DEF DecryptCheck, Holds
    <2>5. \A q, s \in Receivers :
             q # s /\ recvPc'[q] # "idle" /\ recvPc'[s] # "idle" /\ heldPkt'[q] = heldPkt'[s]
                 => heldPkt'[s] \in overlapped'
      <3> SUFFICES ASSUME NEW q \in Receivers, NEW s \in Receivers, q # s,
                          recvPc'[q] # "idle", recvPc'[s] # "idle",
                          heldPkt'[q] = heldPkt'[s]
                   PROVE  heldPkt'[s] \in overlapped'
        OBVIOUS
      <3>1. CASE q # r /\ s # r
        BY <2>3, <2>4, <3>1 DEF ReplayInv
      <3>2. CASE q = r \/ s = r
        BY <2>3, <2>4, <3>2
      <3> QED
        BY <3>1, <3>2
    <2>6. win'.floor = 0 /\ recvKey' = 0 =>
             /\ \A d \in delivered' : d.counter \in advanced'
             /\ \A q \in Receivers :
                    recvPc'[q] # "idle" /\ heldPkt'[q] \in delivered'
                        => heldPkt'[q] \in overlapped'
      BY <2>1, <2>2, <2>3, <2>4 DEF ReplayInv
    <2>7. NoReplayBeforeSlide'
      BY <2>2, <2>4 DEF ReplayInv, NoReplayBeforeSlide
    <2> QED
      BY <1>1, <2>5, <2>6, <2>7 DEF ReplayInv
  <1>3. ASSUME NEW r \in Receivers, DecryptOpen(r) PROVE ReplayInv'
    <2>1. /\ \A q \in Receivers : recvPc'[q] # "idle" => recvPc[q] # "idle"
          /\ \A q \in Receivers : recvPc'[q] # "idle" => heldPkt'[q] = heldPkt[q]
          /\ UNCHANGED <<win, recvKey, delivered, replayed, overlapped, advanced>>
      BY <1>1, <1>3 DEF DecryptOpen, Return, TypeOK
    <2> QED
      BY <1>1, <2>1 DEF ReplayInv, NoReplayBeforeSlide
  <1>4. ASSUME NEW r \in Receivers, DecryptAdvance(r) PROVE ReplayInv'
    <2>1. win \in Window /\ win.floor \in Nat /\ heldPkt[r].counter \in Nat
      BY <1>1 DEF TypeOK, Window, Packets
    <2>2. win'.floor = 0 => win.floor = 0
      BY <1>4, <2>1, AdvanceFloor, WindowFacts DEF DecryptAdvance
    <2>3. /\ replayed' = replayed \cup (delivered \cap {heldPkt[r]})
          /\ delivered' = delivered \cup {heldPkt[r]}
          /\ advanced' = advanced \cup {heldPkt[r].counter}
          /\ UNCHANGED <<recvKey, overlapped>>
          /\ recvPc[r] # "idle"
      BY <1>4 DEF DecryptAdvance
    <2>4. \A q \in Receivers :
             recvPc'[q] # "idle" => q # r /\ recvPc[q] # "idle" /\ heldPkt'[q] = heldPkt[q]
      BY <1>1, <1>4 DEF DecryptAdvance, Return, TypeOK
    <2>5. NoReplayBeforeSlide'
      BY <2>2, <2>3 DEF ReplayInv, NoReplayBeforeSlide
    <2>6. win'.floor = 0 /\ recvKey' = 0 =>
             \A d \in delivered' : d.counter \in advanced'
      BY <2>2, <2>3 DEF ReplayInv
    <2>7. win'.floor = 0 /\ recvKey' = 0 =>
             \A q \in Receivers :
                 recvPc'[q] # "idle" /\ heldPkt'[q] \in delivered'
                     => heldPkt'[q] \in overlapped'
      BY <2>2, <2>3, <2>4 DEF ReplayInv
    <2>8. \A q, s \in Receivers :
             q # s /\ recvPc'[q] # "idle" /\ recvPc'[s] # "idle" /\ heldPkt'[q] = heldPkt'[s]
                 => heldPkt'[s] \in overlapped'
      BY <2>3, <2>4 DEF ReplayInv
    <2> QED
      BY <1>1, <2>5, <2>6, <2>7, <2>8 DEF ReplayInv
  <1>5. CASE RotateRecv
    <2>1. recvKey' # 0
      BY <1>1, <1>5, SessionAssumption DEF RotateRecv, TypeOK, Keys
    <2>2. UNCHANGED <<recvPc, heldPkt, overlapped>>
      BY <1>5 DEF RotateRecv
    <2> QED
      BY <1>1, <2>1, <2>2 DEF ReplayInv, NoReplayBeforeSlide
  <1>6. CASE UNCHANGED recvVars
    BY <1>1, <1>6 DEF ReplayInv, NoReplayBeforeSlide, recvVars
  <1> QED
    BY <1>2, <1>3, <1>4, <1>5, <1>6
    DEF Next, vars, EncryptReadKey, EncryptSeal, RotateSend

\* Until its window first slides, a node returns a packet twice only when two
\* goroutines were inside Decrypt with it at once: the duplicates that get
\* through come from the slide and from the gap between Check and Advance.
THEOREM ReplayCorrect == Spec => []NoReplayBeforeSlide
  <1>1. Init => ReplayInv
    <2> SUFFICES ASSUME Init PROVE ReplayInv
      OBVIOUS
    <2> QED
      BY WindowInit DEF Init, ReplayInv, NoReplayBeforeSlide
  <1> QED
    BY <1>1, ReplayStep, PTL DEF Spec, ReplayInv

-----------------------------------------------------------------------------
(* Nonces. *)

\* A key is never ahead of the sender's, and the counters sealed under the
\* current key are below the next one to be used.
NonceInv ==
    /\ TypeOK
    /\ CurrentKeyNonceUnique
    /\ \A s \in Senders : heldKey[s] <= sendKey
    /\ \A p \in sealed : p.key <= sendKey
    /\ \A p \in sealed : p.key = sendKey => p.counter < sendCounter

\* A counter is taken above all those sealed under the current key, and a
\* rotation starts a key nothing is sealed under.
LEMMA NonceStep == NonceInv /\ [Next]_vars => NonceInv'
  <1> SUFFICES ASSUME NonceInv, [Next]_vars PROVE NonceInv'
    OBVIOUS
  <1>1. TypeOK /\ TypeOK'
    BY TypeStep DEF NonceInv
  <1>2. sendKey \in Nat /\ sendCounter \in Nat
        /\ (\A s \in Senders : heldKey[s] \in Nat)
        /\ (\A p \in sealed : p.key \in Nat /\ p.counter \in Nat)
    BY <1>1, SessionAssumption DEF TypeOK, Keys, Packets
  <1>3. ASSUME NEW s \in Senders, EncryptReadKey(s) PROVE NonceInv'
    BY <1>1, <1>2, <1>3 DEF NonceInv, EncryptReadKey, CurrentKeyNonceUnique, TypeOK
  <1>4. ASSUME NEW s \in Senders, EncryptSeal(s) PROVE NonceInv'
    <2> DEFINE new == [key |-> heldKey[s], counter |-> sendCounter, body |-> seals]
    <2>1. sealed' = sealed \cup {new} /\ sendCounter' = sendCounter + 1
          /\ sendKey' = sendKey
          /\ \A q \in Senders : heldKey'[q] = heldKey[q] \/ heldKey'[q] = 0
      BY <1>1, <1>4 DEF EncryptSeal, TypeOK
    <2>2. new.key = heldKey[s] /\ new.counter = sendCounter
      OBVIOUS
    <2>3. \A p \in sealed : p.key = sendKey => p.counter # sendCounter
      BY <1>2 DEF NonceInv
    <2>4. CurrentKeyNonceUnique'
      BY <2>1, <2>2, <2>3 DEF NonceInv, CurrentKeyNonceUnique
    <2>5. \A p \in sealed' : p.key = sendKey' => p.counter < sendCounter'
      BY <1>2, <2>1, <2>2 DEF NonceInv
    <2>6. \A p \in sealed' : p.key <= sendKey'
      BY <2>1, <2>2 DEF NonceInv
    <2>7. \A q \in Senders : heldKey'[q] <= sendKey'
      BY <1>2, <2>1 DEF NonceInv
    <2> QED
      BY <1>1, <2>4, <2>5, <2>6, <2>7 DEF NonceInv
  <1>5. CASE RotateSend
    <2>1. \A p \in sealed : p.key # sendKey'
      BY <1>2, <1>5 DEF NonceInv, RotateSend
    <2>2. sealed' = sealed /\ heldKey' = heldKey /\ sendKey' = sendKey + 1
      BY <1>5 DEF RotateSend
    <2> QED
      BY <1>1, <1>2, <2>1, <2>2 DEF NonceInv, CurrentKeyNonceUnique
  <1>6. CASE UNCHANGED sendVars
    BY <1>1, <1>6 DEF NonceInv, CurrentKeyNonceUnique, sendVars
  <1> QED
    BY <1>3, <1>4, <1>5, <1>6
    DEF Next, vars, DecryptCheck, DecryptOpen, DecryptAdvance, RotateRecv

\* Encrypt never seals two packets with one nonce under the sender's current
\* key, whatever the interleaving of Encrypts and Rotates.
THEOREM CurrentKeyNonceCorrect == Spec => []CurrentKeyNonceUnique
  <1>1. Init => NonceInv
    <2> SUFFICES ASSUME Init PROVE NonceInv
      OBVIOUS
    <2> QED
      BY TypeInit DEF Init, NonceInv, CurrentKeyNonceUnique
  <1> QED
    BY <1>1, NonceStep, PTL DEF Spec, NonceInv
=============================================================================
