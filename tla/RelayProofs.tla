---------------------------- MODULE RelayProofs ----------------------------
(***************************************************************************)
(* Proofs about Relay, for any number of connections and keys, any limit   *)
(* and any capacity, and, in the last part, about RelayClient.             *)
(*                                                                         *)
(* The inductive invariant relates the table to the steps of the handlers: *)
(* what is registered is served and open, what is served and not           *)
(* registered is closed and was overlapped.  Neither half is inductive     *)
(* alone: addClient closes the connection that it finds in the table, and  *)
(* that this one is recorded as overlapped needs it to be still served.    *)
(***************************************************************************)
EXTENDS Relay, RelayClient, FiniteSetTheorems, TLAPS

\* A connection whose client has not been added has an open channel.
Unadded == \A c \in Conns : pc[c] \in {"new", "admitted"} => open[c] /\ writer[c] = "none"

\* Connections of one key that are served together are recorded.
Recorded == \A c, d \in Served : c # d /\ KeyOf[c] = KeyOf[d] => c \in overlapped

\* A connection that is served without being registered has a closed channel.
CutOffClosed == \A c \in Served \ Registered : ~ open[c]

\* So has one whose handler is through, unless its client was never added.
EndedClosed == \A c \in Conns : pc[c] \in {"closing", "done"} /\ writer[c] # "none" => ~ open[c]

\* The table has every connection under its own key.
Filed == \A k \in Keys : clients[k] # NoConn => KeyOf[clients[k]] = k

IInv ==
    /\ TypeOK
    /\ Filed
    /\ RegisteredOpen
    /\ NoGhost
    /\ Unadded
    /\ Recorded
    /\ CutOffOnlyByOverlap
    /\ CutOffClosed
    /\ EndedClosed

-----------------------------------------------------------------------------

\* Every connection's key is a key of the table.
LEMMA KeyInKeys == ASSUME NEW c \in Conns PROVE KeyOf[c] \in Keys
BY DEF Keys

\* What the table has is registered, under the key at which it is found.
LEMMA InTable ==
    ASSUME Filed, NEW k \in Keys, NEW d \in Conns, clients[k] = d
    PROVE  d \in Registered /\ KeyOf[d] = k
BY RelayAssumption DEF Filed, Registered

\* Initially nothing is registered and nothing is served.
LEMMA InitIInv == Init => IInv
<1> SUFFICES ASSUME Init PROVE IInv
  OBVIOUS
<1> USE RelayAssumption DEF Init
<1>1. TypeOK
  <2>1. clients \in [Keys -> Conns \cup {NoConn}] /\ target \in [Conns -> Conns \cup {NoConn}]
    OBVIOUS
  <2>2. pc \in [Conns -> Steps] /\ writer \in [Conns -> {"none", "running", "ended"}]
    BY DEF Steps
  <2>3. open \in [Conns -> BOOLEAN] /\ link \in [Conns -> BOOLEAN]
    OBVIOUS
  <2>4. chan \in [Conns -> 0 .. SendCap]
    OBVIOUS
  <2>5. overlapped \subseteq Conns /\ raced \in BOOLEAN
    OBVIOUS
  <2>6. QED
    BY <2>1, <2>2, <2>3, <2>4, <2>5 DEF TypeOK
<1>2. Registered = {} /\ Served = {}
  BY KeyInKeys DEF Registered, Served
<1>3. RegisteredOpen /\ NoGhost /\ Recorded /\ CutOffOnlyByOverlap /\ CutOffClosed
  BY <1>2 DEF RegisteredOpen, NoGhost, Recorded, CutOffOnlyByOverlap, CutOffClosed
<1>4. Unadded /\ EndedClosed /\ Filed
  BY DEF Unadded, EndedClosed, Filed
<1>5. QED
  BY <1>1, <1>3, <1>4 DEF IInv

\* A full channel stays at its capacity.
LEMMA OfferType == ASSUME NEW n \in 0 .. SendCap PROVE Offer(n) \in 0 .. SendCap
BY RelayAssumption DEF Offer

\* Every step of a handler or a writer keeps the types.
LEMMA TypeStep == TypeOK /\ [Next]_vars => TypeOK'
<1> SUFFICES ASSUME TypeOK, [Next]_vars PROVE TypeOK'
  OBVIOUS
<1> USE DEF TypeOK, Steps
<1>1. ASSUME NEW c \in Conns, Refuse(c) \/ CheckLimit(c) \/ ReadEnd(c) PROVE TypeOK'
  BY <1>1 DEF Refuse, Rejected, CheckLimit, ReadEnd, Goto, tableVars, wireVars
<1>2. ASSUME NEW c \in Conns, AddClient(c) PROVE TypeOK'
  <2>1. clients' \in [Keys -> Conns \cup {NoConn}]
    BY <1>2 DEF AddClient
  <2>2. open' \in [Conns -> BOOLEAN]
    BY <1>2 DEF AddClient, CloseOld
  <2>3. overlapped' \subseteq Conns /\ raced' \in BOOLEAN
    BY <1>2 DEF AddClient, Served
  <2>4. QED
    BY <1>2, <2>1, <2>2, <2>3 DEF AddClient, Goto, wireVars
<1>3. ASSUME NEW c \in Conns, Announce(c) \/ AnnounceGone(c) PROVE TypeOK'
  <2>1. chan' \in [Conns -> 0 .. SendCap]
    BY <1>3, OfferType DEF Announce, AnnounceGone, Broadcast
  <2>2. QED
    BY <1>3, <2>1 DEF Announce, AnnounceGone, Goto, tableVars
<1>4. ASSUME NEW c \in Conns, NEW k \in Keys, RouteLookup(c, k) PROVE TypeOK'
  BY <1>4 DEF RouteLookup, Goto, tableVars, wireVars
<1>5. ASSUME NEW c \in Conns, RouteSend(c) \/ Ping(c) PROVE TypeOK'
  <2>1. chan' \in [Conns -> 0 .. SendCap]
    BY <1>5, OfferType DEF RouteSend, Ping
  <2>2. QED
    BY <1>5, <2>1 DEF RouteSend, Ping, Panicked, Goto, tableVars
<1>6. ASSUME NEW c \in Conns, RemoveClient(c) PROVE TypeOK'
  BY <1>6 DEF RemoveClient, Unregister, Goto, wireVars
<1>7. ASSUME NEW c \in Conns, CloseConn(c) PROVE TypeOK'
  BY <1>7 DEF CloseConn, Goto, tableVars
<1>8. ASSUME NEW c \in Conns, Write(c) PROVE TypeOK'
  BY <1>8, RelayAssumption DEF Write, WriteFrame, WriteError, WriterEnd, tableVars
<1>9. CASE UNCHANGED vars
  BY <1>9 DEF vars
<1>10. QED
  BY <1>1, <1>2, <1>3, <1>4, <1>5, <1>6, <1>7, <1>8, <1>9 DEF Next, Unwind

-----------------------------------------------------------------------------

\* Steps that leave the table alone, and move no handler into the table or out of
\* it, keep the invariant.
LEMMA Local ==
    ASSUME IInv, TypeOK', UNCHANGED <<clients, open, overlapped>>,
           NEW c \in Conns, NEW step \in Steps,
           pc' = [pc EXCEPT ![c] = step],
           c \in Served <=> step \in {"added", "serving", "routing", "ending", "leaving"},
           \A d \in Conns : writer'[d] # "none" => writer[d] # "none" \/ (d = c /\ c \in Served),
           step # "new", step = "admitted" => pc[c] = "new"
    PROVE  IInv'
<1> USE DEF IInv, TypeOK
<1>1. Served' = Served /\ Registered' = Registered
  BY DEF Served, Registered
<1>2. RegisteredOpen' /\ NoGhost' /\ Recorded' /\ CutOffOnlyByOverlap' /\ CutOffClosed'
  BY <1>1 DEF RegisteredOpen, NoGhost, Recorded, CutOffOnlyByOverlap, CutOffClosed
<1>3. Unadded' /\ Filed'
  <2>1. Filed'
    BY DEF Filed
  <2>2. Unadded'
    <3> SUFFICES ASSUME NEW d \in Conns, pc'[d] \in {"new", "admitted"}
                 PROVE  open[d] /\ writer'[d] = "none"
      BY DEF Unadded
    <3>1. pc[d] \in {"new", "admitted"}
      BY DEF Served
    <3>2. ~ (d = c /\ c \in Served)
      BY <3>1 DEF Served
    <3>3. QED
      BY <3>1, <3>2 DEF Unadded
  <2>3. QED
    BY <2>1, <2>2
<1>4. EndedClosed'
  BY DEF EndedClosed, Unadded, Served, Steps
<1>5. QED
  BY <1>2, <1>3, <1>4

\* A client is added: the one it replaces is closed, and both are recorded.
LEMMA AddStep == ASSUME IInv, TypeOK', NEW c \in Conns, AddClient(c) PROVE IInv'
<1> USE DEF IInv, TypeOK
<1> DEFINE k == KeyOf[c]
<1>1. k \in Keys /\ c \notin Served /\ open[c] /\ writer[c] = "none" /\ c # NoConn
  BY KeyInKeys, RelayAssumption DEF AddClient, Served, Unadded
<1>2. c \notin Registered
  BY <1>1 DEF NoGhost
<1>3. Served' = Served \cup {c}
  BY DEF AddClient, Goto, Served
<1>4. \A d \in Conns : d \in Registered' <=> d = c \/ (d \in Registered /\ KeyOf[d] # k)
  BY <1>1, KeyInKeys DEF AddClient, Registered
<1>5. \A d \in Conns : open'[d] <=> open[d] /\ clients[k] # d
  BY DEF AddClient, CloseOld
<1>6. \A d \in Conns : d \in Registered /\ KeyOf[d] = k <=> d \in Registered /\ clients[k] = d
  BY <1>1, InTable DEF Registered
<1>7. open'[c]
  BY <1>1, <1>2, <1>5 DEF Registered
<1>8. overlapped \subseteq overlapped'
  BY DEF AddClient
<1>9. \A d \in Served : KeyOf[d] = k => d \in overlapped' /\ c \in overlapped'
  BY DEF AddClient
<1>10. RegisteredOpen'
  BY <1>4, <1>5, <1>6, <1>7 DEF RegisteredOpen, Registered
<1>11. NoGhost'
  BY <1>3, <1>4 DEF NoGhost, Registered
<1>12. Unadded'
  <2> SUFFICES ASSUME NEW d \in Conns, pc'[d] \in {"new", "admitted"}
               PROVE  open'[d] /\ writer'[d] = "none"
    BY DEF Unadded
  <2>1. pc[d] \in {"new", "admitted"} /\ writer'[d] = writer[d]
    BY DEF AddClient, Goto, wireVars
  <2>2. d \notin Registered
    BY <2>1 DEF NoGhost, Served
  <2>3. QED
    BY <2>1, <2>2, <1>1, <1>5, InTable DEF Unadded
<1>13. Recorded'
  BY <1>3, <1>8, <1>9 DEF Recorded
<1>14. CutOffOnlyByOverlap'
  <2> SUFFICES ASSUME NEW d \in Served', d \notin Registered' PROVE d \in overlapped'
    BY DEF CutOffOnlyByOverlap
  <2>1. d \in Served /\ d \in Conns
    BY <1>3, <1>4 DEF Served
  <2>2. CASE KeyOf[d] = k
    BY <2>1, <2>2, <1>9
  <2>3. CASE KeyOf[d] # k
    BY <2>1, <2>3, <1>4, <1>8 DEF CutOffOnlyByOverlap
  <2>4. QED
    BY <2>2, <2>3
<1>15. CutOffClosed'
  <2> SUFFICES ASSUME NEW d \in Served', d \notin Registered' PROVE ~ open'[d]
    BY DEF CutOffClosed
  <2>1. d \in Served /\ d \in Conns
    BY <1>3, <1>4 DEF Served
  <2>2. QED
    BY <2>1, <1>4, <1>5, <1>6 DEF CutOffClosed
<1>16. EndedClosed'
  <2> SUFFICES ASSUME NEW d \in Conns, pc'[d] \in {"closing", "done"}, writer'[d] # "none"
               PROVE  ~ open'[d]
    BY DEF EndedClosed
  <2>1. pc[d] \in {"closing", "done"} /\ writer[d] # "none"
    BY DEF AddClient, Goto, wireVars
  <2>2. QED
    BY <2>1, <1>5 DEF EndedClosed
<1>17. Filed'
  BY <1>1 DEF AddClient, Filed
<1>18. QED
  BY <1>10, <1>11, <1>12, <1>13, <1>14, <1>15, <1>16, <1>17

\* removeClient closes what it takes out, be it the handler's own client or, when a
\* later connection has replaced that, the later one, which is then overlapped.
LEMMA RemoveStep == ASSUME IInv, TypeOK', NEW c \in Conns, RemoveClient(c) PROVE IInv'
<1> USE DEF IInv, TypeOK
<1> DEFINE k == KeyOf[c]
<1>1. k \in Keys /\ c \in Served
  BY KeyInKeys DEF RemoveClient, Served
<1>2. Served' = Served \ {c}
  BY DEF RemoveClient, Goto, Served
<1>3. \A d \in Conns : d \in Registered' <=> d \in Registered /\ KeyOf[d] # k
  BY <1>1, KeyInKeys, RelayAssumption DEF RemoveClient, Unregister, Registered
<1>4. \A d \in Conns : open'[d] <=> open[d] /\ clients[k] # d
  BY DEF RemoveClient, Unregister
<1>5. UNCHANGED <<overlapped, writer>>
  BY DEF RemoveClient, wireVars
<1>6. \A d \in Conns : d \in Registered /\ KeyOf[d] = k => clients[k] = d
  BY DEF Registered
<1>7. \A d \in Conns : clients[k] = d /\ KeyOf[d] = k => d \in Registered
  BY DEF Registered
<1>8. RegisteredOpen'
  <2> SUFFICES ASSUME NEW d \in Registered' PROVE open'[d]
    BY DEF RegisteredOpen
  <2>1. d \in Conns /\ d \in Registered /\ KeyOf[d] # k
    BY <1>3 DEF Registered
  <2>2. clients[k] # d
    BY <2>1, <1>1, InTable
  <2>3. QED
    BY <2>1, <2>2, <1>4 DEF RegisteredOpen
<1>9. NoGhost'
  BY <1>2, <1>3 DEF NoGhost, Registered
<1>10. Unadded'
  <2> SUFFICES ASSUME NEW d \in Conns, pc'[d] \in {"new", "admitted"}
               PROVE  open'[d] /\ writer'[d] = "none"
    BY DEF Unadded
  <2>1. pc[d] \in {"new", "admitted"}
    BY DEF RemoveClient, Goto
  <2>2. d \notin Registered
    BY <2>1 DEF NoGhost, Served
  <2>3. QED
    BY <2>1, <2>2, <1>1, <1>4, <1>5, InTable DEF Unadded
<1>11. Recorded'
  BY <1>2, <1>5 DEF Recorded
<1>12. CutOffOnlyByOverlap'
  <2> SUFFICES ASSUME NEW d \in Served', d \notin Registered' PROVE d \in overlapped'
    BY DEF CutOffOnlyByOverlap
  <2>1. d \in Served /\ d \in Conns /\ d # c
    BY <1>2 DEF Served
  <2>2. CASE d \in Registered
    BY <2>1, <2>2, <1>1, <1>3, <1>5 DEF Recorded
  <2>3. CASE d \notin Registered
    BY <2>1, <2>3, <1>5 DEF CutOffOnlyByOverlap
  <2>4. QED
    BY <2>2, <2>3
<1>13. CutOffClosed'
  <2> SUFFICES ASSUME NEW d \in Served', d \notin Registered' PROVE ~ open'[d]
    BY DEF CutOffClosed
  <2>1. d \in Served /\ d \in Conns
    BY <1>2 DEF Served
  <2>2. QED
    BY <2>1, <1>3, <1>4, <1>6 DEF CutOffClosed
<1>14. EndedClosed'
  <2> SUFFICES ASSUME NEW d \in Conns, pc'[d] \in {"closing", "done"}, writer'[d] # "none"
               PROVE  ~ open'[d]
    BY DEF EndedClosed
  <2>1. CASE d = c
    BY <2>1, <1>1, <1>4, <1>6 DEF CutOffClosed
  <2>2. CASE d # c
    <3>1. pc[d] \in {"closing", "done"}
      BY <2>2 DEF RemoveClient, Goto
    <3>2. QED
      BY <3>1, <1>4, <1>5 DEF EndedClosed
  <2>3. QED
    BY <2>1, <2>2
<1>15. Filed'
  BY <1>1 DEF RemoveClient, Unregister, Filed
<1>16. QED
  BY <1>8, <1>9, <1>10, <1>11, <1>12, <1>13, <1>14, <1>15

\* The invariant is inductive.
LEMMA StepIInv == IInv /\ [Next]_vars => IInv'
<1> SUFFICES ASSUME IInv, [Next]_vars PROVE IInv'
  OBVIOUS
<1>1. TypeOK'
  BY TypeStep DEF IInv
<1> USE <1>1 DEF Served, Steps, Goto
<1>2. ASSUME NEW c \in Conns, Refuse(c) \/ CheckLimit(c) \/ ReadEnd(c) PROVE IInv'
  <2>1. UNCHANGED <<clients, open, overlapped, writer>>
    BY <1>2 DEF Refuse, CheckLimit, ReadEnd, tableVars, wireVars
  <2>2. CASE Refuse(c)
    BY <2>1, <2>2, Local DEF Refuse, Rejected
  <2>3. CASE CheckLimit(c)
    BY <2>1, <2>3, Local DEF CheckLimit
  <2>4. CASE ReadEnd(c)
    BY <2>1, <2>4, Local DEF ReadEnd
  <2>5. QED
    BY <1>2, <2>2, <2>3, <2>4
<1>3. ASSUME NEW c \in Conns, AddClient(c) PROVE IInv'
  BY <1>3, AddStep
<1>4. ASSUME NEW c \in Conns, Announce(c) PROVE IInv'
  <2>1. \A d \in Conns : writer'[d] # "none" => writer[d] # "none" \/ d = c
    BY <1>4 DEF Announce, IInv, TypeOK
  <2>2. QED
    BY <1>4, <2>1, Local DEF Announce, tableVars
<1>5. ASSUME NEW c \in Conns, AnnounceGone(c) PROVE IInv'
  BY <1>5, Local DEF AnnounceGone, tableVars
<1>6. ASSUME NEW c \in Conns, NEW k \in Keys, RouteLookup(c, k) PROVE IInv'
  BY <1>6, Local DEF RouteLookup, tableVars, wireVars
<1>7. ASSUME NEW c \in Conns, RouteSend(c) PROVE IInv'
  <2>1. UNCHANGED <<clients, open, overlapped, writer>> /\ pc[c] = "routing"
    BY <1>7 DEF RouteSend, tableVars
  <2>2. PICK step \in {"serving", "ending"} : pc' = [pc EXCEPT ![c] = step]
    BY <1>7 DEF RouteSend, Panicked
  <2>3. QED
    BY <2>1, <2>2, Local
<1>8. ASSUME NEW c \in Conns, Ping(c) PROVE IInv'
  <2>1. UNCHANGED <<clients, open, overlapped, writer>> /\ pc[c] = "serving"
    BY <1>8 DEF Ping, tableVars
  <2>2. PICK step \in {"serving", "ending"} : pc' = [pc EXCEPT ![c] = step]
    BY <1>8, <2>1 DEF Ping, Panicked, IInv, TypeOK
  <2>3. QED
    BY <2>1, <2>2, Local
<1>9. ASSUME NEW c \in Conns, RemoveClient(c) PROVE IInv'
  BY <1>9, RemoveStep
<1>10. ASSUME NEW c \in Conns, CloseConn(c) PROVE IInv'
  BY <1>10, Local DEF CloseConn, tableVars
<1>11. ASSUME NEW c \in Conns, Write(c) PROVE IInv'
  <2>1. UNCHANGED <<clients, open, overlapped, pc>>
    BY <1>11 DEF Write, WriteFrame, WriteError, WriterEnd, tableVars
  <2>2. \A d \in Conns : writer'[d] # "none" => writer[d] # "none"
    BY <1>11 DEF Write, WriteFrame, WriteError, WriterEnd, IInv, TypeOK
  <2>3. \A d \in Conns : writer[d] = "none" => writer'[d] = "none"
    BY <1>11 DEF Write, WriteFrame, WriteError, WriterEnd, IInv, TypeOK
  <2>4. QED
    BY <2>1, <2>2, <2>3 DEF IInv, RegisteredOpen, NoGhost, Unadded, Recorded, CutOffOnlyByOverlap,
                        CutOffClosed, EndedClosed, Registered, Filed
<1>12. CASE UNCHANGED vars
  BY <1>12 DEF vars, IInv, RegisteredOpen, NoGhost, Unadded, Recorded, CutOffOnlyByOverlap,
            CutOffClosed, EndedClosed, Registered, Filed
<1>13. QED
  BY <1>2, <1>3, <1>4, <1>5, <1>6, <1>7, <1>8, <1>9, <1>10, <1>11, <1>12 DEF Next, Unwind

\* Every behaviour of the relay satisfies the invariant.
LEMMA InvariantHolds == Spec => []IInv
<1>1. Init => IInv
  BY InitIInv
<1>2. IInv /\ [Next]_vars => IInv'
  BY StepIInv
<1>3. QED
  BY <1>1, <1>2, PTL DEF Spec

-----------------------------------------------------------------------------

\* The table, the handlers and the channels are well typed, and no channel holds
\* more frames than its capacity.
THEOREM TypeCorrect == Spec => []TypeOK
<1>1. IInv => TypeOK
  BY DEF IInv
<1>2. QED
  BY <1>1, InvariantHolds, PTL

\* What is registered can be sent to: a broadcast never meets a closed channel.
THEOREM RegisteredOpenCorrect == Spec => []RegisteredOpen
<1>1. IInv => RegisteredOpen
  BY DEF IInv
<1>2. QED
  BY <1>1, InvariantHolds, PTL

\* Nothing stays registered after its handler has cleaned up.
THEOREM NoGhostCorrect == Spec => []NoGhost
<1>1. IInv => NoGhost
  BY DEF IInv
<1>2. QED
  BY <1>1, InvariantHolds, PTL

\* Only another connection of the same key takes a served client out of the table.
THEOREM CutOffCorrect == Spec => []CutOffOnlyByOverlap
<1>1. IInv => CutOffOnlyByOverlap
  BY DEF IInv
<1>2. QED
  BY <1>1, InvariantHolds, PTL

\* When a handler is through, the channel its writer drains is closed: the safety
\* half of WritersEnd.
THEOREM EndedClosedCorrect == Spec => []EndedClosed
<1>1. IInv => EndedClosed
  BY DEF IInv
<1>2. QED
  BY <1>1, InvariantHolds, PTL
-----------------------------------------------------------------------------
(* The limit. *)

\* The keys that have a connection in the table.
Taken == {k \in Keys : clients[k] # NoConn}

\* While no client was added between another's check and its add, what the check
\* has found is still so when the client is added: removals only make room.
LimitInv ==
    /\ IsFiniteSet(Taken)
    /\ ~ raced => Cardinality(Taken) <= MaxClients
    /\ ~ raced => \A c \in Conns : pc[c] = "admitted" => Cardinality(Taken) < MaxClients

\* A step that takes no key, and admits no one.
LEMMA LimitKept ==
    ASSUME LimitInv, Taken' \subseteq Taken, raced \in BOOLEAN, raced' = raced,
           \A c \in Conns : pc'[c] = "admitted" => pc[c] = "admitted"
    PROVE  LimitInv'
<1>1. IsFiniteSet(Taken) /\ IsFiniteSet(Taken') /\ Cardinality(Taken') <= Cardinality(Taken)
  BY FS_Subset DEF LimitInv
<1>2. Cardinality(Taken) \in Nat /\ Cardinality(Taken') \in Nat /\ MaxClients \in Nat
  BY <1>1, FS_CardinalityType, RelayAssumption
<1>3. IsFiniteSet(Taken)'
  BY <1>1
<1>4. ~ raced' => Cardinality(Taken') <= MaxClients
  BY <1>1, <1>2 DEF LimitInv
<1>5. ~ raced' => \A c \in Conns : pc'[c] = "admitted" => Cardinality(Taken') < MaxClients
  BY <1>1, <1>2 DEF LimitInv
<1> QED
  BY <1>3, <1>4, <1>5 DEF LimitInv

\* One key more.
LEMMA OneMore ==
    ASSUME NEW S, NEW T, NEW k, IsFiniteSet(S), T \subseteq S \cup {k}
    PROVE  /\ IsFiniteSet(T) /\ Cardinality(T) \in Nat /\ Cardinality(S) \in Nat
           /\ Cardinality(T) <= Cardinality(S) + 1
<1>1. IsFiniteSet(S \cup {k}) /\ Cardinality(S) \in Nat
  BY FS_AddElement, FS_CardinalityType
<1>2. Cardinality(S \cup {k}) = Cardinality(S) \/ Cardinality(S \cup {k}) = Cardinality(S) + 1
  BY FS_AddElement
<1>3. IsFiniteSet(T) /\ Cardinality(T) <= Cardinality(S \cup {k})
  BY <1>1, FS_Subset
<1>4. Cardinality(T) \in Nat /\ Cardinality(S \cup {k}) \in Nat
  BY <1>1, <1>3, FS_CardinalityType
<1> QED
  BY <1>1, <1>2, <1>3, <1>4

\* Every step keeps it.
LEMMA LimitStep == TypeOK /\ LimitInv /\ [Next]_vars => LimitInv'
<1> SUFFICES ASSUME TypeOK, LimitInv, [Next]_vars PROVE LimitInv'
  OBVIOUS
<1>0. raced \in BOOLEAN /\ pc \in [Conns -> Steps] /\ clients \in [Keys -> Conns \cup {NoConn}]
  BY DEF TypeOK
<1>1. ASSUME NEW c \in Conns, CheckLimit(c) PROVE LimitInv'
  <2>1. UNCHANGED <<clients, raced>> /\ Cardinality(Taken) < MaxClients /\ Taken' = Taken
    BY <1>1 DEF CheckLimit, tableVars, Room, Taken
  <2> QED
    BY <2>1 DEF LimitInv
<1>2. ASSUME NEW c \in Conns, AddClient(c) PROVE LimitInv'
  <2>1. /\ pc[c] = "admitted" /\ clients' = [clients EXCEPT ![KeyOf[c]] = c]
        /\ pc' = [pc EXCEPT ![c] = "added"]
        /\ raced' = (raced \/ \E d \in Conns \ {c} : pc[d] = "admitted")
    BY <1>2 DEF AddClient, Goto
  <2>2. Taken' \subseteq Taken \cup {KeyOf[c]}
    BY <1>0, <2>1 DEF Taken
  <2>3. /\ IsFiniteSet(Taken') /\ Cardinality(Taken') \in Nat /\ Cardinality(Taken) \in Nat
        /\ Cardinality(Taken') <= Cardinality(Taken) + 1
    BY <2>2, OneMore DEF LimitInv
  <2>4. ~ raced' => ~ raced /\ \A d \in Conns : pc'[d] # "admitted"
    BY <1>0, <2>1
  <2>5. ~ raced' => Cardinality(Taken) < MaxClients
    BY <2>1, <2>4 DEF LimitInv
  <2>6. ~ raced' => Cardinality(Taken') <= MaxClients
    BY <2>3, <2>5, RelayAssumption
  <2> QED
    BY <2>3, <2>4, <2>6 DEF LimitInv
<1>3. ASSUME NEW c \in Conns, RemoveClient(c) PROVE LimitInv'
  <2>1. /\ clients' = [clients EXCEPT ![KeyOf[c]] = NoConn] /\ raced' = raced
        /\ pc' = [pc EXCEPT ![c] = "closing"]
    BY <1>3 DEF RemoveClient, Unregister, Goto
  <2>2. Taken' \subseteq Taken /\ \A d \in Conns : pc'[d] = "admitted" => pc[d] = "admitted"
    BY <1>0, <2>1 DEF Taken
  <2> QED
    BY <1>0, <2>1, <2>2, LimitKept
<1>4. ASSUME NEW c \in Conns,
             \/ Refuse(c) \/ Announce(c) \/ (\E k \in Keys : RouteLookup(c, k)) \/ RouteSend(c)
             \/ Ping(c) \/ ReadEnd(c) \/ AnnounceGone(c) \/ CloseConn(c) \/ Write(c)
      PROVE  LimitInv'
  <2>1. UNCHANGED <<clients, raced>>
    BY <1>4 DEF Refuse, Announce, RouteLookup, RouteSend, Ping, ReadEnd, AnnounceGone,
                CloseConn, Write, WriteFrame, WriteError, WriterEnd, tableVars
  <2>2. \A d \in Conns : pc'[d] = "admitted" => pc[d] = "admitted"
    BY <1>0, <1>4 DEF Refuse, Rejected, Announce, RouteLookup, RouteSend, Ping, ReadEnd,
                AnnounceGone, CloseConn, Write, WriteFrame, WriteError, WriterEnd, Panicked, Goto
  <2>3. Taken' = Taken
    BY <2>1 DEF Taken
  <2> QED
    BY <1>0, <2>1, <2>2, <2>3, LimitKept
<1>5. CASE UNCHANGED vars
  BY <1>0, <1>5, LimitKept DEF vars, Taken
<1> QED
  BY <1>1, <1>2, <1>3, <1>4, <1>5 DEF Next, Unwind

\* The table has more clients than the limit only if one was added between the
\* check of another and its add (the lock is released in between).
THEOREM LimitCorrect == Spec => []LimitOnlyByRace
<1>1. Init => LimitInv
  <2> SUFFICES ASSUME Init PROVE LimitInv
    OBVIOUS
  <2>1. Taken = {} /\ \A c \in Conns : pc[c] = "new"
    BY DEF Init, Taken
  <2> QED
    BY <2>1, FS_EmptySet, RelayAssumption DEF LimitInv
<1>2. LimitInv => LimitOnlyByRace
  <2> SUFFICES ASSUME LimitInv, ~ raced PROVE ~ (Cardinality(Taken) > MaxClients)
    BY DEF LimitOnlyByRace, Taken
  <2> QED
    BY FS_CardinalityType, RelayAssumption DEF LimitInv
<1> QED
  BY <1>1, <1>2, TypeCorrect, LimitStep, PTL DEF Spec

-----------------------------------------------------------------------------
(***************************************************************************)
(* The node's end, for any number of senders, connections and faults.      *)
(*                                                                         *)
(* Two arguments that need no fact of each other.  A sender that is not    *)
(* recorded as overtaken still aims at an open channel, as the read loop   *)
(* closes only the channel that is current when the flag is down.  And a   *)
(* writer that waits on a channel of another connection has lost its own,  *)
(* so the first packet it takes is the last.                               *)
(***************************************************************************)

\* While the flag is down the current channel is open: the read loop, which closes
\* it then, closes no channel twice.
OpenUnlessClosed == ~ closed => current \notin shut

\* Only channels that have been in c.send are closed.
ShutBehind == \A c \in shut : c <= current

\* Who was not overtaken by the read loop is right about its channel.
CheckedOpen ==
    \A s \in Senders \ slipped :
        /\ sender[s] = "checked" => ~ closed
        /\ sender[s] = "picked" => aim[s] <= current /\ aim[s] \notin shut

SendInv == ClientTypeOK /\ OpenUnlessClosed /\ ShutBehind /\ CheckedOpen /\ PanicOnlyByRace

\* At most the current connection lives, while Run reads from it, and a connection
\* has a writer from its beginning.
Alive(n) ==
    /\ pump[n] = "none" <=> tcp[n] = "none"
    /\ n > current => tcp[n] = "none"
    /\ n < current => tcp[n] \in {"none", "closed"}
    /\ n = current /\ run = "dialing" => tcp[n] = "none"
    /\ n = current /\ run = "reading" => tcp[n] # "none"
    /\ n = current /\ run # "reading" => tcp[n] \in {"none", "closed"}

\* Who waits on another connection's channel, or has taken from it, has lost its own.
Lost(n) ==
    /\ pump[n] \in {"none", "idle", "waiting"} => stolen[n] = 0
    /\ pump[n] = "waiting" /\ taking[n] # n => tcp[n] = "closed"
    /\ stolen[n] > 0 => tcp[n] = "closed"
    /\ stolen[n] <= 1

PumpInv == ClientTypeOK /\ \A n \in Connects : Alive(n) /\ Lost(n)

-----------------------------------------------------------------------------

\* Before Run starts nothing is connected, queued or sent.
LEMMA ClientInitType == ClientInit => ClientTypeOK
<1> SUFFICES ASSUME ClientInit PROVE ClientTypeOK
  OBVIOUS
<1> USE RelayClientAssumption DEF ClientInit, Chans
<1>1. current \in Chans /\ queue \in [Chans -> 0 .. ClientCap] /\ faults \in 0 .. MaxFaults
  OBVIOUS
<1>2. /\ tcp \in [Connects -> {"none", "up", "failed", "closed"}]
      /\ fresh \in [Connects -> SUBSET {"sent", "got"}]
  OBVIOUS
<1>3. /\ pump \in [Connects -> {"none", "idle", "waiting", "writing", "ended"}]
      /\ taking \in [Connects -> Chans] /\ stolen \in [Connects -> Nat]
  OBVIOUS
<1>4. sender \in [Senders -> {"idle", "checked", "picked"}] /\ aim \in [Senders -> Chans]
  OBVIOUS
<1>5. QED
  BY <1>1, <1>2, <1>3, <1>4 DEF ClientTypeOK

\* Run and the network keep the types.
LEMMA RunningType == ASSUME ClientTypeOK, Running PROVE ClientTypeOK'
<1> USE DEF ClientTypeOK, client, conns, writers, senders
<1>1. CASE Connect
  <2>1. current' \in Chans
    BY <1>1, RelayClientAssumption DEF Connect, Chans
  <2>2. QED
    BY <1>1, <2>1 DEF Connect
<1>2. CASE GiveUp
  BY <1>2 DEF GiveUp
<1>3. CASE DialSucceeds
  <2>1. tcp' \in [Connects -> {"none", "up", "failed", "closed"}]
    BY <1>3 DEF DialSucceeds
  <2>2. fresh' \in [Connects -> SUBSET {"sent", "got"}]
    BY <1>3 DEF DialSucceeds
  <2>3. pump' \in [Connects -> {"none", "idle", "waiting", "writing", "ended"}]
    BY <1>3 DEF DialSucceeds
  <2>4. QED
    BY <1>3, <2>1, <2>2, <2>3 DEF DialSucceeds
<1>4. CASE DialFails
  BY <1>4 DEF DialFails
<1>5. CASE Receive
  <2>1. fresh' \in [Connects -> SUBSET {"sent", "got"}]
    BY <1>5 DEF Receive
  <2>2. QED
    BY <1>5, <2>1 DEF Receive
<1>6. CASE ReadFails
  <2>1. tcp' \in [Connects -> {"none", "up", "failed", "closed"}]
    BY <1>6 DEF ReadFails
  <2>2. shut' \subseteq Chans /\ slipped' \subseteq Senders
    BY <1>6 DEF ReadFails
  <2>3. QED
    BY <1>6, <2>1, <2>2 DEF ReadFails
<1>7. CASE Cancel
  BY <1>7 DEF Cancel
<1>8. CASE CutOff
  <2>1. tcp' \in [Connects -> {"none", "up", "failed", "closed"}]
    BY <1>8 DEF CutOff
  <2>2. QED
    BY <1>8, <2>1 DEF CutOff
<1>9. ASSUME NEW n \in Connects, ReadTimesOut(n) PROVE ClientTypeOK'
  <2>1. tcp' \in [Connects -> {"none", "up", "failed", "closed"}]
    BY <1>9 DEF ReadTimesOut
  <2>2. QED
    BY <1>9, <2>1 DEF ReadTimesOut
<1>10. ASSUME NEW n \in Connects, Period(n) PROVE ClientTypeOK'
  <2>1. fresh' \in [Connects -> SUBSET {"sent", "got"}]
    BY <1>10 DEF Period
  <2>2. QED
    BY <1>10, <2>1 DEF Period
<1>11. ASSUME NEW n \in Connects, NetworkFails(n) PROVE ClientTypeOK'
  <2>1. tcp' \in [Connects -> {"none", "up", "failed", "closed"}]
    BY <1>11 DEF NetworkFails
  <2>2. faults' \in 0 .. MaxFaults
    BY <1>11, RelayClientAssumption DEF NetworkFails
  <2>3. QED
    BY <1>11, <2>1, <2>2 DEF NetworkFails
<1>12. QED
  BY <1>1, <1>2, <1>3, <1>4, <1>5, <1>6, <1>7, <1>8, <1>9, <1>10, <1>11 DEF Running

\* So does a writer, which takes a packet only from a channel that holds one.
LEMMA WritingType == ASSUME ClientTypeOK, NEW n \in Connects, Writing(n) PROVE ClientTypeOK'
<1> USE DEF ClientTypeOK, client, conns, writers, senders
<1>1. CASE WriterPick(n)
  <2>1. pump' \in [Connects -> {"none", "idle", "waiting", "writing", "ended"}]
    BY <1>1 DEF WriterPick
  <2>2. taking' \in [Connects -> Chans]
    BY <1>1 DEF WriterPick
  <2>3. QED
    BY <1>1, <2>1, <2>2 DEF WriterPick
<1>2. CASE WriterTake(n)
  <2>1. pump' \in [Connects -> {"none", "idle", "waiting", "writing", "ended"}]
    BY <1>2 DEF WriterTake
  <2>2. queue' \in [Chans -> 0 .. ClientCap]
    <3>1. queue[taking[n]] - 1 \in 0 .. ClientCap
      BY <1>2, RelayClientAssumption DEF WriterTake
    <3>2. QED
      BY <1>2, <3>1 DEF WriterTake
  <2>3. stolen' \in [Connects -> Nat]
    BY <1>2 DEF WriterTake
  <2>4. QED
    BY <1>2, <2>1, <2>2, <2>3 DEF WriterTake
<1>3. CASE WriterStop(n)
  <2>1. pump' \in [Connects -> {"none", "idle", "waiting", "writing", "ended"}]
    BY <1>3 DEF WriterStop
  <2>2. QED
    BY <1>3, <2>1 DEF WriterStop
<1>4. CASE WriterWrites(n)
  <2>1. pump' \in [Connects -> {"none", "idle", "waiting", "writing", "ended"}]
    BY <1>4 DEF WriterWrites
  <2>2. fresh' \in [Connects -> SUBSET {"sent", "got"}]
    BY <1>4 DEF WriterWrites
  <2>3. QED
    BY <1>4, <2>1, <2>2 DEF WriterWrites
<1>5. CASE WriterFails(n)
  <2>1. pump' \in [Connects -> {"none", "idle", "waiting", "writing", "ended"}]
    BY <1>5 DEF WriterFails, AfterError
  <2>2. faults' \in 0 .. MaxFaults
    BY <1>5, RelayClientAssumption DEF WriterFails
  <2>3. QED
    BY <1>5, <2>1, <2>2 DEF WriterFails
<1>6. QED
  BY <1>1, <1>2, <1>3, <1>4, <1>5 DEF Writing

\* And so does SendPacket, whose select drops what a full channel cannot take.
LEMMA SendingType == ASSUME ClientTypeOK, NEW s \in Senders, Sending(s) PROVE ClientTypeOK'
<1> USE DEF ClientTypeOK, client, conns, writers, senders
<1>1. CASE SendCheck(s)
  <2>1. sender' \in [Senders -> {"idle", "checked", "picked"}]
    BY <1>1 DEF SendCheck
  <2>2. slipped' \subseteq Senders
    BY <1>1 DEF SendCheck
  <2>3. QED
    BY <1>1, <2>1, <2>2 DEF SendCheck
<1>2. CASE SendPick(s)
  <2>1. sender' \in [Senders -> {"idle", "checked", "picked"}]
    BY <1>2 DEF SendPick
  <2>2. aim' \in [Senders -> Chans]
    BY <1>2 DEF SendPick
  <2>3. QED
    BY <1>2, <2>1, <2>2 DEF SendPick
<1>3. CASE SendPut(s)
  <2>1. sender' \in [Senders -> {"idle", "checked", "picked"}]
    BY <1>3 DEF SendPut
  <2>2. aim' \in [Senders -> Chans]
    BY <1>3, RelayClientAssumption DEF SendPut, Chans
  <2>3. panicked' \subseteq Senders
    BY <1>3 DEF SendPut
  <2>4. queue' \in [Chans -> 0 .. ClientCap]
    <3>1. HasRoom(aim[s]) => queue[aim[s]] + 1 \in 0 .. ClientCap
      BY RelayClientAssumption DEF HasRoom
    <3>2. QED
      BY <1>3, <3>1 DEF SendPut
  <2>5. QED
    BY <1>3, <2>1, <2>2, <2>3, <2>4 DEF SendPut
<1>4. QED
  BY <1>1, <1>2, <1>3 DEF Sending

\* Every step of Run, of a writer or of a sender keeps the types.
LEMMA ClientTypeStep == ClientTypeOK /\ [ClientNext]_clientVars => ClientTypeOK'
<1>1. ClientTypeOK /\ UNCHANGED clientVars => ClientTypeOK'
  BY DEF clientVars, ClientTypeOK, client, conns, writers, senders
<1>2. QED
  BY <1>1, RunningType, WritingType, SendingType DEF ClientNext

\* The client stays well typed, and no channel holds more than its capacity
\* although goroutines of the engine fill it at once and two writers may drain it.
THEOREM ClientTypeCorrect == ClientSpec => []ClientTypeOK
<1>1. ClientInit => ClientTypeOK
  BY ClientInitType
<1>2. ClientTypeOK /\ [ClientNext]_clientVars => ClientTypeOK'
  BY ClientTypeStep
<1>3. QED
  BY <1>1, <1>2, PTL DEF ClientSpec

-----------------------------------------------------------------------------

\* What senders rely on is about Run's channels and the senders themselves.
LEMMA SendersUndisturbed ==
    ASSUME SendInv, ClientTypeOK', UNCHANGED <<current, closed, shut, sender, aim, panicked, slipped>>
    PROVE  SendInv'
BY DEF SendInv, OpenUnlessClosed, ShutBehind, CheckedOpen, PanicOnlyByRace

\* A step keeps what senders rely on.
LEMMA SendStep == SendInv /\ [ClientNext]_clientVars => SendInv'
<1> SUFFICES ASSUME SendInv, [ClientNext]_clientVars PROVE SendInv'
  OBVIOUS
<1>1. ClientTypeOK'
  BY ClientTypeStep DEF SendInv
<1>2. CASE UNCHANGED <<current, closed, shut, sender, aim, panicked, slipped>>
  BY <1>1, <1>2, SendersUndisturbed
<1> SUFFICES (OpenUnlessClosed /\ ShutBehind /\ CheckedOpen /\ PanicOnlyByRace)'
  BY <1>1 DEF SendInv
<1> USE RelayClientAssumption DEF SendInv, ClientTypeOK, OpenUnlessClosed, ShutBehind, CheckedOpen,
        PanicOnlyByRace, Chans, client, conns, writers, senders
<1>3. CASE panicked = {} /\ Running
  <2>1. CASE Connect
    BY <2>1, <1>3 DEF Connect
  <2>2. CASE ReadFails
    BY <2>2, <1>3 DEF ReadFails
  <2>3. Running => \/ Connect \/ ReadFails
                   \/ UNCHANGED <<current, closed, shut, sender, aim, panicked, slipped>>
    BY DEF Running, GiveUp, DialSucceeds, DialFails, Receive, Cancel, CutOff, ReadTimesOut, Period,
           NetworkFails, client, senders
  <2>4. QED
    BY <1>2, <1>3, <2>1, <2>2, <2>3
<1>4. ASSUME NEW n \in Connects, Writing(n)
      PROVE  UNCHANGED <<current, closed, shut, sender, aim, panicked, slipped>>
  BY <1>4 DEF Writing, WriterPick, WriterTake, WriterStop, WriterWrites, WriterFails, client, senders
<1>5. ASSUME NEW s \in Senders, Sending(s), panicked = {}
      PROVE  (OpenUnlessClosed /\ ShutBehind /\ CheckedOpen /\ PanicOnlyByRace)'
  <2>1. CASE SendCheck(s)
    BY <2>1, <1>5 DEF SendCheck, Refused
  <2>2. CASE SendPick(s)
    BY <2>2, <1>5 DEF SendPick
  <2>3. CASE SendPut(s)
    BY <2>3, <1>5 DEF SendPut
  <2>4. QED
    BY <1>5, <2>1, <2>2, <2>3 DEF Sending
<1>6. UNCHANGED clientVars => UNCHANGED <<current, closed, shut, sender, aim, panicked, slipped>>
  BY DEF clientVars, client, senders
<1>7. QED
  BY <1>2, <1>3, <1>4, <1>5, <1>6 DEF ClientNext

\* SendPacket, which reads the flag under the lock and sends without it, panics
\* only when the read loop has closed the channel between the two.
THEOREM PanicCorrect == ClientSpec => []PanicOnlyByRace
<1>1. ClientInit => SendInv
  BY ClientInitType DEF ClientInit, SendInv, OpenUnlessClosed, ShutBehind, CheckedOpen, PanicOnlyByRace
<1>2. SendInv /\ [ClientNext]_clientVars => SendInv'
  BY SendStep
<1>3. SendInv => PanicOnlyByRace
  BY DEF SendInv
<1>4. QED
  BY <1>1, <1>2, <1>3, PTL DEF ClientSpec

\* The read loop closes no channel a second time, which would panic: it closes the
\* current one while the flag is down, and that one is open.
THEOREM ShutOnceCorrect == ClientSpec => [](~ closed => current \notin shut)
<1>1. ClientInit => SendInv
  BY ClientInitType DEF ClientInit, SendInv, OpenUnlessClosed, ShutBehind, CheckedOpen, PanicOnlyByRace
<1>2. SendInv /\ [ClientNext]_clientVars => SendInv'
  BY SendStep
<1>3. SendInv => (~ closed => current \notin shut)
  BY DEF SendInv, OpenUnlessClosed
<1>4. QED
  BY <1>1, <1>2, <1>3, PTL DEF ClientSpec

-----------------------------------------------------------------------------

\* Numbers of connections and channels can be compared.
LEMMA Numbers == ClientTypeOK => current \in Int /\ Connects \subseteq Int /\ taking \in [Connects -> Int]
BY RelayClientAssumption DEF ClientTypeOK, Connects, Chans

\* A step keeps at most one connection alive.
LEMMA AliveStep ==
    ASSUME ClientTypeOK, [ClientNext]_clientVars, NEW n \in Connects, Alive(n)
    PROVE  Alive(n)'
<1>1. /\ current \in Int /\ n \in Int
      /\ tcp \in [Connects -> {"none", "up", "failed", "closed"}]
      /\ pump \in [Connects -> {"none", "idle", "waiting", "writing", "ended"}]
  BY Numbers DEF ClientTypeOK
<1> USE <1>1 DEF Alive, client, conns, writers, senders
<1>2. CASE UNCHANGED <<run, current, tcp, pump>>
  BY <1>2
<1>3. CASE Running
  <2>1. CASE Connect
    BY <2>1 DEF Connect
  <2>2. CASE GiveUp \/ DialFails
    BY <2>2 DEF GiveUp, DialFails
  <2>3. CASE DialSucceeds
    BY <2>3 DEF DialSucceeds
  <2>4. CASE Receive \/ Cancel
    BY <1>2, <2>4 DEF Receive, Cancel
  <2>5. CASE CutOff
    BY <2>5 DEF CutOff
  <2>6. CASE ReadFails
    BY <2>6 DEF ReadFails
  <2>7. ASSUME NEW m \in Connects, ReadTimesOut(m) \/ NetworkFails(m) PROVE Alive(n)'
    BY <2>7 DEF ReadTimesOut, NetworkFails
  <2>8. ASSUME NEW m \in Connects, Period(m) PROVE Alive(n)'
    BY <1>2, <2>8 DEF Period
  <2>9. QED
    BY <1>3, <2>1, <2>2, <2>3, <2>4, <2>5, <2>6, <2>7, <2>8 DEF Running
<1>4. ASSUME NEW m \in Connects, Writing(m) PROVE Alive(n)'
  <2>1. UNCHANGED <<run, current, tcp>>
    BY <1>4 DEF Writing, WriterPick, WriterTake, WriterStop, WriterWrites, WriterFails
  <2>2. pump'[n] = "none" <=> pump[n] = "none"
    BY <1>4 DEF Writing, WriterPick, WriterTake, WriterStop, WriterWrites, WriterFails, AfterError
  <2>3. QED
    BY <2>1, <2>2
<1>5. ASSUME NEW s \in Senders, Sending(s) PROVE Alive(n)'
  BY <1>2, <1>5 DEF Sending, SendCheck, SendPick, SendPut
<1>6. CASE UNCHANGED clientVars
  BY <1>2, <1>6 DEF clientVars
<1>7. QED
  BY <1>3, <1>4, <1>5, <1>6 DEF ClientNext

\* A step keeps what was taken from later channels with writers that are lost.
LEMMA LostStep ==
    ASSUME ClientTypeOK, NEW n \in Connects, Alive(n), Lost(n), [ClientNext]_clientVars
    PROVE  Lost(n)'
<1>1. /\ current \in Int /\ n \in Int /\ taking \in [Connects -> Int] /\ stolen \in [Connects -> Nat]
      /\ tcp \in [Connects -> {"none", "up", "failed", "closed"}]
      /\ pump \in [Connects -> {"none", "idle", "waiting", "writing", "ended"}]
  BY Numbers DEF ClientTypeOK
<1> USE <1>1 DEF Lost, client, conns, writers, senders
<1>2. CASE UNCHANGED <<tcp, pump, taking, stolen>>
  BY <1>2
<1>3. CASE Running
  <2>1. CASE DialSucceeds
    <3>1. n = current => pump[n] = "none" /\ tcp[n] = "none"
      BY <2>1 DEF DialSucceeds, Alive
    <3>2. UNCHANGED <<taking, stolen>>
      BY <2>1 DEF DialSucceeds
    <3>3. n = current => tcp'[n] = "up" /\ pump'[n] = "idle"
      BY <2>1 DEF DialSucceeds
    <3>4. n # current => tcp'[n] = tcp[n] /\ pump'[n] = pump[n]
      BY <2>1 DEF DialSucceeds
    <3>5. QED
      BY <3>1, <3>2, <3>3, <3>4
  <2>2. CASE ReadFails \/ CutOff
    <3>1. UNCHANGED <<pump, taking, stolen>> /\ tcp'[n] \in {tcp[n], "closed"}
      BY <2>2 DEF ReadFails, CutOff
    <3>2. QED
      BY <3>1
  <2>3. ASSUME NEW m \in Connects, ReadTimesOut(m) \/ NetworkFails(m) PROVE Lost(n)'
    <3>1. UNCHANGED <<pump, taking, stolen>> /\ (tcp[n] = "closed" => tcp'[n] = "closed")
      BY <2>3 DEF ReadTimesOut, NetworkFails
    <3>2. QED
      BY <3>1
  <2>4. Running => \/ DialSucceeds \/ ReadFails \/ CutOff
                   \/ \E m \in Connects : ReadTimesOut(m) \/ NetworkFails(m)
                   \/ UNCHANGED <<tcp, pump, taking, stolen>>
    BY DEF Running, Connect, GiveUp, DialFails, Receive, Cancel, Period
  <2>5. QED
    BY <1>2, <1>3, <2>1, <2>2, <2>3, <2>4
<1>4. ASSUME NEW m \in Connects, Writing(m) PROVE Lost(n)'
  <2>1. CASE WriterPick(m)
    <3>1. CASE m = n
      <4>1. pump[n] = "idle" /\ taking'[n] = current /\ UNCHANGED <<tcp, stolen>>
        BY <2>1, <3>1 DEF WriterPick
      <4>2. current # n => tcp[n] = "closed"
        BY <4>1 DEF Alive
      <4>3. QED
        BY <4>1, <4>2
    <3>2. CASE m # n
      BY <2>1, <3>2 DEF WriterPick
    <3>3. QED
      BY <3>1, <3>2
  <2>2. CASE WriterTake(m)
    <3>1. UNCHANGED <<tcp, taking>> /\ (m # n => UNCHANGED <<pump[n], stolen[n]>>)
      BY <2>2 DEF WriterTake
    <3>2. CASE m = n
      <4>1. pump[n] = "waiting" /\ pump'[n] = "writing" /\ stolen[n] = 0
        BY <2>2, <3>2 DEF WriterTake
      <4>2. stolen'[n] = IF taking[n] = n THEN 0 ELSE 1
        BY <2>2, <3>2, <4>1 DEF WriterTake
      <4>3. QED
        BY <3>1, <4>1, <4>2
    <3>3. QED
      BY <3>1, <3>2
  <2>3. CASE WriterStop(m)
    <3>1. UNCHANGED <<tcp, taking, stolen>> /\ pump'[n] \in {pump[n], "ended"}
      BY <2>3 DEF WriterStop
    <3>2. QED
      BY <3>1
  <2>4. CASE WriterWrites(m)
    <3>1. UNCHANGED <<tcp, taking, stolen>> /\ (m # n => pump'[n] = pump[n])
      BY <2>4 DEF WriterWrites
    <3>2. m = n => tcp[n] # "closed" /\ pump'[n] = "idle"
      BY <2>4 DEF WriterWrites
    <3>3. QED
      BY <3>1, <3>2
  <2>5. CASE WriterFails(m)
    <3>1. UNCHANGED <<tcp, taking, stolen>> /\ pump'[n] \in {pump[n], "ended"}
      BY <2>5 DEF WriterFails, AfterError
    <3>2. QED
      BY <3>1
  <2>6. QED
    BY <1>4, <2>1, <2>2, <2>3, <2>4, <2>5 DEF Writing
<1>5. ASSUME NEW s \in Senders, Sending(s) PROVE Lost(n)'
  BY <1>2, <1>5 DEF Sending, SendCheck, SendPick, SendPut
<1>6. CASE UNCHANGED clientVars
  BY <1>2, <1>6 DEF clientVars
<1>7. QED
  BY <1>3, <1>4, <1>5, <1>6 DEF ClientNext

\* A writer left behind, whatever channels it comes to wait on, takes one packet of
\* a later connection at most: its own connection is lost, and the first packet
\* that it cannot write ends it.
THEOREM StolenCorrect == ClientSpec => []StolenOnce
<1>1. ClientInit => PumpInv
  BY ClientInitType DEF ClientInit, PumpInv, Alive, Lost, Connects
<1>2. PumpInv /\ [ClientNext]_clientVars => PumpInv'
  BY ClientTypeStep, AliveStep, LostStep DEF PumpInv
<1>3. PumpInv => StolenOnce
  BY DEF PumpInv, Lost, StolenOnce
<1>4. QED
  BY <1>1, <1>2, <1>3, PTL DEF ClientSpec

\* Run keeps one connection at a time: whoever is connected is the current one,
\* and Run is reading from it.
THEOREM OneAliveCorrect ==
    ClientSpec => [](\A n \in Connects : tcp[n] \in {"up", "failed"} => n = current /\ run = "reading")
<1>1. ClientInit => PumpInv
  BY ClientInitType DEF ClientInit, PumpInv, Alive, Lost, Connects
<1>2. PumpInv /\ [ClientNext]_clientVars => PumpInv'
  BY ClientTypeStep, AliveStep, LostStep DEF PumpInv
<1>3. PumpInv => \A n \in Connects : tcp[n] \in {"up", "failed"} => n = current /\ run = "reading"
  <2> SUFFICES ASSUME PumpInv, NEW n \in Connects, tcp[n] \in {"up", "failed"}
               PROVE  n = current /\ run = "reading"
    OBVIOUS
  <2>1. current \in Int /\ n \in Int /\ Alive(n)
    BY Numbers DEF PumpInv
  <2>2. QED
    BY <2>1 DEF Alive
<1>4. QED
  BY <1>1, <1>2, <1>3, PTL DEF ClientSpec
=============================================================================
