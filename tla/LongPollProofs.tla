--------------------------- MODULE LongPollProofs ---------------------------
(* Proofs about LongPoll, for every set of clients and every bound. *)
EXTENDS LongPoll, TLAPS

\* The initial state is well typed: nobody polls, nothing has changed.
LEMMA TypeInit == Init => TypeOK
BY LongPollAssumption DEF Init, TypeOK, Nothing, Contents

\* Every step, of the store or of a poll, keeps the types.
LEMMA TypeStep == TypeOK /\ [Next]_vars => TypeOK'
<1> SUFFICES ASSUME TypeOK, [Next]_vars PROVE TypeOK'
  OBVIOUS
<1> USE LongPollAssumption DEF TypeOK, Contents
<1>1. CASE Change
  BY <1>1 DEF Change, Notify, Subscribed
<1>2. CASE GCStart
  BY <1>2 DEF GCStart, pollVars
<1>3. CASE GCCommit
  BY <1>3 DEF GCCommit, Notify, Subscribed
<1>4. ASSUME NEW c \in Clients, Answering(c) PROVE TypeOK'
  <2>1. CASE PollStart(c)
    BY <2>1 DEF PollStart, Goto, storeVars
  <2>2. CASE PollCheck(c)
    BY <2>2 DEF PollCheck, Goto, Newer, storeVars
  <2>3. CASE PollSelect(c)
    BY <2>3 DEF PollSelect, Goto, storeVars
  <2>4. CASE PollWake(c)
    BY <2>4 DEF PollWake, Goto, storeVars
  <2>5. CASE SnapNodes(c)
    BY <2>5 DEF SnapNodes, Goto, storeVars
  <2>6. CASE SnapACL(c)
    BY <2>6 DEF SnapACL, Goto, storeVars
  <2>7. CASE SnapVersion(c)
    BY <2>7 DEF SnapVersion, Goto, storeVars
  <2>8. QED
    BY <1>4, <2>1, <2>2, <2>3, <2>4, <2>5, <2>6, <2>7 DEF Answering
<1>5. ASSUME NEW c \in Clients, GiveUp(c) PROVE TypeOK'
  BY <1>5 DEF GiveUp, Goto, storeVars
<1>6. ASSUME NEW c \in Clients, Lose(c) PROVE TypeOK'
  BY <1>6 DEF Lose, Goto, storeVars
<1>7. CASE UNCHANGED vars
  BY <1>7 DEF vars, storeVars, pollVars
<1>8. QED
  BY <1>1, <1>2, <1>3, <1>4, <1>5, <1>6, <1>7 DEF Next

\* The store, the polls in progress and the clients stay well typed.
THEOREM TypeCorrect == Spec => []TypeOK
<1>1. Init => TypeOK
  BY TypeInit
<1>2. TypeOK /\ [Next]_vars => TypeOK'
  BY TypeStep
<1>3. QED
  BY <1>1, <1>2, PTL DEF Spec

\* A change marks every subscriber, waiting ones included.
LEMMA NotifyMarks ==
    ASSUME TypeOK, Notify, UNCHANGED pc, NEW c \in Clients, pc'[c] \in {"checked", "waiting"}
    PROVE  signal'[c]
BY DEF TypeOK, Notify, Subscribed

\* No step puts a client to sleep on a version older than the state's, nor
\* changes the state behind the back of one that sleeps.
LEMMA WakeupStep == TypeOK /\ NoLostWakeup /\ [Next]_vars => NoLostWakeup'
<1> SUFFICES ASSUME TypeOK, NoLostWakeup, [Next]_vars,
                    NEW c \in Clients, pc'[c] \in {"checked", "waiting"}, ~ signal'[c]
             PROVE  updatedAt' <= since'[c]
  BY DEF NoLostWakeup
<1>1. CASE Change
  BY <1>1, NotifyMarks DEF Change
<1>2. CASE GCStart
  BY <1>2 DEF GCStart, pollVars, NoLostWakeup
<1>3. CASE GCCommit
  BY <1>3, NotifyMarks DEF GCCommit
<1>4. ASSUME NEW d \in Clients, Answering(d) PROVE updatedAt' <= since'[c]
  <2>1. CASE PollStart(d)
    BY <2>1 DEF PollStart, Goto, storeVars, TypeOK, NoLostWakeup
  <2>2. CASE PollCheck(d)
    BY <2>2 DEF PollCheck, Goto, Newer, storeVars, TypeOK, NoLostWakeup
  <2>3. CASE PollSelect(d)
    BY <2>3 DEF PollSelect, Goto, storeVars, TypeOK, NoLostWakeup
  <2>4. CASE PollWake(d)
    BY <2>4 DEF PollWake, Goto, storeVars, TypeOK, NoLostWakeup
  <2>5. CASE SnapNodes(d)
    BY <2>5 DEF SnapNodes, Goto, storeVars, TypeOK, NoLostWakeup
  <2>6. CASE SnapACL(d)
    BY <2>6 DEF SnapACL, Goto, storeVars, TypeOK, NoLostWakeup
  <2>7. CASE SnapVersion(d)
    BY <2>7 DEF SnapVersion, Goto, storeVars, TypeOK, NoLostWakeup
  <2>8. QED
    BY <1>4, <2>1, <2>2, <2>3, <2>4, <2>5, <2>6, <2>7 DEF Answering
<1>5. ASSUME NEW d \in Clients, GiveUp(d) \/ Lose(d) PROVE updatedAt' <= since'[c]
  BY <1>5 DEF GiveUp, Lose, Goto, storeVars, TypeOK, NoLostWakeup
<1>6. CASE UNCHANGED vars
  BY <1>6 DEF vars, storeVars, pollVars, NoLostWakeup
<1>7. QED
  BY <1>1, <1>2, <1>3, <1>4, <1>5, <1>6 DEF Next

\* Whatever changes the state and whenever, a poll that waits without a token
\* waits on the version the state has, or a later one.
THEOREM WakeupCorrect == Spec => []NoLostWakeup
<1>1. Init => NoLostWakeup
  BY DEF Init, NoLostWakeup
<1>2. TypeOK /\ NoLostWakeup /\ [Next]_vars => NoLostWakeup'
  BY WakeupStep
<1>3. QED
  BY <1>1, <1>2, TypeCorrect, PTL DEF Spec
=============================================================================
