----------------------------- MODULE MCHandshake -----------------------------
(* Model-checking instances of Handshake.  A scenario, chosen at the start,  *)
(* bounds what happens: a node that restarts while both dial over UDP, or    *)
(* sessions that age and are replaced, over UDP and the relay.  The nodes    *)
(* are interchangeable.                                                      *)
EXTENDS Handshake, TLC

VARIABLE scenario

Symmetry == Permutations(Nodes)

\* Bound of the restart scenario: handshake messages sent.
MaxMessages == 4

\* Bound of the rekey scenario: sessions whose peer is reached over the relay.
MaxRelayed == 2

Waiting == UNION {announcing[n] : n \in Nodes}

\* With "rekey" one session may come due; then a second, so that rekeys cross, while
\* no data is sent; or the first expires.  Either comes to be over UDP only.
Within ==
    \/ /\ scenario = "restart"
       /\ Cardinality({n \in Nodes : inc[n] > 0}) <= 1
       /\ \A n, p \in Nodes : starting[n][p] + starting[p][n] <= 2
       /\ Cardinality(inits \cup resps) <= MaxMessages
       /\ datas = {} \/ Waiting = {}
       /\ due = {} /\ relayed = {}
    \/ /\ scenario = "rekey"
       /\ \A n, p \in Nodes : inc[n] = 0 /\ starting[n][p] + starting[p][n] <= 1
       /\ Cardinality(relayed) <= MaxRelayed
       /\ datas = {} \/ Cardinality(due) <= 1
       /\ relayed = {} \/ Cardinality(due) + Cardinality(expired) <= 1

MCInit == Init /\ scenario \in {"restart", "rekey"}

\* Bound of the restart scenario: messages sent while an init may still wait.
Unhurried == 3

\* A step within the scenario, in which one init waits at most.  With "rekey", and
\* after the first messages, it is sent as soon as its pending entry is there.
Stays ==
    /\ UNCHANGED scenario /\ Within'
    /\ Cardinality(Waiting') <= 1
    /\ \/ Waiting = {} \/ Waiting' = {}
       \/ scenario = "restart" /\ Cardinality(inits \cup resps) < Unhurried

\* Next, with its actions told apart.  A node that has not used an ID restarts
\* as what it was, and need not.
MCNext ==
    \/ \E n, p \in Nodes :
           \/ LearnPeer(n, p) /\ Stays
           \/ SendDials(n, p) /\ Stays
           \/ UpgradeDials(n, p) /\ Stays
           \/ InitiateCheck(n, p) /\ Stays
           \/ InitiateInsert(n, p) /\ Stays
           \/ SendData(n, p) /\ Stays
    \/ \E n \in Nodes, addr \in Paths :
           \/ \E m \in inits : HandleInit(n, m, addr) /\ Stays
           \/ \E c \in completing[n] : RespBuild(n, c, addr) /\ Stays
    \/ \E n \in Nodes :
           \/ \E h \in announcing[n] : InitiateSend(n, h) /\ Stays
           \/ \E h \in pending[n] : HandshakeTimeout(n, h) /\ Stays
           \/ \E m \in resps : RespTake(n, m) /\ Stays
           \/ RekeyCollect(n) /\ Stays
           \/ \E s \in built : RekeyPeer(n, s) /\ Stays
           \/ lastId[n] > 0 /\ Restart(n) /\ Stays
    \/ \E m \in datas, addr \in Paths : HandleData(m, addr) /\ Stays
    \/ \E s \in built : Age(s) /\ Stays

MCSpec == MCInit /\ [][MCNext]_<<vars, scenario>>
=============================================================================
