------------------------------ MODULE Channels ------------------------------
(***************************************************************************)
(* What the engines of the mesh promise together: encrypted channels, each *)
(* with keys that exactly two nodes have agreed on.  One node offers, the  *)
(* node it dialled accepts, with keys of its own for every acceptance, and *)
(* the one that offered confirms one of them.  Data go between the two     *)
(* ends of a key only, addressed to the end that has it.  Nothing is said  *)
(* of loss, duplication, timeouts, rekeying or restarts: no such thing may *)
(* show here.                                                              *)
(***************************************************************************)

CONSTANT Nodes      \* the mesh nodes

\* An end of a channel is a record with its node and the id it has there.
VARIABLES
    offers,     \* [hs, to]: handshakes offered, by which end and to whom
    accepted,   \* [init, resp]: keys, by their two ends, that the responder has
    confirmed,  \* keys that the initiator has, too
    sent        \* [from, to, receiver, key]: data

vars == <<offers, accepted, confirmed, sent>>

Init == offers = {} /\ accepted = {} /\ confirmed = {} /\ sent = {}

\* The ends that stand for something.
Drawn == {o.hs : o \in offers} \cup {k.resp : k \in accepted}

\* A (new) end offers a channel to another node.
Offer(t, p) ==
    /\ p # t.node
    /\ offers' = offers \cup {[hs |-> t, to |-> p]}
    /\ UNCHANGED <<accepted, confirmed, sent>>

\* The node an offer was made to accepts it, with a (new) end.
Accept(o, t) ==
    /\ t.node = o.to
    /\ accepted' = accepted \cup {[init |-> o.hs, resp |-> t]}
    /\ UNCHANGED <<offers, confirmed, sent>>

\* The initiator confirms one acceptance of its offer, once.
Confirm(k) ==
    /\ \A c \in confirmed : c.init # k.init
    /\ confirmed' = confirmed \cup {k}
    /\ UNCHANGED <<offers, accepted, sent>>

Carry(k, t, u) ==
    /\ sent' = sent \cup
           {[from |-> t.node, to |-> u.node, receiver |-> u.id, key |-> k]}
    /\ UNCHANGED <<offers, accepted, confirmed>>

\* An end sends to the other, as soon as it has the keys.
Send(k) ==
    \/ k \in confirmed /\ Carry(k, k.init, k.resp)
    \/ k \in accepted /\ Carry(k, k.resp, k.init)

\* What a step draws is new: no end is drawn twice.
Next ==
    \/ \E t \in Drawn' \ Drawn : \/ \E p \in Nodes : Offer(t, p)
                               \/ \E o \in offers : Accept(o, t)
    \/ \E k \in accepted : Confirm(k) \/ Send(k)

Spec == Init /\ [][Next]_vars
=============================================================================
