------------------------------ MODULE LongPoll ------------------------------
(***************************************************************************)
(* How a change of the coordinator's state reaches the nodes: the store's  *)
(* subscribers and UpdatedAt (internal/coordinator/storage.go), the        *)
(* handler of a long poll (poll.go) and the loop of the node that polls    *)
(* (pollLoop of internal/node/engine.go).                                  *)
(*                                                                         *)
(* The state itself is abstracted to two counters, one of the changes of   *)
(* the nodes and one of those of the ACL: they are changed, and read, by   *)
(* different methods of the store.  The handler takes and frees the        *)
(* store's lock in each step, so changes fall between its steps.  A client *)
(* whose request ends without an answer polls again with the version it    *)
(* had; what the abandoned handler still does reaches nobody.  The answer  *)
(* of the server's timer (pollMaxWait, 30s) is one of those: the client    *)
(* has given up 20s before.                                                *)
(***************************************************************************)
EXTENDS Integers

CONSTANTS
    Clients,        \* the nodes that poll
    Collecting,     \* the garbage collector runs
    MaxChanges,     \* bound: changes of the state
    MaxLost         \* bound: requests and answers lost in the network

ASSUME LongPollAssumption ==
    /\ Collecting \in BOOLEAN
    /\ MaxChanges \in Nat
    /\ MaxLost \in Nat

VARIABLES
    clock,          \* the server's wall clock, which every reading advances
    updatedAt,      \* State.UpdatedAt (0: never changed)
    content,        \* what the state contains now
    gcNow,          \* the time runGC has read, or 0
    pc,             \* per client: the step of its request
    signal,         \* per client: the subscriber's channel holds a token
    snap,           \* per client: the NetworkState being built
    since, view,    \* per client: sinceVersion, and the state it applied
    lost            \* bounded: losses

storeVars == <<clock, updatedAt, content, gcNow>>
pollVars == <<pc, signal, snap, since, view>>
vars == <<storeVars, pollVars, lost>>

Contents == [nodes : Nat, acl : Nat]

Nothing == [nodes |-> 0, acl |-> 0]

Init ==
    /\ clock = 0 /\ updatedAt = 0 /\ content = Nothing /\ gcNow = 0
    /\ pc = [c \in Clients |-> "idle"]
    /\ signal = [c \in Clients |-> FALSE]
    /\ snap = [c \in Clients |-> Nothing]
    /\ since = [c \in Clients |-> 0]
    /\ view = [c \in Clients |-> Nothing]
    /\ lost = 0

\* MUTANT of Subscribed: a poll subscribes after its check.
SubscribedLate(c) == pc[c] = "waiting"

\* Between subscribe and the deferred cancel.
Subscribed(c) == pc[c] # "idle"

\* notify: a send on a channel of capacity 1 that never blocks.
Notify == signal' = [c \in Clients |-> signal[c] \/ Subscribed(c)]

-----------------------------------------------------------------------------
(* The server's state changes. *)

\* AddNode, UpdateNode (a node's ping is one, and stamps LastSeen), DeleteNode;
\* SetACL.
Change ==
    /\ content.nodes + content.acl < MaxChanges
    /\ \/ content' = [content EXCEPT !.nodes = @ + 1]
       \/ content' = [content EXCEPT !.acl = @ + 1]
    /\ clock' = clock + 1
    /\ updatedAt' = clock + 1
    /\ Notify
    /\ UNCHANGED <<gcNow, pc, snap, since, view, lost>>

\* runGC reads the clock before it takes the lock.
GCStart ==
    /\ Collecting
    /\ gcNow = 0
    /\ content.nodes + content.acl < MaxChanges
    /\ clock' = clock + 1
    /\ gcNow' = clock + 1
    /\ UNCHANGED <<updatedAt, content, pollVars, lost>>

\* runGC finds something to collect (a run that finds nothing changes nothing).
GCCommit ==
    /\ gcNow # 0
    /\ content.nodes + content.acl < MaxChanges
    /\ content' = [content EXCEPT !.nodes = @ + 1]
    /\ updatedAt' = gcNow
    /\ gcNow' = 0
    /\ Notify
    /\ UNCHANGED <<clock, pc, snap, since, view, lost>>

-----------------------------------------------------------------------------
(* A poll. *)

Goto(c, step) == pc' = [pc EXCEPT ![c] = step]

\* The client sends its request, and WaitForUpdate subscribes.
PollStart(c) ==
    /\ pc[c] = "idle"
    /\ Goto(c, "subscribed")
    /\ signal' = [signal EXCEPT ![c] = FALSE]
    /\ UNCHANGED <<storeVars, snap, since, view, lost>>

\* MUTANT of Newer: what changed before the poll is not looked at.
NewerNever(c) == FALSE

Newer(c) == updatedAt > since[c]

\* Is there a newer version already?
PollCheck(c) ==
    /\ pc[c] = "subscribed"
    /\ Goto(c, IF Newer(c) THEN "nodes" ELSE "checked")
    /\ UNCHANGED <<storeVars, signal, snap, since, view, lost>>

\* The timer is started and the select entered.
PollSelect(c) ==
    /\ pc[c] = "checked"
    /\ Goto(c, "waiting")
    /\ UNCHANGED <<storeVars, signal, snap, since, view, lost>>

\* The select, for a client that still waits: a token in the channel.
PollWake(c) ==
    /\ pc[c] = "waiting"
    /\ signal[c]
    /\ Goto(c, "nodes")
    /\ signal' = [signal EXCEPT ![c] = FALSE]
    /\ UNCHANGED <<storeVars, snap, since, view, lost>>

\* snapshot: ListNodes, then GetACL, then UpdatedAt.
SnapNodes(c) ==
    /\ pc[c] = "nodes"
    /\ Goto(c, "acl")
    /\ snap' = [snap EXCEPT ![c].nodes = content.nodes]
    /\ UNCHANGED <<storeVars, signal, since, view, lost>>

SnapACL(c) ==
    /\ pc[c] = "acl"
    /\ Goto(c, "version")
    /\ snap' = [snap EXCEPT ![c].acl = content.acl]
    /\ UNCHANGED <<storeVars, signal, since, view, lost>>

\* The answer, which the client applies.
SnapVersion(c) ==
    /\ pc[c] = "version"
    /\ Goto(c, "idle")
    /\ since' = [since EXCEPT ![c] = updatedAt]
    /\ view' = [view EXCEPT ![c] = snap[c]]
    /\ UNCHANGED <<storeVars, signal, snap, lost>>

\* The client's ResponseHeaderTimeout (10s), which comes before pollMaxWait (30s)
\* and ends the request's context; the handler's select is left, too, for nobody.
GiveUp(c) ==
    /\ pc[c] = "waiting"
    /\ Goto(c, "idle")
    /\ UNCHANGED <<storeVars, signal, snap, since, view, lost>>

\* The request or its answer is lost.
Lose(c) ==
    /\ pc[c] # "idle"
    /\ lost < MaxLost
    /\ lost' = lost + 1
    /\ Goto(c, "idle")
    /\ UNCHANGED <<storeVars, signal, snap, since, view>>

Answering(c) ==
    \/ PollStart(c) \/ PollCheck(c) \/ PollSelect(c) \/ PollWake(c)
    \/ SnapNodes(c) \/ SnapACL(c) \/ SnapVersion(c)

Next ==
    \/ Change \/ GCStart \/ GCCommit
    \/ \E c \in Clients : Answering(c) \/ GiveUp(c) \/ Lose(c)

Spec == Init /\ [][Next]_vars

\* The client polls in a loop and the server's handler runs; nothing forces a
\* change, a collection, a loss, or a timeout.
FairSpec == Spec /\ \A c \in Clients : WF_vars(Answering(c))

-----------------------------------------------------------------------------
(* Properties. *)

TypeOK ==
    /\ clock \in Nat /\ updatedAt \in Nat /\ content \in Contents /\ gcNow \in Nat
    /\ pc \in [Clients -> {"idle", "subscribed", "checked", "waiting", "nodes", "acl", "version"}]
    /\ signal \in [Clients -> BOOLEAN]
    /\ snap \in [Clients -> Contents]
    /\ since \in [Clients -> Nat] /\ view \in [Clients -> Contents]
    /\ lost \in 0 .. MaxLost

\* A poll never sleeps through a change: once it has checked, while it has no token,
\* the state is no newer than the version the client has.
NoLostWakeup ==
    \A c \in Clients : pc[c] \in {"checked", "waiting"} /\ ~ signal[c] => updatedAt <= since[c]

\* When the state has stopped changing, every client comes to hold its version
\* or a later one, although its requests time out before the server's timer.
VersionsCatchUp == \A c \in Clients : <>[](since[c] >= updatedAt)

\* "When state changes -> respond with new state": a client that has the version
\* of the state has the state.  It asks for nothing older than that version.
VersionNamesState == \A c \in Clients : since[c] = updatedAt => view[c] = content
=============================================================================
