------------------------------ MODULE Registry ------------------------------
(***************************************************************************)
(* The coordination server's registry: the handlers of                     *)
(* internal/coordinator/api.go that change it, the Store of storage.go     *)
(* with its JSON file and its garbage collector, and the IPPool.           *)
(*                                                                         *)
(* net/http runs every request on a goroutine of its own.  A Store method  *)
(* holds Store.mu through the change and the write of the file, so each is *)
(* one step; between two of them, handlers, the collector and a crash of   *)
(* the process interleave.  A write may fail, which leaves the file as it  *)
(* was and the change in memory.                                           *)
(*                                                                         *)
(* Pings, endpoint reports and endpoint exchanges differ only in data that *)
(* is left out here: each of them verifies the caller, then refreshes its  *)
(* LastSeen (a "touch").                                                   *)
(***************************************************************************)
EXTENDS Integers, FiniteSets

CONSTANTS
    PubKeys,        \* public keys of the nodes
    AuthKeys,       \* pre-auth keys the admin may generate
    Ephemeral,      \* those of them generated as ephemeral
    Expiring,       \* those of them generated with a lifetime
    Handlers,       \* goroutines that may be inside handleRegister
    PoolSize,       \* addresses in the pool
    StaleAge,       \* gcNodeStaleAge: an active node unseen for longer
    ExpireAge,      \* gcNodeExpireAge: a disabled node unseen for longer
    Manual,         \* approvalMode is "manual"
    Retrying,       \* a node may register again before its last one ended
    MaxIds,         \* bound: node IDs generated
    MaxVersion,     \* bound: nodes added and collections made
    MaxTime,        \* bound: ticks of the clock
    MaxFails,       \* bound: writes of the file that fail
    MaxCrashes      \* bound: crashes of the server

ASSUME RegistryAssumption ==
    /\ Ephemeral \subseteq AuthKeys /\ Expiring \subseteq AuthKeys
    /\ PoolSize \in Nat /\ StaleAge \in Nat /\ ExpireAge \in Nat
    /\ Manual \in BOOLEAN /\ Retrying \in BOOLEAN
    /\ MaxIds \in Nat /\ MaxVersion \in Nat /\ MaxTime \in Nat
    /\ MaxFails \in Nat /\ MaxCrashes \in Nat

VARIABLES
    nodes, authKeys, used, version, \* Store.state and Store.version
    disk,                           \* the JSON file
    pool,                           \* IPPool.used: owner of each address, or 0
    pc, req,                        \* per handler: its step and its locals
    touching,                       \* public keys with a verified touch
    now, lapsed, lastId,            \* clock, expired auth keys, IDs generated
    fails, crashes,                 \* bounded: failed writes, crashes
    minted, admitted, acked,        \* history: auth keys generated, nodes
    approved, removed               \* added, answers given, nodes approved, gone

store == <<nodes, authKeys, used, version>>
handlers == <<pc, req>>
world == <<now, lapsed, crashes>>
history == <<minted, admitted, acked, approved, removed>>
vars == <<store, disk, pool, handlers, touching, lastId, fails, world, history>>

IPs == 1 .. PoolSize
Ids == 1 .. MaxIds
Statuses == {"active", "pending", "disabled"}

NodeRecords == [id : Ids, key : PubKeys, vip : IPs, status : Statuses,
                lastSeen : 0 .. MaxTime]

Files == [nodes : SUBSET NodeRecords, authKeys : SUBSET AuthKeys,
          used : SUBSET AuthKeys, version : Nat]

Free == {a \in IPs : pool[a] = 0}

\* MUTANT of Owners: the pool starts empty after a restart.
OwnersEmpty(ns) == [a \in IPs |-> 0]

\* NewServer: the pool reserves the address of every node in the file.
Owners(ns) ==
    [a \in IPs |-> IF \E n \in ns : n.vip = a
                   THEN (CHOOSE n \in ns : n.vip = a).id
                   ELSE 0]

InitialStatus == IF Manual THEN "pending" ELSE "active"

\* MUTANT of KeyValid: Used is not looked at.
KeyValidUnused(a) == a \in authKeys /\ a \notin lapsed

\* GetAuthKey finds it and ValidateAuthKey accepts it.
KeyValid(a) ==
    /\ a \in authKeys
    /\ a \notin lapsed
    /\ ~ (a \in Ephemeral /\ a \in used)

\* MUTANT of Registered: a disabled node is not found.
RegisteredEnabled(k) == {n \in nodes : n.key = k /\ n.status # "disabled"}

\* What GetNodeByPubKey may return: the first of these in the list.
Registered(k) == {n \in nodes : n.key = k}

WithId(id) == {n \in nodes : n.id = id}

\* MUTANT of Refresh: a node that speaks becomes active.
RefreshRevives(n) == [n EXCEPT !.lastSeen = now, !.status = "active"]

\* What a re-registration and a touch do to the node.
Refresh(n) == [n EXCEPT !.lastSeen = now]

Request(k, a, id, vip) == [key |-> k, auth |-> a, id |-> id, vip |-> vip]

NoRequest == Request("none", "none", 0, 0)

Init ==
    /\ nodes = {} /\ authKeys = {} /\ used = {} /\ version = 0
    /\ disk = [nodes |-> {}, authKeys |-> {}, used |-> {}, version |-> 0]
    /\ pool = [a \in IPs |-> 0]
    /\ pc = [h \in Handlers |-> "idle"]
    /\ req = [h \in Handlers |-> NoRequest]
    /\ touching = {}
    /\ now = 0 /\ lapsed = {} /\ lastId = 0 /\ fails = 0 /\ crashes = 0
    /\ minted = {} /\ admitted = {} /\ acked = {} /\ approved = {} /\ removed = {}

\* MUTANT of Persist: the write is put off.
PersistLater == UNCHANGED <<disk, fails>>

\* saveLocked succeeds: write to a temporary file, sync, rename.
Persist ==
    /\ disk' = [nodes |-> nodes', authKeys |-> authKeys', used |-> used',
                version |-> version']
    /\ UNCHANGED fails

\* saveLocked fails.
PersistFails ==
    /\ fails < MaxFails
    /\ fails' = fails + 1
    /\ UNCHANGED disk

Save == Persist \/ PersistFails

Finish(h) ==
    /\ pc' = [pc EXCEPT ![h] = "idle"]
    /\ req' = [req EXCEPT ![h] = NoRequest]

\* The 200 answer of handleRegister.
Answer(k, id, vip, status) ==
    acked' = acked \cup {[key |-> k, id |-> id, vip |-> vip, status |-> status]}

-----------------------------------------------------------------------------
(* handleRegister. *)

\* The auth key is looked up and validated; a request with a bad one ends.
RegStart(h, k, a) ==
    /\ pc[h] = "idle"
    /\ Retrying \/ \A g \in Handlers : pc[g] # "idle" => req[g].key # k
    /\ KeyValid(a)
    /\ pc' = [pc EXCEPT ![h] = "valid"]
    /\ req' = [req EXCEPT ![h] = Request(k, a, 0, 0)]
    /\ UNCHANGED <<store, disk, pool, touching, lastId, fails, world, history>>

\* Is the node registered already?  The handler keeps a copy of its record.
RegLookup(h) ==
    /\ pc[h] = "valid"
    /\ \/ /\ Registered(req[h].key) = {}
          /\ pc' = [pc EXCEPT ![h] = "new"]
          /\ UNCHANGED req
       \/ \E n \in Registered(req[h].key) :
              /\ pc' = [pc EXCEPT ![h] = "known"]
              /\ req' = [req EXCEPT ![h] = Request(@.key, @.auth, n.id, n.vip)]
    /\ UNCHANGED <<store, disk, pool, touching, lastId, fails, world, history>>

\* UpdateNode by ID, answered with the copied address; it fails when the node
\* has gone or the write fails.
RegUpdate(h) ==
    /\ pc[h] = "known"
    /\ Finish(h)
    /\ \/ \E n \in WithId(req[h].id) :
              /\ nodes' = (nodes \ {n}) \cup {Refresh(n)}
              /\ UNCHANGED <<authKeys, used, version>>
              /\ \/ /\ Persist
                    /\ Answer(n.key, n.id, req[h].vip, Refresh(n).status)
                 \/ PersistFails /\ UNCHANGED acked
       \/ /\ WithId(req[h].id) = {}
          /\ UNCHANGED <<store, disk, fails, acked>>
    /\ UNCHANGED <<pool, touching, lastId, world, minted, admitted, approved, removed>>

\* generateID and IPPool.Allocate, which takes the lowest free address.
RegAllocate(h) ==
    /\ pc[h] = "new"
    /\ lastId < MaxIds
    /\ lastId' = lastId + 1
    /\ \/ \E a \in Free :
              /\ \A b \in Free : a <= b
              /\ pool' = [pool EXCEPT ![a] = lastId + 1]
              /\ pc' = [pc EXCEPT ![h] = "allocated"]
              /\ req' = [req EXCEPT ![h] = Request(@.key, @.auth, lastId + 1, a)]
       \/ /\ Free = {}
          /\ Finish(h)
          /\ UNCHANGED pool
    /\ UNCHANGED <<store, disk, touching, fails, world, history>>

\* AddNode; when the write fails the request ends, and the node and its address
\* stay in memory.
RegAdd(h) ==
    LET r == req[h] IN
    /\ pc[h] = "allocated"
    /\ version < MaxVersion
    /\ nodes' = nodes \cup {[id |-> r.id, key |-> r.key, vip |-> r.vip,
                             status |-> InitialStatus, lastSeen |-> now]}
    /\ version' = version + 1
    /\ admitted' = admitted \cup {[id |-> r.id, auth |-> r.auth]}
    /\ UNCHANGED <<authKeys, used>>
    /\ \/ /\ Persist
          /\ \/ /\ r.auth \in Ephemeral
                /\ pc' = [pc EXCEPT ![h] = "added"]
                /\ UNCHANGED <<req, acked>>
             \/ /\ r.auth \notin Ephemeral
                /\ Answer(r.key, r.id, r.vip, InitialStatus)
                /\ Finish(h)
       \/ /\ PersistFails
          /\ Finish(h)
          /\ UNCHANGED acked
    /\ UNCHANGED <<pool, touching, lastId, world, minted, approved, removed>>

\* MarkAuthKeyUsed, whose errors are only logged, and the answer.
RegMark(h) ==
    LET r == req[h] IN
    /\ pc[h] = "added"
    /\ Answer(r.key, r.id, r.vip, InitialStatus)
    /\ Finish(h)
    /\ \/ /\ r.auth \in authKeys
          /\ used' = used \cup {r.auth}
          /\ UNCHANGED <<nodes, authKeys, version>>
          /\ Save
       \/ /\ r.auth \notin authKeys
          /\ UNCHANGED <<store, disk, fails>>
    /\ UNCHANGED <<pool, touching, lastId, world, minted, admitted, approved, removed>>

-----------------------------------------------------------------------------
(* handlePing, handleUpdateEndpoint, handleExchangeEndpoint. *)

\* VerifyRequestSignature admits active nodes only.
TouchVerify(k) ==
    /\ k \notin touching
    /\ \E n \in Registered(k) : n.status = "active"
    /\ touching' = touching \cup {k}
    /\ UNCHANGED <<store, disk, pool, handlers, lastId, fails, world, history>>

\* GetNodeByPubKey again, and UpdateNode.
TouchUpdate(k) ==
    /\ k \in touching
    /\ touching' = touching \ {k}
    /\ \/ \E n \in Registered(k) :
              /\ nodes' = (nodes \ {n}) \cup {Refresh(n)}
              /\ UNCHANGED <<authKeys, used, version>>
              /\ Save
       \/ /\ Registered(k) = {}
          /\ UNCHANGED <<store, disk, fails>>
    /\ UNCHANGED <<pool, handlers, lastId, world, history>>

-----------------------------------------------------------------------------
(* The admin: handleAdminNodes and handleAdminAuthKeys. *)

Approve(n) ==
    /\ n \in nodes
    /\ nodes' = (nodes \ {n}) \cup {[n EXCEPT !.status = "active"]}
    /\ approved' = approved \cup {n.id}
    /\ UNCHANGED <<authKeys, used, version>>
    /\ Save
    /\ UNCHANGED <<pool, handlers, touching, lastId, world, minted, admitted,
                   acked, removed>>

\* The pool keeps the address of the node: nothing calls Release.
DeleteNode(n) ==
    /\ n \in nodes
    /\ nodes' = nodes \ {n}
    /\ removed' = removed \cup {n.id}
    /\ UNCHANGED <<authKeys, used, version>>
    /\ Save
    /\ UNCHANGED <<pool, handlers, touching, lastId, world, minted, admitted,
                   acked, approved>>

AddAuthKey(a) ==
    /\ a \notin minted
    /\ minted' = minted \cup {a}
    /\ authKeys' = authKeys \cup {a}
    /\ UNCHANGED <<nodes, used, version>>
    /\ Save
    /\ UNCHANGED <<pool, handlers, touching, lastId, world, admitted, acked,
                   approved, removed>>

DeleteAuthKey(a) ==
    /\ a \in authKeys
    /\ authKeys' = authKeys \ {a}
    /\ UNCHANGED <<nodes, used, version>>
    /\ Save
    /\ UNCHANGED <<pool, handlers, touching, lastId, world, history>>

-----------------------------------------------------------------------------
(* Time, the garbage collector and crashes. *)

Tick ==
    /\ now < MaxTime
    /\ now' = now + 1
    /\ UNCHANGED <<store, disk, pool, handlers, touching, lastId, fails, lapsed,
                   crashes, history>>

\* An auth key passes its ExpiresAt.
Lapse(a) ==
    /\ a \in (minted \cap Expiring) \ lapsed
    /\ lapsed' = lapsed \cup {a}
    /\ UNCHANGED <<store, disk, pool, handlers, touching, lastId, fails, now,
                   crashes, history>>

Marked(n) ==
    IF n.status = "active" /\ now - n.lastSeen > StaleAge
    THEN [n EXCEPT !.status = "disabled"]
    ELSE n

Dropped(n) == Marked(n).status = "disabled" /\ now - n.lastSeen > ExpireAge

\* runGC: disable, drop, prune.  The ages of auth keys are not tracked, so it
\* may prune any of those whose kind and state allow it.
RunGC ==
    \E pruned \in SUBSET {a \in authKeys : IF a \in Ephemeral THEN a \in used
                                                            ELSE a \in lapsed} :
        /\ version < MaxVersion
        /\ nodes' = {Marked(n) : n \in {m \in nodes : ~ Dropped(m)}}
        /\ authKeys' = authKeys \ pruned
        /\ <<nodes', authKeys'>> # <<nodes, authKeys>>
        /\ version' = version + 1
        /\ UNCHANGED used
        /\ Save
        /\ removed' = removed \cup {n.id : n \in {m \in nodes : Dropped(m)}}
        /\ UNCHANGED <<pool, handlers, touching, lastId, world, minted, admitted,
                       acked, approved>>

\* The process dies and starts again from the file (NewStore, NewServer).
Crash ==
    /\ crashes < MaxCrashes
    /\ crashes' = crashes + 1
    /\ nodes' = disk.nodes /\ authKeys' = disk.authKeys
    /\ used' = disk.used /\ version' = disk.version
    /\ pool' = Owners(disk.nodes)
    /\ pc' = [h \in Handlers |-> "idle"]
    /\ req' = [h \in Handlers |-> NoRequest]
    /\ touching' = {}
    /\ UNCHANGED <<disk, lastId, fails, now, lapsed, history>>

Next ==
    \/ \E h \in Handlers :
           \/ \E k \in PubKeys, a \in AuthKeys : RegStart(h, k, a)
           \/ RegLookup(h)
           \/ RegUpdate(h)
           \/ RegAllocate(h)
           \/ RegAdd(h)
           \/ RegMark(h)
    \/ \E k \in PubKeys : TouchVerify(k) \/ TouchUpdate(k)
    \/ \E n \in nodes : Approve(n) \/ DeleteNode(n)
    \/ \E a \in AuthKeys : AddAuthKey(a) \/ DeleteAuthKey(a) \/ Lapse(a)
    \/ Tick
    \/ RunGC
    \/ Crash

Spec == Init /\ [][Next]_vars

-----------------------------------------------------------------------------
(* Properties. *)

Requests == [key : PubKeys, auth : AuthKeys, id : 0 .. MaxIds, vip : 0 .. PoolSize]

TypeOK ==
    /\ nodes \subseteq NodeRecords
    /\ authKeys \subseteq AuthKeys /\ used \subseteq AuthKeys /\ version \in Nat
    /\ disk \in Files
    /\ pool \in [IPs -> 0 .. MaxIds]
    /\ pc \in [Handlers -> {"idle", "valid", "new", "known", "allocated", "added"}]
    /\ req \in [Handlers -> Requests \cup {NoRequest}]
    /\ touching \subseteq PubKeys
    /\ now \in 0 .. MaxTime /\ lapsed \subseteq AuthKeys
    /\ lastId \in 0 .. MaxIds /\ fails \in 0 .. MaxFails /\ crashes \in 0 .. MaxCrashes
    /\ minted \subseteq AuthKeys
    /\ admitted \subseteq [id : Ids, auth : AuthKeys]
    /\ acked \subseteq [key : PubKeys, id : Ids, vip : IPs, status : Statuses]
    /\ approved \subseteq Ids /\ removed \subseteq Ids

\* No two nodes of the registry have one virtual IP, although the pool and the
\* store are changed under different locks, nodes are deleted and dropped, and
\* a restart rebuilds the pool from a file that failed writes left behind.
UniqueVIP == \A m, n \in nodes : m.vip = n.vip => m = n

\* A registration that was answered survives a crash: the node is in the file
\* with the address it was given, until it is deleted or collected.
AckDurable ==
    \A x \in acked :
        \/ x.id \in removed
        \/ \E n \in disk.nodes : n.id = x.id /\ n.key = x.key /\ n.vip = x.vip

\* "IPs persist across reconnections": all the answers a node gets name one
\* address, until the node is deleted or collected.
VIPStable ==
    \A x, y \in acked :
        x.key = y.key => x.vip = y.vip \/ x.id \in removed \/ y.id \in removed

\* In manual mode no node is active unless the admin approved it, whatever it
\* registers again, pings, or is collected, and whatever a restart brings back.
ActiveOnlyIfApproved ==
    Manual => \A n \in nodes : n.status = "active" => n.id \in approved

\* "If ephemeral is true, the key is single-use": it admits one node at most.
EphemeralOnce ==
    \A x, y \in admitted : x.auth = y.auth /\ x.auth \in Ephemeral => x.id = y.id

\* Registrations that do not overlap keep that promise as long as the server
\* stays up and its writes succeed, whatever is deleted, collected or pruned.
EphemeralOnceIfUp == fails = 0 /\ crashes = 0 => EphemeralOnce
=============================================================================
