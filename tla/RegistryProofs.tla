--------------------------- MODULE RegistryProofs ---------------------------
(***************************************************************************)
(* Proofs about Registry, for every set of keys and handlers, every pool,  *)
(* age limit and bound.                                                    *)
(***************************************************************************)
EXTENDS MCRegistry, TLAPS

Busy(h) == pc[h] # "idle"

Identified(h) == pc[h] \in {"known", "allocated", "added"}

\* TypeOK is not inductive: what a handler answers is what it has kept in req.
ReqOK ==
    \A h \in Handlers :
        /\ Busy(h) => req[h] \in Requests
        /\ Identified(h) => req[h].id \in Ids /\ req[h].vip \in IPs

IdsUnique(ns) == \A m, n \in ns : m.id = n.id => m = n

VIPsUnique(ns) == \A m, n \in ns : m.vip = n.vip => m = n

IdsGiven(ns) == \A n \in ns : n.id <= lastId

\* The file could be started from.
FileSound == IdsUnique(disk.nodes) /\ VIPsUnique(disk.nodes) /\ IdsGiven(disk.nodes)

\* The pool knows the owner of every node's address.
PoolSound ==
    /\ \A n \in nodes : pool[n.vip] = n.id
    /\ \A a \in IPs : pool[a] <= lastId

\* An allocated address is its handler's alone.
ClaimsSound ==
    /\ \A h \in Handlers : pc[h] = "allocated" =>
           /\ pool[req[h].vip] = req[h].id
           /\ \A n \in nodes : n.id # req[h].id
    /\ \A g, h \in Handlers :
           pc[g] = "allocated" /\ pc[h] = "allocated" /\ req[g].id = req[h].id => g = h

Sound == IdsUnique(nodes) /\ FileSound /\ PoolSound /\ ClaimsSound

IInv == TypeOK /\ ReqOK /\ Sound

-----------------------------------------------------------------------------
(* Operators. *)

\* A refreshed node is the same node, seen now.
LEMMA RefreshSame ==
    ASSUME NEW n \in NodeRecords, now \in 0 .. MaxTime
    PROVE  /\ Refresh(n) \in NodeRecords
           /\ Refresh(n).id = n.id /\ Refresh(n).vip = n.vip /\ Refresh(n).key = n.key
BY DEF Refresh, NodeRecords

\* The collector changes nothing of a node but its status.
LEMMA MarkedSame ==
    ASSUME NEW n \in NodeRecords
    PROVE  /\ Marked(n) \in NodeRecords
           /\ Marked(n).id = n.id /\ Marked(n).vip = n.vip
BY DEF Marked, NodeRecords, Statuses

\* Replacing a node by one with its id and address keeps both unique.
LEMMA ReplaceUnique ==
    ASSUME NEW ns, NEW n \in ns, NEW r, r.id = n.id, r.vip = n.vip
    PROVE  /\ IdsUnique(ns) => IdsUnique((ns \ {n}) \cup {r})
           /\ VIPsUnique(ns) => VIPsUnique((ns \ {n}) \cup {r})
BY DEF IdsUnique, VIPsUnique

\* Nodes whose addresses the pool knows have addresses of their own.
LEMMA OwnersDiffer ==
    ASSUME IdsUnique(nodes), PoolSound
    PROVE  VIPsUnique(nodes)
BY DEF IdsUnique, PoolSound, VIPsUnique

\* Restarting from a sound file gives every node its address back.
LEMMA OwnersSound ==
    ASSUME NEW ns \in SUBSET NodeRecords, VIPsUnique(ns), NEW n \in ns
    PROVE  Owners(ns)[n.vip] = n.id
<1>1. n.vip \in IPs
  BY DEF NodeRecords
<1>2. (CHOOSE m \in ns : m.vip = n.vip) = n
  BY DEF VIPsUnique
<1>3. QED
  BY <1>1, <1>2 DEF Owners

\* The pool a restart builds has no owner but the nodes of the file.
LEMMA OwnersType ==
    ASSUME NEW ns \in SUBSET NodeRecords
    PROVE  /\ Owners(ns) \in [IPs -> 0 .. MaxIds]
           /\ \A a \in IPs : Owners(ns)[a] = 0 \/ \E n \in ns : Owners(ns)[a] = n.id
<1>1. ASSUME NEW a \in IPs, \E n \in ns : n.vip = a
      PROVE  (CHOOSE n \in ns : n.vip = a) \in ns
  BY <1>1
<1>2. \A a \in IPs : Owners(ns)[a] = 0 \/ \E n \in ns : Owners(ns)[a] = n.id
  BY <1>1 DEF Owners
<1>3. \A n \in ns : n.id \in 0 .. MaxIds
  BY RegistryAssumption DEF NodeRecords, Ids
<1>4. 0 \in 0 .. MaxIds
  BY RegistryAssumption
<1>5. Owners(ns) = [a \in IPs |-> Owners(ns)[a]]
  BY DEF Owners
<1>6. QED
  BY <1>2, <1>3, <1>4, <1>5

\* The lists of a file that has just been written.
LEMMA PersistFile ==
    ASSUME Persist
    PROVE  /\ disk'.nodes = nodes' /\ disk'.authKeys = authKeys'
           /\ disk'.used = used' /\ disk'.version = version'
BY DEF Persist

\* Writing a well typed state, or failing to, leaves a well typed file.
LEMMA SaveType ==
    ASSUME disk \in Files, fails \in 0 .. MaxFails, Save,
           nodes' \subseteq NodeRecords, authKeys' \subseteq AuthKeys,
           used' \subseteq AuthKeys, version' \in Nat
    PROVE  disk' \in Files /\ fails' \in 0 .. MaxFails
BY RegistryAssumption DEF Save, Persist, PersistFails, Files

\* Ending a request leaves the handler with nothing to answer.
LEMMA FinishType ==
    ASSUME TypeOK, ReqOK, NEW h \in Handlers, Finish(h)
    PROVE  /\ pc' \in [Handlers -> {"idle", "valid", "new", "known", "allocated", "added"}]
           /\ req' \in [Handlers -> Requests \cup {NoRequest}]
           /\ ReqOK'
           /\ pc'[h] = "idle"
           /\ \A g \in Handlers : g # h => pc'[g] = pc[g] /\ req'[g] = req[g]
BY DEF TypeOK, ReqOK, Finish, Busy, Identified

-----------------------------------------------------------------------------
(* Types. *)

\* The empty registry with its empty file is well typed.
LEMMA TypeInit == Init => TypeOK /\ ReqOK
BY RegistryAssumption
   DEF Init, TypeOK, ReqOK, Busy, Identified, Files, IPs

\* The steps of handleRegister.
LEMMA TypeRegister ==
    ASSUME TypeOK, ReqOK, NEW h \in Handlers,
           \/ \E k \in PubKeys, a \in AuthKeys : RegStart(h, k, a)
           \/ RegLookup(h) \/ RegUpdate(h) \/ RegAllocate(h) \/ RegAdd(h) \/ RegMark(h)
    PROVE  TypeOK' /\ ReqOK'
<1> USE DEF store, handlers, world, history
<1>1. ASSUME NEW k \in PubKeys, NEW a \in AuthKeys, RegStart(h, k, a)
      PROVE  TypeOK' /\ ReqOK'
  <2>1. Request(k, a, 0, 0) \in Requests
    BY RegistryAssumption DEF Request, Requests
  <2> DEFINE q == Request(k, a, 0, 0)
  <2>2. q \in Requests /\ req' = [req EXCEPT ![h] = q] /\ pc' = [pc EXCEPT ![h] = "valid"]
    BY <1>1, <2>1 DEF RegStart
  <2> HIDE DEF q
  <2>3. ReqOK'
    BY <2>2 DEF TypeOK, ReqOK, Busy, Identified
  <2>4. TypeOK'
    BY <1>1, <2>2 DEF RegStart, TypeOK
  <2>5. QED
    BY <2>3, <2>4
<1>2. CASE RegLookup(h)
  <2>1. CASE pc' = [pc EXCEPT ![h] = "new"] /\ UNCHANGED req
    BY <1>2, <2>1 DEF RegLookup, TypeOK, ReqOK, Busy, Identified
  <2>2. ASSUME NEW n \in Registered(req[h].key),
               pc' = [pc EXCEPT ![h] = "known"],
               req' = [req EXCEPT ![h] = Request(@.key, @.auth, n.id, n.vip)]
        PROVE  TypeOK' /\ ReqOK'
    <3>1. n.id \in Ids /\ n.vip \in IPs /\ req[h] \in Requests
      BY <1>2 DEF RegLookup, Registered, TypeOK, NodeRecords, ReqOK, Busy
    <3>2. req'[h] \in Requests /\ req'[h].id = n.id /\ req'[h].vip = n.vip
      <4>1. req'[h] = Request(req[h].key, req[h].auth, n.id, n.vip)
        BY <2>2 DEF TypeOK
      <4>2. QED
        BY <3>1, <4>1, RegistryAssumption DEF Request, Requests, Ids, IPs
    <3>3. \A g \in Handlers : g # h => req'[g] = req[g] /\ pc'[g] = pc[g]
      BY <2>2 DEF TypeOK
    <3>4. req' \in [Handlers -> Requests \cup {NoRequest}]
      BY <2>2, <3>2, <3>3 DEF TypeOK
    <3>5. ReqOK'
      BY <3>1, <3>2, <3>3 DEF ReqOK, Busy, Identified
    <3>6. TypeOK'
      BY <1>2, <2>2, <3>4 DEF RegLookup, TypeOK
    <3>7. QED
      BY <3>5, <3>6
  <2>3. QED
    BY <1>2, <2>1, <2>2 DEF RegLookup
<1>3. CASE RegUpdate(h)
  <2>1. Finish(h) /\ pc[h] = "known"
    BY <1>3 DEF RegUpdate
  <2>2. ReqOK' /\ pc' \in [Handlers -> {"idle", "valid", "new", "known", "allocated", "added"}]
               /\ req' \in [Handlers -> Requests \cup {NoRequest}]
    BY <2>1, FinishType
  <2>3. ASSUME NEW n \in WithId(req[h].id),
               nodes' = (nodes \ {n}) \cup {Refresh(n)},
               UNCHANGED <<authKeys, used, version>>,
               \/ Persist /\ Answer(n.key, n.id, req[h].vip, Refresh(n).status)
               \/ PersistFails /\ UNCHANGED acked
        PROVE  TypeOK'
    <3>1. n \in NodeRecords /\ Refresh(n) \in NodeRecords
      BY RefreshSame DEF WithId, TypeOK
    <3>2. nodes' \subseteq NodeRecords
      BY <2>3, <3>1 DEF TypeOK
    <3>3. disk' \in Files /\ fails' \in 0 .. MaxFails
      BY <2>3, <3>2, SaveType DEF Save, TypeOK
    <3>4. req[h].vip \in IPs
      BY <2>1 DEF ReqOK, Identified
    <3>5. acked' \subseteq [key : PubKeys, id : Ids, vip : IPs, status : Statuses]
      BY <2>3, <3>1, <3>4 DEF Answer, TypeOK, NodeRecords
    <3>6. QED
      BY <1>3, <2>2, <2>3, <3>2, <3>3, <3>5 DEF RegUpdate, TypeOK
  <2>4. CASE UNCHANGED <<store, disk, fails, acked>>
    BY <1>3, <2>2, <2>4 DEF RegUpdate, TypeOK
  <2>5. QED
    BY <1>3, <2>2, <2>3, <2>4 DEF RegUpdate
<1>4. CASE RegAllocate(h)
  <2>1. lastId \in Nat /\ lastId' = lastId + 1 /\ lastId' \in Ids /\ lastId' \in 0 .. MaxIds
    BY <1>4, RegistryAssumption DEF RegAllocate, TypeOK, Ids
  <2>2. ASSUME NEW a \in Free,
               pool' = [pool EXCEPT ![a] = lastId + 1],
               pc' = [pc EXCEPT ![h] = "allocated"],
               req' = [req EXCEPT ![h] = Request(@.key, @.auth, lastId + 1, a)]
        PROVE  TypeOK' /\ ReqOK'
    <3>1. a \in IPs /\ req[h] \in Requests
      BY <1>4 DEF RegAllocate, Free, ReqOK, Busy
    <3>2. pool' \in [IPs -> 0 .. MaxIds]
      BY <2>1, <2>2 DEF TypeOK
    <3>3. req'[h] \in Requests /\ req'[h].id = lastId + 1 /\ req'[h].vip = a
      <4>1. req'[h] = Request(req[h].key, req[h].auth, lastId + 1, a)
        BY <2>2 DEF TypeOK
      <4>2. QED
        BY <2>1, <3>1, <4>1, RegistryAssumption DEF Request, Requests, IPs
    <3>4. \A g \in Handlers : g # h => req'[g] = req[g] /\ pc'[g] = pc[g]
      BY <2>2 DEF TypeOK
    <3>5. req' \in [Handlers -> Requests \cup {NoRequest}]
      BY <2>2, <3>3, <3>4 DEF TypeOK
    <3>6. ReqOK'
      BY <2>1, <3>1, <3>3, <3>4 DEF ReqOK, Busy, Identified
    <3>7. TypeOK'
      BY <1>4, <2>1, <2>2, <3>2, <3>5 DEF RegAllocate, TypeOK
    <3>8. QED
      BY <3>6, <3>7
  <2>3. CASE Finish(h) /\ UNCHANGED pool
    BY <1>4, <2>1, <2>3, FinishType DEF RegAllocate, TypeOK
  <2>4. QED
    BY <1>4, <2>2, <2>3 DEF RegAllocate
<1>5. CASE RegAdd(h)
  <2> DEFINE r == req[h]
             new == [id |-> r.id, key |-> r.key, vip |-> r.vip,
                     status |-> InitialStatus, lastSeen |-> now]
  <2>1. r \in Requests /\ r.id \in Ids /\ r.vip \in IPs /\ InitialStatus \in Statuses
    BY <1>5 DEF RegAdd, ReqOK, Busy, Identified, InitialStatus, Statuses
  <2>2. new \in NodeRecords
    BY <2>1 DEF NodeRecords, Requests, TypeOK
  <2>3. nodes' = nodes \cup {new} /\ nodes' \subseteq NodeRecords
    BY <1>5, <2>2 DEF RegAdd, TypeOK
  <2>4. version' \in Nat
    BY <1>5 DEF RegAdd, TypeOK
  <2>5. disk' \in Files /\ fails' \in 0 .. MaxFails
    BY <1>5, <2>3, <2>4, SaveType DEF RegAdd, Save, TypeOK
  <2>6. admitted' \subseteq [id : Ids, auth : AuthKeys]
    BY <1>5, <2>1 DEF RegAdd, TypeOK, Requests
  <2>7. acked' \subseteq [key : PubKeys, id : Ids, vip : IPs, status : Statuses]
    BY <1>5, <2>1 DEF RegAdd, Answer, TypeOK, Requests
  <2>8. /\ ReqOK'
        /\ pc' \in [Handlers -> {"idle", "valid", "new", "known", "allocated", "added"}]
        /\ req' \in [Handlers -> Requests \cup {NoRequest}]
    <3>1. CASE Finish(h)
      BY <3>1, FinishType
    <3>2. CASE pc' = [pc EXCEPT ![h] = "added"] /\ UNCHANGED req
      BY <1>5, <2>1, <3>2 DEF TypeOK, ReqOK, Busy, Identified
    <3>3. QED
      BY <1>5, <3>1, <3>2 DEF RegAdd
  <2>9. QED
    BY <1>5, <2>3, <2>4, <2>5, <2>6, <2>7, <2>8 DEF RegAdd, TypeOK
<1>6. CASE RegMark(h)
  <2> DEFINE r == req[h]
  <2>1. r \in Requests /\ r.id \in Ids /\ r.vip \in IPs /\ InitialStatus \in Statuses
    BY <1>6 DEF RegMark, ReqOK, Busy, Identified, InitialStatus, Statuses
  <2>2. Finish(h)
    BY <1>6 DEF RegMark
  <2>3. acked' \subseteq [key : PubKeys, id : Ids, vip : IPs, status : Statuses]
    BY <1>6, <2>1 DEF RegMark, Answer, TypeOK, Requests
  <2>4. /\ nodes' \subseteq NodeRecords /\ authKeys' \subseteq AuthKeys
        /\ used' \subseteq AuthKeys /\ version' \in Nat
    BY <1>6, <2>1 DEF RegMark, TypeOK, Requests
  <2>5. disk' \in Files /\ fails' \in 0 .. MaxFails
    <3>1. CASE Save
      BY <2>4, <3>1, SaveType DEF TypeOK
    <3>2. CASE UNCHANGED <<store, disk, fails>>
      BY <3>2 DEF TypeOK
    <3>3. QED
      BY <1>6, <3>1, <3>2 DEF RegMark
  <2>6. QED
    BY <1>6, <2>2, <2>3, <2>4, <2>5, FinishType DEF RegMark, TypeOK
<1>7. QED
  BY <1>1, <1>2, <1>3, <1>4, <1>5, <1>6

\* The other requests, the admin, the clock, the collector and a restart.
LEMMA TypeOthers ==
    ASSUME TypeOK, ReqOK,
           \/ \E k \in PubKeys : TouchVerify(k) \/ TouchUpdate(k)
           \/ \E n \in nodes : Approve(n) \/ DeleteNode(n)
           \/ \E a \in AuthKeys : AddAuthKey(a) \/ DeleteAuthKey(a) \/ Lapse(a)
           \/ Tick \/ RunGC \/ Crash
    PROVE  TypeOK' /\ ReqOK'
<1> USE DEF store, handlers, world, history
<1>1. ASSUME NEW k \in PubKeys, TouchVerify(k) PROVE TypeOK' /\ ReqOK'
  BY <1>1 DEF TouchVerify, TypeOK, ReqOK, Busy, Identified
<1>2. ASSUME NEW k \in PubKeys, TouchUpdate(k) PROVE TypeOK' /\ ReqOK'
  <2>1. ReqOK'
    BY <1>2 DEF TouchUpdate, ReqOK, Busy, Identified
  <2>2. ASSUME NEW n \in Registered(k), nodes' = (nodes \ {n}) \cup {Refresh(n)},
               UNCHANGED <<authKeys, used, version>>, Save
        PROVE  TypeOK'
    <3>1. nodes' \subseteq NodeRecords
      BY <2>2, RefreshSame DEF Registered, TypeOK
    <3>2. disk' \in Files /\ fails' \in 0 .. MaxFails
      BY <2>2, <3>1, SaveType DEF TypeOK
    <3>3. QED
      BY <1>2, <2>2, <3>1, <3>2 DEF TouchUpdate, TypeOK
  <2>3. CASE UNCHANGED <<store, disk, fails>>
    BY <1>2, <2>1, <2>3 DEF TouchUpdate, TypeOK
  <2>4. QED
    BY <1>2, <2>1, <2>2, <2>3 DEF TouchUpdate
<1>3. ASSUME NEW n \in nodes, Approve(n) PROVE TypeOK' /\ ReqOK'
  <2>1. ReqOK'
    BY <1>3 DEF Approve, ReqOK, Busy, Identified
  <2>2. nodes' \subseteq NodeRecords /\ n.id \in Ids
    BY <1>3 DEF Approve, TypeOK, NodeRecords, Statuses
  <2>3. disk' \in Files /\ fails' \in 0 .. MaxFails
    BY <1>3, <2>2, SaveType DEF Approve, TypeOK
  <2>4. QED
    BY <1>3, <2>1, <2>2, <2>3 DEF Approve, TypeOK
<1>4. ASSUME NEW n \in nodes, DeleteNode(n) PROVE TypeOK' /\ ReqOK'
  <2>1. ReqOK'
    BY <1>4 DEF DeleteNode, ReqOK, Busy, Identified
  <2>2. nodes' \subseteq NodeRecords /\ n.id \in Ids
    BY <1>4 DEF DeleteNode, TypeOK, NodeRecords
  <2>3. disk' \in Files /\ fails' \in 0 .. MaxFails
    BY <1>4, <2>2, SaveType DEF DeleteNode, TypeOK
  <2>4. QED
    BY <1>4, <2>1, <2>2, <2>3 DEF DeleteNode, TypeOK
<1>5. ASSUME NEW a \in AuthKeys, AddAuthKey(a) \/ DeleteAuthKey(a)
      PROVE  TypeOK' /\ ReqOK'
  <2>1. ReqOK'
    BY <1>5 DEF AddAuthKey, DeleteAuthKey, ReqOK, Busy, Identified
  <2>2. /\ nodes' \subseteq NodeRecords /\ authKeys' \subseteq AuthKeys
        /\ used' \subseteq AuthKeys /\ version' \in Nat /\ Save
    BY <1>5 DEF AddAuthKey, DeleteAuthKey, TypeOK
  <2>3. disk' \in Files /\ fails' \in 0 .. MaxFails
    BY <2>2, SaveType DEF TypeOK
  <2>4. QED
    BY <1>5, <2>1, <2>2, <2>3 DEF AddAuthKey, DeleteAuthKey, TypeOK
<1>6. ASSUME NEW a \in AuthKeys, Lapse(a) PROVE TypeOK' /\ ReqOK'
  BY <1>6 DEF Lapse, TypeOK, ReqOK, Busy, Identified
<1>7. CASE Tick
  BY <1>7, RegistryAssumption DEF Tick, TypeOK, ReqOK, Busy, Identified
<1>8. CASE RunGC
  <2>1. ReqOK'
    BY <1>8 DEF RunGC, ReqOK, Busy, Identified
  <2>2. nodes' \subseteq NodeRecords
    BY <1>8, MarkedSame DEF RunGC, TypeOK
  <2>3. authKeys' \subseteq AuthKeys /\ used' \subseteq AuthKeys /\ version' \in Nat
    BY <1>8 DEF RunGC, TypeOK
  <2>4. removed' \subseteq Ids
    BY <1>8 DEF RunGC, TypeOK, NodeRecords
  <2>5. disk' \in Files /\ fails' \in 0 .. MaxFails
    BY <1>8, <2>2, <2>3, SaveType DEF RunGC, TypeOK
  <2>6. QED
    BY <1>8, <2>1, <2>2, <2>3, <2>4, <2>5 DEF RunGC, TypeOK
<1>9. CASE Crash
  <2>1. ReqOK'
    BY <1>9 DEF Crash, ReqOK, Busy, Identified
  <2>2. /\ nodes' \subseteq NodeRecords /\ authKeys' \subseteq AuthKeys
        /\ used' \subseteq AuthKeys /\ version' \in Nat
    BY <1>9 DEF Crash, TypeOK, Files
  <2>3. pool' \in [IPs -> 0 .. MaxIds]
    BY <1>9, <2>2, OwnersType DEF Crash
  <2>4. crashes' \in 0 .. MaxCrashes
    BY <1>9, RegistryAssumption DEF Crash, TypeOK
  <2>5. QED
    BY <1>9, <2>1, <2>2, <2>3, <2>4 DEF Crash, TypeOK
<1>10. QED
  BY <1>1, <1>2, <1>3, <1>4, <1>5, <1>6, <1>7, <1>8, <1>9

\* No step breaks the types.
LEMMA TypeStep == TypeOK /\ ReqOK /\ [Next]_vars => TypeOK' /\ ReqOK'
<1>1. ASSUME TypeOK, ReqOK, UNCHANGED vars PROVE TypeOK' /\ ReqOK'
  BY <1>1 DEF vars, store, handlers, world, history, TypeOK, ReqOK, Busy, Identified
<1>2. QED
  BY <1>1, TypeRegister, TypeOthers DEF Next

\* The registry, its file, the pool and the requests stay well typed.
THEOREM TypeCorrect == Spec => [](TypeOK /\ ReqOK)
<1>1. Init => TypeOK /\ ReqOK
  BY TypeInit
<1>2. TypeOK /\ ReqOK /\ [Next]_vars => TypeOK' /\ ReqOK'
  BY TypeStep
<1>3. QED
  BY <1>1, <1>2, PTL DEF Spec

-----------------------------------------------------------------------------
(* Addresses. *)

\* The empty registry gives no address to anyone.
LEMMA SoundInit == Init => Sound
BY RegistryAssumption
   DEF Init, Sound, IdsUnique, VIPsUnique, IdsGiven, FileSound, PoolSound, ClaimsSound, IPs

\* A step that only drops or rewrites nodes, and starts no claim, keeps the
\* addresses sound, whether it writes the file or fails to.
LEMMA Descend ==
    ASSUME TypeOK, TypeOK', Sound, UNCHANGED <<pool, lastId>>,
           \A h \in Handlers : pc'[h] = "allocated" =>
               pc[h] = "allocated" /\ req'[h] = req[h],
           IdsUnique(nodes'),
           \A m \in nodes' : \E n \in nodes : m.id = n.id /\ m.vip = n.vip,
           disk' = disk \/ disk'.nodes = nodes'
    PROVE  Sound'
<1>1. PoolSound'
  BY DEF Sound, PoolSound
<1>2. ClaimsSound'
  BY DEF Sound, ClaimsSound
<1>3. VIPsUnique(nodes')
  BY <1>1 DEF IdsUnique, PoolSound, VIPsUnique
<1>4. \A n \in nodes' : n.id <= lastId'
  <2>1. \A n \in nodes' : n.vip \in IPs
    BY DEF TypeOK, NodeRecords
  <2>2. QED
    BY <1>1, <2>1 DEF PoolSound
<1>5. FileSound'
  BY <1>3, <1>4 DEF Sound, FileSound, IdsUnique, VIPsUnique, IdsGiven
<1>6. QED
  BY <1>1, <1>2, <1>5 DEF Sound

\* A write leaves the file as it was or with the new list.
LEMMA SaveNodes == Save => disk' = disk \/ disk'.nodes = nodes'
BY DEF Save, Persist, PersistFails

\* Ending a request ends its claim and touches no other.
LEMMA FinishClaims ==
    ASSUME TypeOK, NEW h \in Handlers, Finish(h)
    PROVE  \A g \in Handlers : pc'[g] = "allocated" => pc[g] = "allocated" /\ req'[g] = req[g]
BY DEF TypeOK, Finish

\* Replacing a node by one with its id and address keeps the addresses sound.
LEMMA Rewrite ==
    ASSUME TypeOK, TypeOK', Sound, UNCHANGED <<pool, lastId>>,
           \A h \in Handlers : pc'[h] = "allocated" =>
               pc[h] = "allocated" /\ req'[h] = req[h],
           NEW n \in nodes, NEW r, r.id = n.id, r.vip = n.vip,
           nodes' = (nodes \ {n}) \cup {r}, Save
    PROVE  Sound'
<1>1. IdsUnique(nodes')
  BY DEF Sound, IdsUnique
<1>2. \A m \in nodes' : \E o \in nodes : m.id = o.id /\ m.vip = o.vip
  OBVIOUS
<1>3. QED
  BY <1>1, <1>2, SaveNodes, Descend

\* A step that leaves the nodes alone and starts no claim keeps them sound.
LEMMA Idle ==
    ASSUME TypeOK, TypeOK', Sound, UNCHANGED <<nodes, pool, lastId>>,
           \A h \in Handlers : pc'[h] = "allocated" =>
               pc[h] = "allocated" /\ req'[h] = req[h],
           disk' = disk \/ disk'.nodes = nodes'
    PROVE  Sound'
<1>1. IdsUnique(nodes')
  BY DEF Sound, IdsUnique
<1>2. QED
  BY <1>1, Descend

\* The steps of handleRegister: an address is claimed while no node and no
\* other handler has it, and a node is added with the address claimed for it.
LEMMA SoundRegister ==
    ASSUME TypeOK, ReqOK, TypeOK', Sound, NEW h \in Handlers,
           \/ \E k \in PubKeys, a \in AuthKeys : RegStart(h, k, a)
           \/ RegLookup(h) \/ RegUpdate(h) \/ RegAllocate(h) \/ RegAdd(h) \/ RegMark(h)
    PROVE  Sound'
<1> USE DEF store, handlers, world, history
<1>1. ASSUME NEW k \in PubKeys, NEW a \in AuthKeys, RegStart(h, k, a) PROVE Sound'
  <2>1. \A g \in Handlers : pc'[g] = "allocated" => pc[g] = "allocated" /\ req'[g] = req[g]
    BY <1>1 DEF RegStart, TypeOK
  <2>2. QED
    BY <1>1, <2>1, Idle DEF RegStart
<1>2. CASE RegLookup(h)
  <2>1. \A g \in Handlers : pc'[g] = "allocated" => pc[g] = "allocated" /\ req'[g] = req[g]
    BY <1>2 DEF RegLookup, TypeOK
  <2>2. QED
    BY <1>2, <2>1, Idle DEF RegLookup
<1>3. CASE RegUpdate(h)
  <2>1. \A g \in Handlers : pc'[g] = "allocated" => pc[g] = "allocated" /\ req'[g] = req[g]
    BY <1>3, FinishClaims DEF RegUpdate
  <2>2. UNCHANGED <<pool, lastId>>
    BY <1>3 DEF RegUpdate
  <2>3. ASSUME NEW n \in WithId(req[h].id), nodes' = (nodes \ {n}) \cup {Refresh(n)}, Save
        PROVE  Sound'
    <3>1. n \in nodes /\ Refresh(n).id = n.id /\ Refresh(n).vip = n.vip
      BY <2>3, RefreshSame DEF WithId, TypeOK
    <3> DEFINE r == Refresh(n)
    <3>2. r.id = n.id /\ r.vip = n.vip /\ nodes' = (nodes \ {n}) \cup {r}
      BY <2>3, <3>1
    <3> HIDE DEF r
    <3>3. QED
      BY <2>1, <2>2, <2>3, <3>1, <3>2, Rewrite
  <2>4. CASE UNCHANGED <<store, disk, fails, acked>>
    BY <2>1, <2>2, <2>4, Idle
  <2>5. QED
    BY <1>3, <2>3, <2>4 DEF RegUpdate, Save
<1>4. CASE RegAllocate(h)
  <2>1. lastId \in Nat /\ lastId' = lastId + 1 /\ UNCHANGED <<nodes, disk>>
    BY <1>4, RegistryAssumption DEF RegAllocate, TypeOK
  <2>2. IdsUnique(nodes)' /\ FileSound'
    BY <2>1 DEF Sound, IdsUnique, FileSound, VIPsUnique, IdsGiven, TypeOK, Files,
                NodeRecords, Ids
  <2>3. \A n \in nodes : n.vip \in IPs /\ n.id \in Ids /\ n.id <= lastId
    <3>1. \A n \in nodes : n.vip \in IPs /\ n.id \in Ids /\ pool[n.vip] = n.id
      BY DEF TypeOK, NodeRecords, Sound, PoolSound
    <3>2. QED
      BY <3>1 DEF Sound, PoolSound
  <2>4. ASSUME NEW a \in Free,
               pool' = [pool EXCEPT ![a] = lastId + 1],
               pc' = [pc EXCEPT ![h] = "allocated"],
               req' = [req EXCEPT ![h] = Request(@.key, @.auth, lastId + 1, a)]
        PROVE  PoolSound' /\ ClaimsSound'
    <3>1. a \in IPs /\ pool[a] = 0
      BY DEF Free
    <3>2. /\ pool'[a] = lastId + 1
          /\ \A b \in IPs : b # a => pool'[b] = pool[b]
      BY <2>4, <3>1 DEF TypeOK
    <3>3. /\ pc'[h] = "allocated" /\ req'[h].id = lastId + 1 /\ req'[h].vip = a
          /\ \A g \in Handlers : g # h => pc'[g] = pc[g] /\ req'[g] = req[g]
      BY <2>4 DEF TypeOK, Request
    <3>4. \A n \in nodes : n.vip # a
      BY <2>3, <3>1 DEF Sound, PoolSound, Ids
    <3>5. PoolSound'
      BY <2>1, <2>3, <3>1, <3>2, <3>4 DEF Sound, PoolSound, TypeOK
    <3>6. \A g \in Handlers : pc[g] = "allocated" =>
             /\ req[g].vip \in IPs /\ req[g].vip # a
             /\ req[g].id \in Ids /\ req[g].id <= lastId
      <4>1. \A g \in Handlers : pc[g] = "allocated" =>
               /\ req[g].vip \in IPs /\ req[g].id \in Ids
               /\ pool[req[g].vip] = req[g].id
        BY DEF ReqOK, Identified, Sound, ClaimsSound
      <4>2. QED
        BY <3>1, <4>1 DEF Sound, PoolSound, Ids
    <3>7. ClaimsSound'
      BY <2>1, <2>3, <3>2, <3>3, <3>6 DEF Sound, ClaimsSound, Ids
    <3>8. QED
      BY <3>5, <3>7
  <2>5. CASE Finish(h) /\ UNCHANGED pool
    <3>1. \A g \in Handlers : pc'[g] = "allocated" => pc[g] = "allocated" /\ req'[g] = req[g]
      BY <2>5, FinishClaims
    <3>2. PoolSound'
      BY <2>1, <2>5 DEF Sound, PoolSound, TypeOK
    <3>3. ClaimsSound'
      BY <2>1, <2>5, <3>1 DEF Sound, ClaimsSound
    <3>4. QED
      BY <2>2, <3>2, <3>3 DEF Sound
  <2>6. QED
    BY <1>4, <2>2, <2>4, <2>5 DEF RegAllocate, Sound
<1>5. CASE RegAdd(h)
  <2> DEFINE r == req[h]
             new == [id |-> r.id, key |-> r.key, vip |-> r.vip,
                     status |-> InitialStatus, lastSeen |-> now]
  <2>1. /\ nodes' = nodes \cup {new} /\ pc[h] = "allocated"
        /\ UNCHANGED <<pool, lastId>>
    BY <1>5 DEF RegAdd
  <2>2. /\ r.id \in Ids /\ r.vip \in IPs /\ pool[r.vip] = r.id
        /\ \A n \in nodes : n.id # r.id
    BY <2>1 DEF ReqOK, Identified, Sound, ClaimsSound
  <2>3. new.id = r.id /\ new.vip = r.vip
    OBVIOUS
  <2> HIDE DEF new
  <2>4. IdsUnique(nodes')
    BY <2>1, <2>2, <2>3 DEF Sound, IdsUnique
  <2>5. PoolSound'
    BY <2>1, <2>2, <2>3 DEF Sound, PoolSound
  <2>6. \A g \in Handlers : pc'[g] = "allocated" =>
           g # h /\ pc[g] = "allocated" /\ req'[g] = req[g]
    BY <1>5 DEF RegAdd, Finish, TypeOK
  <2>7. ClaimsSound'
    BY <2>1, <2>3, <2>6 DEF Sound, ClaimsSound
  <2>8. FileSound'
    <3>1. VIPsUnique(nodes')
      BY <2>4, <2>5 DEF IdsUnique, PoolSound, VIPsUnique
    <3>2. \A n \in nodes' : n.id <= lastId'
      <4>1. \A n \in nodes' : n.vip \in IPs
        BY DEF TypeOK, NodeRecords
      <4>2. QED
        BY <2>5, <4>1 DEF PoolSound
    <3>3. disk' = disk \/ disk'.nodes = nodes'
      BY <1>5, SaveNodes DEF RegAdd, Save
    <3>4. QED
      BY <2>1, <2>4, <3>1, <3>2, <3>3 DEF Sound, FileSound, IdsUnique, VIPsUnique, IdsGiven
  <2>9. QED
    BY <2>4, <2>5, <2>7, <2>8 DEF Sound
<1>6. CASE RegMark(h)
  <2>1. \A g \in Handlers : pc'[g] = "allocated" => pc[g] = "allocated" /\ req'[g] = req[g]
    BY <1>6, FinishClaims DEF RegMark
  <2>2. disk' = disk \/ disk'.nodes = nodes'
    BY <1>6, SaveNodes DEF RegMark
  <2>3. UNCHANGED <<nodes, pool, lastId>>
    BY <1>6 DEF RegMark
  <2>4. QED
    BY <2>1, <2>2, <2>3, Idle
<1>7. QED
  BY <1>1, <1>2, <1>3, <1>4, <1>5, <1>6

\* The other requests, the admin, the clock and the collector rewrite and drop
\* nodes; a restart takes all three of nodes, file and pool from the file.
LEMMA SoundOthers ==
    ASSUME TypeOK, ReqOK, TypeOK', Sound,
           \/ \E k \in PubKeys : TouchVerify(k) \/ TouchUpdate(k)
           \/ \E n \in nodes : Approve(n) \/ DeleteNode(n)
           \/ \E a \in AuthKeys : AddAuthKey(a) \/ DeleteAuthKey(a) \/ Lapse(a)
           \/ Tick \/ RunGC \/ Crash
    PROVE  Sound'
<1> USE DEF store, handlers, world, history
<1>1. ASSUME NEW k \in PubKeys, TouchVerify(k) PROVE Sound'
  BY <1>1, Idle DEF TouchVerify
<1>2. ASSUME NEW k \in PubKeys, TouchUpdate(k) PROVE Sound'
  <2>1. UNCHANGED <<pool, lastId, pc, req>>
    BY <1>2 DEF TouchUpdate
  <2>2. ASSUME NEW n \in Registered(k), nodes' = (nodes \ {n}) \cup {Refresh(n)}, Save
        PROVE  Sound'
    <3>1. n \in nodes /\ Refresh(n).id = n.id /\ Refresh(n).vip = n.vip
      BY <2>2, RefreshSame DEF Registered, TypeOK
    <3> DEFINE r == Refresh(n)
    <3>2. r.id = n.id /\ r.vip = n.vip /\ nodes' = (nodes \ {n}) \cup {r}
      BY <2>2, <3>1
    <3> HIDE DEF r
    <3>3. QED
      BY <2>1, <2>2, <3>1, <3>2, Rewrite
  <2>3. CASE UNCHANGED <<store, disk, fails>>
    BY <2>1, <2>3, Idle
  <2>4. QED
    BY <1>2, <2>2, <2>3 DEF TouchUpdate
<1>3. ASSUME NEW n \in nodes, Approve(n) PROVE Sound'
  <2> DEFINE r == [n EXCEPT !.status = "active"]
  <2>1. n \in NodeRecords
    BY DEF TypeOK
  <2>2. r.id = n.id /\ r.vip = n.vip
    BY <2>1 DEF NodeRecords
  <2>3. nodes' = (nodes \ {n}) \cup {r} /\ Save /\ UNCHANGED <<pool, lastId, pc, req>>
    BY <1>3 DEF Approve
  <2> HIDE DEF r
  <2>4. QED
    BY <2>2, <2>3, Rewrite
<1>4. ASSUME NEW n \in nodes, DeleteNode(n) PROVE Sound'
  <2>1. IdsUnique(nodes')
    BY <1>4 DEF DeleteNode, Sound, IdsUnique
  <2>2. \A m \in nodes' : \E o \in nodes : m.id = o.id /\ m.vip = o.vip
    BY <1>4 DEF DeleteNode
  <2>3. Save /\ UNCHANGED <<pool, lastId, pc, req>>
    BY <1>4 DEF DeleteNode
  <2>4. QED
    BY <2>1, <2>2, <2>3, SaveNodes, Descend
<1>5. ASSUME NEW a \in AuthKeys, AddAuthKey(a) \/ DeleteAuthKey(a) PROVE Sound'
  <2>1. Save /\ UNCHANGED <<nodes, pool, lastId, pc, req>>
    BY <1>5 DEF AddAuthKey, DeleteAuthKey
  <2>2. QED
    BY <2>1, SaveNodes, Idle
<1>6. ASSUME NEW a \in AuthKeys, Lapse(a) PROVE Sound'
  BY <1>6, Idle DEF Lapse
<1>7. CASE Tick
  BY <1>7, Idle DEF Tick
<1>8. CASE RunGC
  <2>1. /\ nodes' = {Marked(n) : n \in {m \in nodes : ~ Dropped(m)}}
        /\ Save /\ UNCHANGED <<pool, lastId, pc, req>>
    BY <1>8 DEF RunGC
  <2>2. \A n \in nodes : Marked(n).id = n.id /\ Marked(n).vip = n.vip
    BY MarkedSame DEF TypeOK
  <2>3. IdsUnique(nodes')
    BY <2>1, <2>2 DEF Sound, IdsUnique
  <2>4. \A m \in nodes' : \E o \in nodes : m.id = o.id /\ m.vip = o.vip
    BY <2>1, <2>2
  <2>5. QED
    BY <2>1, <2>3, <2>4, SaveNodes, Descend
<1>9. CASE Crash
  <2>1. /\ nodes' = disk.nodes /\ disk' = disk /\ lastId' = lastId
        /\ pool' = Owners(disk.nodes)
        /\ \A h \in Handlers : pc'[h] = "idle"
    BY <1>9 DEF Crash
  <2>2. disk.nodes \in SUBSET NodeRecords /\ VIPsUnique(disk.nodes)
    BY DEF TypeOK, Files, Sound, FileSound
  <2>3. IdsUnique(nodes)' /\ FileSound'
    BY <2>1 DEF Sound, FileSound, IdsUnique, VIPsUnique, IdsGiven
  <2>4. \A n \in nodes' : pool'[n.vip] = n.id
    BY <2>1, <2>2, OwnersSound
  <2>5. \A a \in IPs : pool'[a] <= lastId'
    <3>1. \A a \in IPs : pool'[a] = 0 \/ \E n \in disk.nodes : pool'[a] = n.id
      BY <2>1, <2>2, OwnersType
    <3>2. lastId' \in Nat
      BY RegistryAssumption DEF TypeOK
    <3>3. QED
      BY <2>1, <3>1, <3>2 DEF Sound, FileSound, IdsGiven
  <2>6. ClaimsSound'
    BY <2>1 DEF ClaimsSound
  <2>7. QED
    BY <2>3, <2>4, <2>5, <2>6 DEF Sound, PoolSound
<1>10. QED
  BY <1>1, <1>2, <1>3, <1>4, <1>5, <1>6, <1>7, <1>8, <1>9

\* IInv is inductive.
LEMMA SoundStep == TypeOK /\ ReqOK /\ Sound /\ [Next]_vars => Sound'
<1> SUFFICES ASSUME TypeOK, ReqOK, Sound, [Next]_vars PROVE Sound'
  OBVIOUS
<1>1. TypeOK'
  BY TypeStep
<1>2. CASE UNCHANGED vars
  BY <1>1, <1>2, Idle DEF vars, store, handlers
<1>3. QED
  BY <1>1, <1>2, SoundRegister, SoundOthers DEF Next

\* No two nodes of the registry ever have one virtual IP.
THEOREM UniqueVIPCorrect == Spec => []UniqueVIP
<1>1. Init => IInv
  BY TypeInit, SoundInit DEF IInv
<1>2. IInv /\ [Next]_vars => IInv'
  BY TypeStep, SoundStep DEF IInv
<1>3. IInv => UniqueVIP
  BY OwnersDiffer DEF IInv, Sound, VIPsUnique, UniqueVIP
<1>4. QED
  BY <1>1, <1>2, <1>3, PTL DEF Spec

-----------------------------------------------------------------------------
(* What the admin approved. *)

ActiveApproved(ns) == Manual => \A n \in ns : n.status = "active" => n.id \in approved

\* No step but the admin's makes a node active, and a restart finds none in the
\* file that he did not approve.
ApprovalInv == ActiveApproved(nodes) /\ ActiveApproved(disk.nodes)

\* A step that makes no node active keeps this.
LEMMA NoneActivated ==
    ASSUME ApprovalInv, approved \subseteq approved',
           Manual => \A m \in nodes' : m.status = "active" =>
               m.id \in approved' \/ \E n \in nodes : n.id = m.id /\ n.status = "active",
           disk' = disk \/ disk'.nodes = nodes'
    PROVE  ApprovalInv'
<1>1. ActiveApproved(nodes)'
  BY DEF ApprovalInv, ActiveApproved
<1>2. ActiveApproved(disk.nodes)'
  BY <1>1 DEF ApprovalInv, ActiveApproved
<1> QED
  BY <1>1, <1>2 DEF ApprovalInv

\* A step that changes no node.
LEMMA ApprovalIdle ==
    ASSUME ApprovalInv, UNCHANGED <<nodes, approved>>, disk' = disk \/ disk'.nodes = nodes'
    PROVE  ApprovalInv'
BY DEF ApprovalInv, ActiveApproved

\* A refreshed node has the status it had.
LEMMA RefreshStatus ==
    ASSUME NEW n \in NodeRecords
    PROVE  Refresh(n).status = n.status /\ Refresh(n).id = n.id
BY DEF Refresh, NodeRecords

\* The collector makes no node active.
LEMMA MarkedStatus ==
    ASSUME NEW n \in NodeRecords
    PROVE  Marked(n).id = n.id /\ (Marked(n).status = "active" => n.status = "active")
BY DEF Marked, NodeRecords

\* Replacing a node by its refreshed record.
LEMMA ApprovalRefresh ==
    ASSUME ApprovalInv, NEW n \in nodes, n \in NodeRecords,
           nodes' = (nodes \ {n}) \cup {Refresh(n)}, UNCHANGED approved,
           disk' = disk \/ disk'.nodes = nodes'
    PROVE  ApprovalInv'
<1>1. \A m \in nodes' : m.status = "active" =>
          \E o \in nodes : o.id = m.id /\ o.status = "active"
  BY RefreshStatus
<1> QED
  BY <1>1, NoneActivated

\* Every step keeps it.
LEMMA ApprovalStep == TypeOK /\ ApprovalInv /\ [Next]_vars => ApprovalInv'
<1> SUFFICES ASSUME TypeOK, ApprovalInv, [Next]_vars PROVE ApprovalInv'
  OBVIOUS
<1> USE DEF store, history
<1>0. \A n \in nodes : n \in NodeRecords
  BY DEF TypeOK
<1>1. ASSUME NEW h \in Handlers,
             \/ \E k \in PubKeys, a \in AuthKeys : RegStart(h, k, a)
             \/ RegLookup(h) \/ RegAllocate(h) \/ RegMark(h)
      PROVE  ApprovalInv'
  <2>1. UNCHANGED <<nodes, approved>>
    BY <1>1 DEF RegStart, RegLookup, RegAllocate, RegMark
  <2>2. disk' = disk \/ disk'.nodes = nodes'
    BY <1>1, SaveNodes DEF RegStart, RegLookup, RegAllocate, RegMark
  <2> QED
    BY <2>1, <2>2, ApprovalIdle
<1>2. ASSUME NEW h \in Handlers, RegUpdate(h) PROVE ApprovalInv'
  <2>1. CASE UNCHANGED <<store, disk, fails, acked>>
    BY <1>2, <2>1, ApprovalIdle DEF RegUpdate
  <2>2. ASSUME NEW n \in WithId(req[h].id), nodes' = (nodes \ {n}) \cup {Refresh(n)}, Save
        PROVE  ApprovalInv'
    BY <1>0, <1>2, <2>2, SaveNodes, ApprovalRefresh DEF RegUpdate, WithId
  <2> QED
    BY <1>2, <2>1, <2>2 DEF RegUpdate, Save
<1>3. ASSUME NEW h \in Handlers, RegAdd(h) PROVE ApprovalInv'
  <2>1. Manual => \A m \in nodes' : m.status = "active" => m \in nodes
    BY <1>3 DEF RegAdd, InitialStatus
  <2>2. disk' = disk \/ disk'.nodes = nodes'
    BY <1>3, SaveNodes DEF RegAdd, Save
  <2> QED
    BY <1>3, <2>1, <2>2, NoneActivated DEF RegAdd
<1>4. ASSUME NEW k \in PubKeys, TouchVerify(k) PROVE ApprovalInv'
  BY <1>4, ApprovalIdle DEF TouchVerify
<1>5. ASSUME NEW k \in PubKeys, TouchUpdate(k) PROVE ApprovalInv'
  <2>1. CASE UNCHANGED <<store, disk, fails>>
    BY <1>5, <2>1, ApprovalIdle DEF TouchUpdate
  <2>2. ASSUME NEW n \in Registered(k), nodes' = (nodes \ {n}) \cup {Refresh(n)}, Save
        PROVE  ApprovalInv'
    BY <1>0, <1>5, <2>2, SaveNodes, ApprovalRefresh DEF TouchUpdate, Registered
  <2> QED
    BY <1>5, <2>1, <2>2 DEF TouchUpdate
<1>6. ASSUME NEW n \in nodes, Approve(n) PROVE ApprovalInv'
  <2>1. [n EXCEPT !.status = "active"].id = n.id
    BY <1>0 DEF NodeRecords
  <2>2. \A m \in nodes' : m \in nodes \/ m.id \in approved'
    BY <1>6, <2>1 DEF Approve
  <2> QED
    BY <1>6, <2>2, SaveNodes, NoneActivated DEF Approve
<1>7. ASSUME NEW n \in nodes, DeleteNode(n) PROVE ApprovalInv'
  BY <1>7, SaveNodes, NoneActivated DEF DeleteNode
<1>8. ASSUME NEW a \in AuthKeys, AddAuthKey(a) \/ DeleteAuthKey(a) \/ Lapse(a)
      PROVE  ApprovalInv'
  BY <1>8, SaveNodes, ApprovalIdle DEF AddAuthKey, DeleteAuthKey, Lapse
<1>9. CASE Tick
  BY <1>9, ApprovalIdle DEF Tick
<1>10. CASE RunGC
  <2>1. \A m \in nodes' : m.status = "active" =>
            \E n \in nodes : n.id = m.id /\ n.status = "active"
    BY <1>0, <1>10, MarkedStatus DEF RunGC
  <2> QED
    BY <1>10, <2>1, SaveNodes, NoneActivated DEF RunGC
<1>11. CASE Crash
  BY <1>11 DEF Crash, ApprovalInv, ActiveApproved
<1>12. CASE UNCHANGED vars
  BY <1>12, ApprovalIdle DEF vars
<1> QED
  BY <1>1, <1>2, <1>3, <1>4, <1>5, <1>6, <1>7, <1>8, <1>9, <1>10, <1>11, <1>12 DEF Next

\* In manual mode a node is active only if the admin approved it, whatever it
\* registers, pings or is collected, and whatever a restart brings back.
THEOREM ApprovalCorrect == Spec => []ActiveOnlyIfApproved
<1>1. Init => TypeOK /\ ReqOK /\ ApprovalInv
  BY TypeInit DEF Init, ApprovalInv, ActiveApproved
<1>2. ApprovalInv => ActiveOnlyIfApproved
  BY DEF ApprovalInv, ActiveApproved, ActiveOnlyIfApproved
<1> QED
  BY <1>1, <1>2, TypeStep, ApprovalStep, PTL DEF Spec

-----------------------------------------------------------------------------
(* What was answered. *)

\* The node with this id, key and address is in the list, or was taken out.
Kept(ns, id, key, vip) ==
    id \in removed \/ \E n \in ns : n.id = id /\ n.key = key /\ n.vip = vip

KeptBoth(x) == Kept(nodes, x.id, x.key, x.vip) /\ Kept(disk.nodes, x.id, x.key, x.vip)

\* The file must have what was answered, memory too, as the next write of the
\* file takes it from there; and what a handler is about to answer is so already.
AnswersKept == \A x \in acked : KeptBoth(x)

AddedKept == \A h \in Handlers : pc[h] = "added" => KeptBoth(req[h])

\* The copy of a record that a handler answers from has the node's address: its
\* id is never given to another node.
CopiesTrue ==
    \A h \in Handlers : pc[h] = "known" =>
        /\ req[h].id <= lastId
        /\ \A n \in nodes : n.id = req[h].id => n.vip = req[h].vip
        /\ \A g \in Handlers : pc[g] = "allocated" => req[g].id # req[h].id

AckInv == AnswersKept /\ AddedKept /\ CopiesTrue

\* The nodes of a step that drops none but those it takes out.
NodesKept ==
    /\ removed \subseteq removed'
    /\ \A n \in nodes : \/ n.id \in removed'
                        \/ \E m \in nodes' : m.id = n.id /\ m.key = n.key /\ m.vip = n.vip

\* Such a step loses nothing of what memory and file have.
LEMMA KeptStays ==
    ASSUME NodesKept, disk' = disk \/ disk'.nodes = nodes',
           NEW id, NEW key, NEW vip, Kept(nodes, id, key, vip), Kept(disk.nodes, id, key, vip)
    PROVE  Kept(nodes, id, key, vip)' /\ Kept(disk.nodes, id, key, vip)'
<1>1. Kept(nodes, id, key, vip)'
  BY DEF Kept, NodesKept
<1>2. Kept(disk.nodes, id, key, vip)'
  <2>1. CASE disk' = disk
    BY <2>1 DEF Kept, NodesKept
  <2>2. CASE disk'.nodes = nodes'
    BY <1>1, <2>2 DEF Kept
  <2> QED
    BY <2>1, <2>2
<1> QED
  BY <1>1, <1>2

\* So the answers given stay true.
LEMMA AnswersStay ==
    ASSUME AckInv, NodesKept, disk' = disk \/ disk'.nodes = nodes',
           NEW x, x \in acked \/ \E h \in Handlers : pc[h] = "added" /\ x = req[h]
    PROVE  KeptBoth(x)'
<1>1. Kept(nodes, x.id, x.key, x.vip) /\ Kept(disk.nodes, x.id, x.key, x.vip)
  BY DEF AckInv, AnswersKept, AddedKept, KeptBoth
<1> QED
  BY <1>1, KeptStays DEF KeptBoth

\* A step in which no handler comes to know or to have added a node, none
\* claims an id, and no node is added.
LEMMA AckQuiet ==
    ASSUME AckInv, NodesKept, disk' = disk \/ disk'.nodes = nodes',
           UNCHANGED <<lastId, acked>>,
           \A m \in nodes' : \E n \in nodes : m.id = n.id /\ m.vip = n.vip,
           \A h \in Handlers : pc'[h] \in {"known", "allocated", "added"} =>
               pc'[h] = pc[h] /\ req'[h] = req[h]
    PROVE  AckInv'
<1>1. AnswersKept'
  <2>1. ASSUME NEW x \in acked PROVE KeptBoth(x)'
    BY AnswersStay
  <2> QED
    BY <2>1 DEF AnswersKept
<1>2. AddedKept'
  <2>1. ASSUME NEW h \in Handlers, pc'[h] = "added" PROVE KeptBoth(req[h])'
    <3>1. pc[h] = "added" /\ req'[h] = req[h]
      BY <2>1
    <3>2. PICK x : x = req[h]
      OBVIOUS
    <3>3. KeptBoth(x)'
      BY <3>1, <3>2, AnswersStay
    <3> QED
      BY <3>1, <3>2, <3>3 DEF KeptBoth
  <2> QED
    BY <2>1 DEF AddedKept
<1>3. CopiesTrue'
  BY DEF AckInv, CopiesTrue
<1> QED
  BY <1>1, <1>2, <1>3 DEF AckInv

\* A refreshed node is kept.
LEMMA RefreshKeeps ==
    ASSUME TypeOK, NEW n \in nodes, nodes' = (nodes \ {n}) \cup {Refresh(n)},
           removed \subseteq removed'
    PROVE  /\ NodesKept
           /\ \A m \in nodes' : \E o \in nodes : m.id = o.id /\ m.vip = o.vip
<1>1. n \in NodeRecords
  BY DEF TypeOK
<1>2. Refresh(n).id = n.id /\ Refresh(n).key = n.key /\ Refresh(n).vip = n.vip
  BY <1>1 DEF Refresh, NodeRecords
<1>3. Refresh(n) \in nodes'
  OBVIOUS
<1> QED
  BY <1>2, <1>3 DEF NodesKept

\* The history of answers gains the one that is given.
LEMMA AnswerAdds ==
    ASSUME NEW key, NEW id, NEW vip, NEW status, Answer(key, id, vip, status)
    PROVE  \A x \in acked' : x \in acked \/ (x.id = id /\ x.key = key /\ x.vip = vip)
BY DEF Answer

\* The steps of handleRegister: the answer is given after the file was written
\* with the node in it.
LEMMA AckRegister ==
    ASSUME IInv, IInv', AckInv, NEW h \in Handlers,
           \/ \E k \in PubKeys, a \in AuthKeys : RegStart(h, k, a)
           \/ RegLookup(h) \/ RegUpdate(h) \/ RegAllocate(h) \/ RegAdd(h) \/ RegMark(h)
    PROVE  AckInv'
<1> USE DEF store, handlers, world, history
<1>1. ASSUME NEW k \in PubKeys, NEW a \in AuthKeys, RegStart(h, k, a) PROVE AckInv'
  <2>1. \A g \in Handlers : pc'[g] \in {"known", "allocated", "added"} =>
            pc'[g] = pc[g] /\ req'[g] = req[g]
    BY <1>1 DEF RegStart, IInv, TypeOK
  <2>2. NodesKept /\ \A m \in nodes' : \E n \in nodes : m.id = n.id /\ m.vip = n.vip
    BY <1>1 DEF RegStart, NodesKept
  <2> QED
    BY <1>1, <2>1, <2>2, AckQuiet DEF RegStart
<1>2. CASE RegLookup(h)
  <2>1. UNCHANGED <<nodes, disk, lastId, acked, removed>>
    BY <1>2 DEF RegLookup
  <2>2. \A g \in Handlers : g # h => pc'[g] = pc[g] /\ req'[g] = req[g]
    BY <1>2 DEF RegLookup, IInv, TypeOK
  <2>3. pc'[h] \notin {"allocated", "added"}
    BY <1>2 DEF RegLookup, IInv, TypeOK
  <2>4. AnswersKept' /\ AddedKept'
    BY <2>1, <2>2, <2>3 DEF AckInv, AnswersKept, AddedKept, KeptBoth, Kept
  <2>5. pc'[h] = "known" => \E n \in nodes : req'[h].id = n.id /\ req'[h].vip = n.vip
    BY <1>2 DEF RegLookup, IInv, TypeOK, Registered, Request
  <2>6. ASSUME NEW n \in nodes
        PROVE  /\ n.id <= lastId
               /\ \A m \in nodes : m.id = n.id => m.vip = n.vip
               /\ \A g \in Handlers : pc[g] = "allocated" => req[g].id # n.id
    <3>1. n.vip \in IPs
      BY DEF IInv, TypeOK, NodeRecords
    <3> QED
      BY <3>1 DEF IInv, Sound, IdsUnique, PoolSound, ClaimsSound
  <2>7. CopiesTrue'
    BY <2>1, <2>2, <2>3, <2>5, <2>6 DEF AckInv, CopiesTrue
  <2> QED
    BY <2>4, <2>7 DEF AckInv
<1>3. CASE RegUpdate(h)
  <2>1. /\ pc'[h] = "idle" /\ \A g \in Handlers : g # h => pc'[g] = pc[g] /\ req'[g] = req[g]
        /\ UNCHANGED <<lastId, removed>> /\ pc[h] = "known"
    BY <1>3 DEF RegUpdate, Finish, IInv, TypeOK
  <2>2. CASE UNCHANGED <<store, disk, fails, acked>>
    BY <2>1, <2>2, AckQuiet DEF NodesKept
  <2>3. ASSUME NEW n \in WithId(req[h].id), nodes' = (nodes \ {n}) \cup {Refresh(n)}
        PROVE  /\ NodesKept /\ n \in nodes /\ n.id = req[h].id
               /\ \A m \in nodes' : \E o \in nodes : m.id = o.id /\ m.vip = o.vip
    BY <2>1, <2>3, RefreshKeeps DEF IInv, WithId
  <2>4. ASSUME NEW n \in WithId(req[h].id), nodes' = (nodes \ {n}) \cup {Refresh(n)},
               PersistFails, UNCHANGED acked
        PROVE  AckInv'
    BY <2>1, <2>3, <2>4, AckQuiet DEF PersistFails
  <2>5. ASSUME NEW n \in WithId(req[h].id), nodes' = (nodes \ {n}) \cup {Refresh(n)},
               Persist, Answer(n.key, n.id, req[h].vip, Refresh(n).status)
        PROVE  AckInv'
    <3>1. n.vip = req[h].vip
      BY <2>1, <2>3, <2>5 DEF AckInv, CopiesTrue
    <3>2. disk'.nodes = nodes'
      BY <2>5, PersistFile
    <3>3. AddedKept'
      <4>1. ASSUME NEW g \in Handlers, pc'[g] = "added" PROVE KeptBoth(req[g])'
        <5>1. pc[g] = "added" /\ req'[g] = req[g]
          BY <2>1, <4>1
        <5>2. PICK x : x = req[g]
          OBVIOUS
        <5>3. KeptBoth(x)'
          BY <2>3, <2>5, <3>2, <5>1, <5>2, AnswersStay
        <5> QED
          BY <5>1, <5>2, <5>3 DEF KeptBoth
      <4> QED
        BY <4>1 DEF AddedKept
    <3>4. AnswersKept'
      <4>1. ASSUME NEW x \in acked PROVE KeptBoth(x)'
        BY <2>3, <2>5, <3>2, AnswersStay
      <4>2. Refresh(n).id = n.id /\ Refresh(n).key = n.key /\ Refresh(n).vip = n.vip
        BY <2>3, <2>5, RefreshSame DEF IInv, TypeOK
      <4>3. Refresh(n) \in nodes'
        BY <2>5
      <4>4. ASSUME NEW x, x.id = n.id, x.key = n.key, x.vip = n.vip PROVE KeptBoth(x)'
        BY <3>2, <4>2, <4>3, <4>4 DEF KeptBoth, Kept
      <4> QED
        BY <2>5, <3>1, <4>1, <4>4 DEF AnswersKept, Answer
    <3>5. CopiesTrue'
      BY <2>1, <2>3, <2>5 DEF AckInv, CopiesTrue
    <3> QED
      BY <3>3, <3>4, <3>5 DEF AckInv
  <2> QED
    BY <1>3, <2>2, <2>4, <2>5 DEF RegUpdate
<1>4. CASE RegAllocate(h)
  <2>1. UNCHANGED <<nodes, disk, acked, removed>> /\ lastId' = lastId + 1 /\ lastId \in Nat
    BY <1>4, RegistryAssumption DEF RegAllocate, IInv, TypeOK
  <2>2. /\ \A g \in Handlers : g # h => pc'[g] = pc[g] /\ req'[g] = req[g]
        /\ pc'[h] \in {"idle", "allocated"}
        /\ pc'[h] = "allocated" => req'[h].id = lastId + 1
    BY <1>4 DEF RegAllocate, Finish, IInv, TypeOK, Request
  <2>3. AnswersKept' /\ AddedKept'
    BY <2>1, <2>2 DEF AckInv, AnswersKept, AddedKept, KeptBoth, Kept
  <2>4. \A g \in Handlers : pc[g] = "known" => req[g].id \in Nat
    BY DEF IInv, ReqOK, Identified, Ids
  <2>5. CopiesTrue'
    BY <2>1, <2>2, <2>4 DEF AckInv, CopiesTrue
  <2> QED
    BY <2>3, <2>5 DEF AckInv
<1>5. CASE RegAdd(h)
  <2> DEFINE r == req[h]
             new == [id |-> r.id, key |-> r.key, vip |-> r.vip,
                     status |-> InitialStatus, lastSeen |-> now]
  <2>1. /\ nodes' = nodes \cup {new} /\ pc[h] = "allocated"
        /\ UNCHANGED <<lastId, removed>>
    BY <1>5 DEF RegAdd
  <2>2. new.id = r.id /\ new.key = r.key /\ new.vip = r.vip /\ new \in nodes'
    BY <2>1
  <2> HIDE DEF new
  <2>3. NodesKept
    BY <2>1 DEF NodesKept
  <2>4. disk' = disk \/ disk'.nodes = nodes'
    BY <1>5, SaveNodes DEF RegAdd, Save
  <2>5. /\ \A g \in Handlers : g # h => pc'[g] = pc[g] /\ req'[g] = req[g]
        /\ pc'[h] \in {"idle", "added"}
        /\ pc'[h] = "added" => req'[h] = r /\ disk'.nodes = nodes' /\ acked' = acked
        /\ acked' # acked => disk'.nodes = nodes'
        /\ \A x \in acked' : x \in acked \/ (x.id = r.id /\ x.key = r.key /\ x.vip = r.vip)
    <3>1. CASE Persist /\ pc' = [pc EXCEPT ![h] = "added"] /\ UNCHANGED <<req, acked>>
      <4>1. /\ pc'[h] = "added" /\ req'[h] = req[h]
            /\ \A g \in Handlers : g # h => pc'[g] = pc[g] /\ req'[g] = req[g]
        BY <3>1 DEF IInv, TypeOK
      <4>2. disk'.nodes = nodes' /\ acked' = acked
        BY <3>1, PersistFile
      <4> QED
        BY <4>1, <4>2
    <3>2. CASE Persist /\ Answer(r.key, r.id, r.vip, InitialStatus) /\ Finish(h)
      <4>1. disk'.nodes = nodes'
        BY <3>2, PersistFile
      <4>2. \A x \in acked' : x \in acked \/ (x.id = r.id /\ x.key = r.key /\ x.vip = r.vip)
        BY <3>2, AnswerAdds
      <4>3. pc'[h] = "idle" /\ \A g \in Handlers : g # h => pc'[g] = pc[g] /\ req'[g] = req[g]
        BY <3>2, FinishType DEF IInv
      <4> QED
        BY <4>1, <4>2, <4>3
    <3>3. CASE PersistFails /\ Finish(h) /\ UNCHANGED acked
      BY <3>3, FinishType DEF IInv
    <3> QED
      BY <1>5, <3>1, <3>2, <3>3 DEF RegAdd
  <2>6. ASSUME NEW x, x.id = r.id, x.key = r.key, x.vip = r.vip, disk'.nodes = nodes'
        PROVE  KeptBoth(x)'
    BY <2>2, <2>6 DEF KeptBoth, Kept
  <2>7. AnswersKept'
    <3>1. ASSUME NEW x \in acked PROVE KeptBoth(x)'
      BY <2>3, <2>4, AnswersStay
    <3> QED
      BY <2>5, <2>6, <3>1 DEF AnswersKept
  <2>8. AddedKept'
    <3>1. ASSUME NEW g \in Handlers, pc'[g] = "added" PROVE KeptBoth(req[g])'
      <4>1. PICK x : x = req'[g]
        OBVIOUS
      <4>2. CASE g = h
        BY <2>5, <2>6, <3>1, <4>1, <4>2 DEF KeptBoth
      <4>3. CASE g # h
        <5>1. pc[g] = "added" /\ x = req[g]
          BY <2>5, <3>1, <4>1, <4>3
        <5>2. KeptBoth(x)'
          BY <2>3, <2>4, <5>1, AnswersStay
        <5> QED
          BY <4>1, <5>2 DEF KeptBoth
      <4> QED
        BY <4>2, <4>3
    <3> QED
      BY <3>1 DEF AddedKept
  <2>9. CopiesTrue'
    BY <2>1, <2>2, <2>5 DEF AckInv, CopiesTrue
  <2> QED
    BY <2>7, <2>8, <2>9 DEF AckInv
<1>6. CASE RegMark(h)
  <2>1. /\ UNCHANGED <<nodes, lastId, removed>> /\ pc[h] = "added"
        /\ disk' = disk \/ disk'.nodes = nodes'
    BY <1>6, SaveNodes DEF RegMark
  <2>2. NodesKept
    BY <2>1 DEF NodesKept
  <2>3. /\ \A g \in Handlers : g # h => pc'[g] = pc[g] /\ req'[g] = req[g]
        /\ pc'[h] = "idle"
        /\ \A x \in acked' : \/ x \in acked
                             \/ x.id = req[h].id /\ x.key = req[h].key /\ x.vip = req[h].vip
    BY <1>6 DEF RegMark, Finish, Answer, IInv, TypeOK
  <2>4. AnswersKept'
    <3>1. ASSUME NEW x \in acked PROVE KeptBoth(x)'
      BY <2>1, <2>2, AnswersStay
    <3>2. PICK y : y = req[h]
      OBVIOUS
    <3>3. KeptBoth(y)'
      BY <2>1, <2>2, <3>2, AnswersStay
    <3>4. ASSUME NEW x, x.id = y.id, x.key = y.key, x.vip = y.vip PROVE KeptBoth(x)'
      BY <3>3, <3>4 DEF KeptBoth
    <3> QED
      BY <2>3, <3>1, <3>2, <3>4 DEF AnswersKept
  <2>5. AddedKept'
    <3>1. ASSUME NEW g \in Handlers, pc'[g] = "added" PROVE KeptBoth(req[g])'
      <4>1. PICK x : x = req[g]
        OBVIOUS
      <4>2. pc[g] = "added" /\ req'[g] = req[g]
        BY <2>3, <3>1
      <4>3. KeptBoth(x)'
        BY <2>1, <2>2, <4>1, <4>2, AnswersStay
      <4> QED
        BY <4>1, <4>2, <4>3 DEF KeptBoth
    <3> QED
      BY <3>1 DEF AddedKept
  <2>6. CopiesTrue'
    BY <2>1, <2>3 DEF AckInv, CopiesTrue
  <2> QED
    BY <2>4, <2>5, <2>6 DEF AckInv
<1> QED
  BY <1>1, <1>2, <1>3, <1>4, <1>5, <1>6

\* The other requests, the admin, the clock, the collector and a restart.
LEMMA AckOthers ==
    ASSUME IInv, IInv', AckInv,
           \/ \E k \in PubKeys : TouchVerify(k) \/ TouchUpdate(k)
           \/ \E n \in nodes : Approve(n) \/ DeleteNode(n)
           \/ \E a \in AuthKeys : AddAuthKey(a) \/ DeleteAuthKey(a) \/ Lapse(a)
           \/ Tick \/ RunGC \/ Crash
    PROVE  AckInv'
<1> USE DEF store, handlers, world, history
<1>0. \A n \in nodes : n \in NodeRecords
  BY DEF IInv, TypeOK
<1>1. ASSUME UNCHANGED <<nodes, removed, lastId, acked, handlers>>,
             disk' = disk \/ disk'.nodes = nodes'
      PROVE  AckInv'
  <2>1. NodesKept /\ \A m \in nodes' : \E n \in nodes : m.id = n.id /\ m.vip = n.vip
    BY <1>1 DEF NodesKept
  <2> QED
    BY <1>1, <2>1, AckQuiet
<1>2. ASSUME NEW k \in PubKeys, TouchVerify(k) PROVE AckInv'
  BY <1>1, <1>2 DEF TouchVerify
<1>3. ASSUME NEW k \in PubKeys, TouchUpdate(k) PROVE AckInv'
  <2>1. CASE UNCHANGED <<store, disk, fails>>
    BY <1>1, <1>3, <2>1 DEF TouchUpdate
  <2>2. ASSUME NEW n \in Registered(k), nodes' = (nodes \ {n}) \cup {Refresh(n)}, Save
        PROVE  AckInv'
    <3>1. n \in nodes /\ UNCHANGED <<removed, lastId, acked, handlers>>
      BY <1>3, <2>2 DEF TouchUpdate, Registered
    <3>2. NodesKept /\ \A m \in nodes' : \E o \in nodes : m.id = o.id /\ m.vip = o.vip
      BY <2>2, <3>1, RefreshKeeps DEF IInv
    <3> QED
      BY <2>2, <3>1, <3>2, SaveNodes, AckQuiet
  <2> QED
    BY <1>3, <2>1, <2>2 DEF TouchUpdate
<1>4. ASSUME NEW n \in nodes, Approve(n) PROVE AckInv'
  <2>1. PICK m : m = [n EXCEPT !.status = "active"]
    OBVIOUS
  <2>2. m.id = n.id /\ m.key = n.key /\ m.vip = n.vip
    BY <1>0, <2>1 DEF NodeRecords
  <2>3. /\ nodes' = (nodes \ {n}) \cup {m} /\ UNCHANGED <<removed, lastId, acked, handlers>>
        /\ disk' = disk \/ disk'.nodes = nodes'
    BY <1>4, <2>1, SaveNodes DEF Approve
  <2>4. NodesKept /\ \A o \in nodes' : \E p \in nodes : o.id = p.id /\ o.vip = p.vip
    BY <2>2, <2>3 DEF NodesKept
  <2> QED
    BY <2>3, <2>4, AckQuiet
<1>5. ASSUME NEW n \in nodes, DeleteNode(n) PROVE AckInv'
  <2>1. NodesKept /\ \A o \in nodes' : \E p \in nodes : o.id = p.id /\ o.vip = p.vip
    BY <1>5 DEF DeleteNode, NodesKept
  <2> QED
    BY <1>5, <2>1, SaveNodes, AckQuiet DEF DeleteNode
<1>6. ASSUME NEW a \in AuthKeys, AddAuthKey(a) \/ DeleteAuthKey(a) \/ Lapse(a) PROVE AckInv'
  BY <1>1, <1>6, SaveNodes DEF AddAuthKey, DeleteAuthKey, Lapse
<1>7. CASE Tick
  BY <1>1, <1>7 DEF Tick
<1>8. CASE RunGC
  <2>1. /\ nodes' = {Marked(n) : n \in {m \in nodes : ~ Dropped(m)}}
        /\ removed' = removed \cup {n.id : n \in {m \in nodes : Dropped(m)}}
        /\ Save /\ UNCHANGED <<lastId, acked, handlers>>
    BY <1>8 DEF RunGC
  <2>2. \A n \in nodes : Marked(n).id = n.id /\ Marked(n).key = n.key /\ Marked(n).vip = n.vip
    BY <1>0 DEF Marked, NodeRecords
  <2>3. \A o \in nodes' : \E p \in nodes : o.id = p.id /\ o.vip = p.vip
    BY <2>1, <2>2
  <2>4. NodesKept
    <3>1. ASSUME NEW n \in nodes, Dropped(n) PROVE n.id \in removed'
      BY <2>1, <3>1
    <3>2. ASSUME NEW n \in nodes, ~ Dropped(n)
          PROVE  \E m \in nodes' : m.id = n.id /\ m.key = n.key /\ m.vip = n.vip
      <4>1. Marked(n) \in nodes'
        BY <2>1, <3>2
      <4> QED
        BY <2>2, <4>1
    <3> QED
      BY <2>1, <3>1, <3>2 DEF NodesKept
  <2> QED
    BY <2>1, <2>3, <2>4, SaveNodes, AckQuiet
<1>9. CASE Crash
  <2>1. /\ nodes' = disk.nodes /\ UNCHANGED <<disk, acked, removed>>
        /\ \A h \in Handlers : pc'[h] = "idle"
    BY <1>9 DEF Crash
  <2> QED
    BY <2>1 DEF AckInv, AnswersKept, AddedKept, CopiesTrue, KeptBoth, Kept
<1> QED
  BY <1>2, <1>3, <1>4, <1>5, <1>6, <1>7, <1>8, <1>9

\* Every step keeps the answers true.
LEMMA AckStep == IInv /\ IInv' /\ AckInv /\ [Next]_vars => AckInv'
<1> SUFFICES ASSUME IInv, IInv', AckInv, [Next]_vars PROVE AckInv'
  OBVIOUS
<1>1. CASE UNCHANGED vars
  BY <1>1 DEF vars, store, handlers, history, AckInv, AnswersKept, AddedKept, CopiesTrue,
              KeptBoth, Kept
<1> QED
  BY <1>1, AckRegister, AckOthers DEF Next

\* A registration that was answered is in the file, with the address it was
\* given, until the node is deleted or collected: no crash can lose it.
THEOREM AckDurableCorrect == Spec => []AckDurable
<1>1. Init => IInv /\ AckInv
  BY TypeInit, SoundInit DEF IInv, Init, AckInv, AnswersKept, AddedKept, CopiesTrue
<1>2. IInv /\ [Next]_vars => IInv'
  BY TypeStep, SoundStep DEF IInv
<1>3. AckInv => AckDurable
  BY DEF AckInv, AnswersKept, KeptBoth, Kept, AckDurable
<1> QED
  BY <1>1, <1>2, <1>3, AckStep, PTL DEF Spec

-----------------------------------------------------------------------------
(* One node per public key, when a node waits for its answer. *)

KeysUnique(ns) == \A m, n \in ns : m.key = n.key => m = n

OneEach == \A g, h \in Handlers : Busy(g) /\ Busy(h) /\ req[g].key = req[h].key => g = h

\* A handler that found no node with its key is still right.
Unlisted ==
    \A h \in Handlers : pc[h] \in {"new", "allocated"} => \A n \in nodes : n.key # req[h].key

KeyInv == KeysUnique(nodes) /\ KeysUnique(disk.nodes) /\ OneEach /\ Unlisted

\* A step that adds no key, starts no request and finds nothing.
LEMMA KeysKept ==
    ASSUME KeyInv, disk' = disk \/ disk'.nodes = nodes', KeysUnique(nodes)',
           \A m \in nodes' : \E n \in nodes : m.key = n.key,
           \A h \in Handlers : pc'[h] # "idle" =>
               /\ Busy(h) /\ req'[h].key = req[h].key
               /\ pc'[h] \in {"new", "allocated"} => pc[h] \in {"new", "allocated"}
    PROVE  KeyInv'
<1>1. KeysUnique(disk.nodes)'
  BY DEF KeyInv, KeysUnique
<1>2. OneEach'
  BY DEF KeyInv, OneEach, Busy
<1>3. Unlisted'
  BY DEF KeyInv, Unlisted
<1> QED
  BY <1>1, <1>2, <1>3 DEF KeyInv

\* A refreshed node has the key it had.
LEMMA KeysRefreshed ==
    ASSUME TypeOK, KeyInv, NEW n \in nodes, nodes' = (nodes \ {n}) \cup {Refresh(n)}
    PROVE  KeysUnique(nodes)' /\ \A m \in nodes' : \E o \in nodes : m.key = o.key
<1>1. n \in NodeRecords
  BY DEF TypeOK
<1>2. Refresh(n).key = n.key
  BY <1>1 DEF Refresh, NodeRecords
<1> QED
  BY <1>2 DEF KeyInv, KeysUnique

\* What ending a request leaves of the others.
LEMMA FinishKeys ==
    ASSUME TypeOK, NEW h \in Handlers, Finish(h)
    PROVE  \A g \in Handlers : pc'[g] # "idle" =>
               /\ Busy(g) /\ req'[g].key = req[g].key
               /\ pc'[g] \in {"new", "allocated"} => pc[g] \in {"new", "allocated"}
BY DEF TypeOK, Finish, Busy

\* The key of a request.
LEMMA RequestKey ==
    ASSUME NEW k, NEW a, NEW id, NEW vip
    PROVE  Request(k, a, id, vip).key = k
BY DEF Request

\* handleRegister.
LEMMA KeyRegister ==
    ASSUME TypeOK, KeyInv, ~ Retrying \/ OneEach', NEW h \in Handlers,
           \/ \E k \in PubKeys, a \in AuthKeys : RegStart(h, k, a)
           \/ RegLookup(h) \/ RegUpdate(h) \/ RegAllocate(h) \/ RegAdd(h) \/ RegMark(h)
    PROVE  KeyInv'
<1> USE DEF store, handlers, world, history
<1>1. ASSUME NEW k \in PubKeys, NEW a \in AuthKeys, RegStart(h, k, a) PROVE KeyInv'
  <2>1. PICK r : r = Request(k, a, 0, 0)
    OBVIOUS
  <2>2. r.key = k /\ pc' = [pc EXCEPT ![h] = "valid"] /\ req' = [req EXCEPT ![h] = r]
    BY <1>1, <2>1, RequestKey DEF RegStart
  <2>3. \A g \in Handlers : IF g = h THEN pc'[g] = "valid" /\ req'[g] = r
                                     ELSE pc'[g] = pc[g] /\ req'[g] = req[g]
    BY <2>2 DEF TypeOK
  <2>4. ~ Retrying => \A g \in Handlers : Busy(g) => req[g].key # k
    BY <1>1 DEF RegStart, Busy
  <2>5. UNCHANGED <<nodes, disk>>
    BY <1>1 DEF RegStart
  <2>6. OneEach'
    BY <2>2, <2>3, <2>4 DEF KeyInv, OneEach, Busy
  <2>7. Unlisted'
    BY <2>3, <2>5 DEF KeyInv, Unlisted
  <2> QED
    BY <2>5, <2>6, <2>7 DEF KeyInv, KeysUnique
<1>2. CASE RegLookup(h)
  <2>1. PICK k : k = req[h].key
    OBVIOUS
  <2>2. UNCHANGED <<nodes, disk>> /\ Busy(h) /\ pc' = [pc EXCEPT ![h] = pc'[h]]
        /\ pc'[h] \in {"new", "known"}
    BY <1>2 DEF RegLookup, Busy, TypeOK
  <2>3. \A g \in Handlers : req'[g].key = req[g].key /\ (g # h => pc'[g] = pc[g])
    <3>1. CASE UNCHANGED req
      BY <2>2, <3>1 DEF TypeOK
    <3>2. ASSUME NEW n, req' = [req EXCEPT ![h] = Request(@.key, @.auth, n.id, n.vip)]
          PROVE  \A g \in Handlers : req'[g].key = req[g].key /\ (g # h => pc'[g] = pc[g])
      <4>1. req'[h].key = req[h].key
        BY <3>2, RequestKey DEF TypeOK
      <4> QED
        BY <2>2, <3>2, <4>1 DEF TypeOK
    <3> QED
      BY <1>2, <3>1, <3>2 DEF RegLookup
  <2>4. pc'[h] = "new" => \A n \in nodes : n.key # req[h].key
    BY <1>2 DEF RegLookup, Registered, TypeOK
  <2>5. OneEach'
    BY <2>2, <2>3 DEF KeyInv, OneEach, Busy
  <2>6. Unlisted'
    BY <2>2, <2>3, <2>4 DEF KeyInv, Unlisted
  <2> QED
    BY <2>2, <2>5, <2>6 DEF KeyInv, KeysUnique
<1>3. CASE RegUpdate(h)
  <2>1. CASE UNCHANGED <<store, disk, fails, acked>>
    BY <1>3, <2>1, FinishKeys, KeysKept DEF RegUpdate, KeyInv, KeysUnique
  <2>2. ASSUME NEW n \in WithId(req[h].id), nodes' = (nodes \ {n}) \cup {Refresh(n)}, Save
        PROVE  KeyInv'
    <3>1. n \in nodes
      BY DEF WithId
    <3> QED
      BY <1>3, <2>2, <3>1, KeysRefreshed, FinishKeys, SaveNodes, KeysKept DEF RegUpdate
  <2> QED
    BY <1>3, <2>1, <2>2 DEF RegUpdate, Save
<1>4. CASE RegAllocate(h)
  <2>1. UNCHANGED <<nodes, disk>> /\ pc[h] = "new"
    BY <1>4 DEF RegAllocate
  <2>2. CASE Finish(h)
    BY <2>1, <2>2, FinishKeys, KeysKept DEF KeyInv, KeysUnique
  <2>3. ASSUME NEW a \in Free, pc' = [pc EXCEPT ![h] = "allocated"],
               req' = [req EXCEPT ![h] = Request(@.key, @.auth, lastId + 1, a)]
        PROVE  KeyInv'
    <3>1. req'[h].key = req[h].key
      BY <2>3, RequestKey DEF TypeOK
    <3>2. \A g \in Handlers : pc'[g] # "idle" =>
               /\ Busy(g) /\ req'[g].key = req[g].key
               /\ pc'[g] \in {"new", "allocated"} => pc[g] \in {"new", "allocated"}
      BY <2>1, <2>3, <3>1 DEF TypeOK, Busy
    <3> QED
      BY <2>1, <3>2, KeysKept DEF KeyInv, KeysUnique
  <2> QED
    BY <1>4, <2>2, <2>3 DEF RegAllocate
<1>5. CASE RegAdd(h)
  <2>1. PICK n0 : n0 = [id |-> req[h].id, key |-> req[h].key, vip |-> req[h].vip,
                        status |-> InitialStatus, lastSeen |-> now]
    OBVIOUS
  <2>2. /\ n0.key = req[h].key /\ nodes' = nodes \cup {n0} /\ pc[h] = "allocated"
        /\ disk' = disk \/ disk'.nodes = nodes'
        /\ Finish(h) \/ (pc' = [pc EXCEPT ![h] = "added"] /\ UNCHANGED req)
    BY <1>5, <2>1, SaveNodes DEF RegAdd, Save
  <2>3. \A n \in nodes : n.key # n0.key
    BY <2>2 DEF KeyInv, Unlisted
  <2>4. \A g \in Handlers : /\ pc'[g] \in {"new", "allocated"} => g # h
                            /\ pc'[g] # "idle" => Busy(g) /\ req'[g].key = req[g].key
                            /\ g # h => pc'[g] = pc[g]
    BY <2>2 DEF TypeOK, Finish, Busy
  <2>5. OneEach'
    BY <2>4 DEF KeyInv, OneEach, Busy
  <2>6. Unlisted'
    <3>1. Busy(h)
      BY <2>2 DEF Busy
    <3>2. \A g \in Handlers : g # h /\ Busy(g) => req[g].key # req[h].key
      BY <3>1 DEF KeyInv, OneEach
    <3> QED
      BY <2>2, <2>4, <3>2 DEF KeyInv, Unlisted
  <2>7. KeysUnique(nodes)' /\ KeysUnique(disk.nodes)'
    BY <2>2, <2>3 DEF KeyInv, KeysUnique
  <2> QED
    BY <2>5, <2>6, <2>7 DEF KeyInv
<1>6. CASE RegMark(h)
  <2>1. UNCHANGED nodes /\ (disk' = disk \/ disk'.nodes = nodes') /\ Finish(h)
    BY <1>6, SaveNodes DEF RegMark
  <2> QED
    BY <2>1, FinishKeys, KeysKept DEF KeyInv, KeysUnique
<1> QED
  BY <1>1, <1>2, <1>3, <1>4, <1>5, <1>6

\* Touches, the admin, the collector and a crash.
LEMMA KeyOthers ==
    ASSUME TypeOK, KeyInv,
           \/ \E k \in PubKeys : TouchVerify(k) \/ TouchUpdate(k)
           \/ \E n \in nodes : Approve(n) \/ DeleteNode(n)
           \/ \E a \in AuthKeys : AddAuthKey(a) \/ DeleteAuthKey(a) \/ Lapse(a)
           \/ Tick \/ RunGC \/ Crash
    PROVE  KeyInv'
<1> USE DEF store, handlers, world, history
<1>0. \A n \in nodes : n \in NodeRecords
  BY DEF TypeOK
<1>1. ASSUME UNCHANGED handlers, disk' = disk \/ disk'.nodes = nodes', KeysUnique(nodes)',
             \A m \in nodes' : \E n \in nodes : m.key = n.key
      PROVE  KeyInv'
  BY <1>1, KeysKept DEF Busy
<1>2. ASSUME UNCHANGED <<nodes, handlers>>, disk' = disk \/ disk'.nodes = nodes' PROVE KeyInv'
  BY <1>1, <1>2 DEF KeyInv, KeysUnique
<1>3. ASSUME NEW k \in PubKeys, TouchVerify(k) PROVE KeyInv'
  BY <1>2, <1>3 DEF TouchVerify
<1>4. ASSUME NEW k \in PubKeys, TouchUpdate(k) PROVE KeyInv'
  <2>1. CASE UNCHANGED <<store, disk, fails>>
    BY <1>2, <1>4, <2>1 DEF TouchUpdate
  <2>2. ASSUME NEW n \in Registered(k), nodes' = (nodes \ {n}) \cup {Refresh(n)}, Save
        PROVE  KeyInv'
    <3>1. n \in nodes
      BY DEF Registered
    <3> QED
      BY <1>1, <1>4, <2>2, <3>1, KeysRefreshed, SaveNodes DEF TouchUpdate
  <2> QED
    BY <1>4, <2>1, <2>2 DEF TouchUpdate
<1>5. ASSUME NEW n \in nodes, Approve(n) PROVE KeyInv'
  <2>1. PICK m : m = [n EXCEPT !.status = "active"]
    OBVIOUS
  <2>2. m.key = n.key
    BY <1>0, <2>1 DEF NodeRecords
  <2>3. nodes' = (nodes \ {n}) \cup {m}
    BY <1>5, <2>1 DEF Approve
  <2>4. KeysUnique(nodes)' /\ \A q \in nodes' : \E o \in nodes : q.key = o.key
    BY <2>2, <2>3 DEF KeyInv, KeysUnique
  <2> QED
    BY <1>1, <1>5, <2>4, SaveNodes DEF Approve
<1>6. ASSUME NEW n \in nodes, DeleteNode(n) PROVE KeyInv'
  <2>1. nodes' \subseteq nodes
    BY <1>6 DEF DeleteNode
  <2>2. KeysUnique(nodes)'
    BY <2>1 DEF KeyInv, KeysUnique
  <2> QED
    BY <1>1, <1>6, <2>1, <2>2, SaveNodes DEF DeleteNode
<1>7. ASSUME NEW a \in AuthKeys, AddAuthKey(a) \/ DeleteAuthKey(a) \/ Lapse(a) PROVE KeyInv'
  BY <1>2, <1>7, SaveNodes DEF AddAuthKey, DeleteAuthKey, Lapse
<1>8. CASE Tick
  BY <1>2, <1>8 DEF Tick
<1>9. CASE RunGC
  <2>1. \A n \in nodes : Marked(n).key = n.key
    BY <1>0 DEF Marked, NodeRecords
  <2>2. \A m \in nodes' : \E n \in nodes : m = Marked(n)
    BY <1>9 DEF RunGC
  <2>3. KeysUnique(nodes)' /\ \A m \in nodes' : \E n \in nodes : m.key = n.key
    BY <2>1, <2>2 DEF KeyInv, KeysUnique
  <2> QED
    BY <1>1, <1>9, <2>3, SaveNodes DEF RunGC
<1>10. CASE Crash
  <2>1. nodes' = disk.nodes /\ UNCHANGED disk /\ \A h \in Handlers : pc'[h] = "idle"
    BY <1>10 DEF Crash
  <2> QED
    BY <2>1 DEF KeyInv, KeysUnique, OneEach, Unlisted, Busy
<1> QED
  BY <1>3, <1>4, <1>5, <1>6, <1>7, <1>8, <1>9, <1>10

\* Every step keeps one node per key, as long as requests of one do not overlap.
LEMMA KeyStep == IInv /\ KeyInv /\ [Next]_vars /\ (~ Retrying \/ OneEach') => KeyInv'
<1>1. IInv /\ KeyInv /\ UNCHANGED vars => KeyInv'
  BY DEF vars, store, handlers, KeyInv, KeysUnique, OneEach, Unlisted, Busy
<1> QED
  BY <1>1, KeyRegister, KeyOthers DEF Next, IInv

LEMMA KeyInit == Init => IInv /\ AckInv /\ KeyInv
BY TypeInit, SoundInit DEF IInv, Init, AckInv, AnswersKept, AddedKept, CopiesTrue,
   KeyInv, KeysUnique, OneEach, Unlisted, Busy

LEMMA KeyImplies == AckInv /\ KeyInv => VIPStable
BY DEF AckInv, AnswersKept, KeyInv, KeysUnique, KeptBoth, Kept, VIPStable

\* When nodes wait for the answer before they register again, every answer that
\* a node gets names one address, whatever is written, lost in a crash, deleted
\* or collected in between: what was answered is listed, under one key only.
THEOREM VIPStableCorrect == ~ Retrying => (Spec => []VIPStable)
<1> SUFFICES ASSUME ~ Retrying PROVE Spec => []VIPStable
  OBVIOUS
<1>1. IInv /\ [Next]_vars => IInv'
  BY TypeStep, SoundStep DEF IInv
<1>2. IInv /\ KeyInv /\ [Next]_vars => KeyInv'
  BY KeyStep
<1> QED
  BY <1>1, <1>2, KeyInit, KeyImplies, AckStep, PTL DEF Spec

-----------------------------------------------------------------------------
(* What an id stands for. *)

\* All that memory and file list.
Entries == nodes \cup disk.nodes

SameNode(m, n) == m.id = n.id /\ m.key = n.key /\ m.vip = n.vip

\* No step gives an id to another key or moves it to another address.
Fixed == \A m \in Entries : \A n \in Entries' : m.id = n.id => SameNode(m, n)

\* Memory and file agree on what an id stands for, and a claimed id is in neither.
BindInv ==
    /\ \A m, n \in Entries : m.id = n.id => SameNode(m, n)
    /\ \A h \in Handlers : pc[h] = "allocated" => \A n \in Entries : n.id # req[h].id

\* Whatever is listed after the step was listed before.
Inherited == \A n \in Entries' : \E m \in Entries : SameNode(m, n)

\* The write of the file, or its failure, adds nothing to what memory has.
LEMMA InheritNodes ==
    ASSUME \A n \in nodes' : \E m \in Entries : SameNode(m, n),
           disk' = disk \/ disk'.nodes = nodes'
    PROVE  Inherited
BY DEF Inherited, Entries, SameNode

\* A step that lists nothing new and claims no id.
LEMMA BindKept ==
    ASSUME BindInv, Inherited,
           \A h \in Handlers : pc'[h] = "allocated" => pc[h] = "allocated" /\ req'[h] = req[h]
    PROVE  BindInv' /\ Fixed
BY DEF BindInv, Inherited, Fixed, SameNode

\* One that leaves the lists as they are.
LEMMA BindSame ==
    ASSUME BindInv, UNCHANGED nodes, disk' = disk \/ disk'.nodes = nodes',
           \A h \in Handlers : pc'[h] = "allocated" => pc[h] = "allocated" /\ req'[h] = req[h]
    PROVE  BindInv' /\ Fixed
<1>1. \A n \in nodes' : \E m \in Entries : SameNode(m, n)
  BY DEF Entries, SameNode
<1> QED
  BY <1>1, InheritNodes, BindKept

\* One that rewrites a node without touching its id, key and address.
LEMMA BindRewrite ==
    ASSUME BindInv, NEW n \in nodes, NEW r, SameNode(n, r),
           nodes' = (nodes \ {n}) \cup {r}, disk' = disk \/ disk'.nodes = nodes',
           \A h \in Handlers : pc'[h] = "allocated" => pc[h] = "allocated" /\ req'[h] = req[h]
    PROVE  BindInv' /\ Fixed
<1>1. \A k \in nodes' : \E m \in Entries : SameNode(m, k)
  BY DEF Entries, SameNode
<1> QED
  BY <1>1, InheritNodes, BindKept

\* All ids that are listed have been given.
LEMMA EntriesGiven ==
    ASSUME IInv, NEW n \in Entries
    PROVE  n.id <= lastId
<1>1. CASE n \in nodes
  <2>1. n.vip \in IPs
    BY <1>1 DEF IInv, TypeOK, NodeRecords
  <2> QED
    BY <1>1, <2>1 DEF IInv, Sound, PoolSound
<1>2. CASE n \in disk.nodes
  BY <1>2 DEF IInv, Sound, FileSound, IdsGiven
<1> QED
  BY <1>1, <1>2 DEF Entries

\* The id claimed is the next one, which nothing listed has.
LEMMA BindAllocate ==
    ASSUME IInv, BindInv, NEW h \in Handlers, RegAllocate(h)
    PROVE  BindInv' /\ Fixed
<1>1. UNCHANGED <<nodes, disk>> /\ Entries' = Entries
  BY DEF RegAllocate, store, Entries
<1>2. lastId \in Nat /\ \A n \in Entries : n.id \in Nat
  BY RegistryAssumption DEF IInv, TypeOK, Entries, Files, NodeRecords, Ids
<1>3. \A g \in Handlers : pc'[g] = "allocated" =>
          (pc[g] = "allocated" /\ req'[g] = req[g]) \/ req'[g].id = lastId + 1
  <2>1. CASE Finish(h)
    BY <2>1, FinishClaims DEF IInv
  <2>2. CASE \E a \in Free : /\ pc' = [pc EXCEPT ![h] = "allocated"]
                             /\ req' = [req EXCEPT ![h] = Request(@.key, @.auth, lastId + 1, a)]
    BY <2>2 DEF IInv, TypeOK, Request
  <2> QED
    BY <2>1, <2>2 DEF RegAllocate
<1>4. \A n \in Entries : n.id # lastId + 1
  BY <1>2, EntriesGiven
<1>5. \A g \in Handlers : pc'[g] = "allocated" => \A n \in Entries' : n.id # req'[g].id
  BY <1>1, <1>3, <1>4 DEF BindInv
<1> QED
  BY <1>1, <1>5 DEF BindInv, Fixed

\* A node is added under the id that its handler alone has claimed.
LEMMA BindAdd ==
    ASSUME IInv, BindInv, NEW h \in Handlers, RegAdd(h)
    PROVE  BindInv' /\ Fixed
<1>1. PICK new : new = [id |-> req[h].id, key |-> req[h].key, vip |-> req[h].vip,
                        status |-> InitialStatus, lastSeen |-> now]
  OBVIOUS
<1>2. nodes' = nodes \cup {new} /\ pc[h] = "allocated" /\ new.id = req[h].id
  BY <1>1 DEF RegAdd
<1>3. disk' = disk \/ disk'.nodes = nodes'
  BY SaveNodes DEF RegAdd, Save
<1>4. \A n \in Entries' : n \in Entries \/ n = new
  BY <1>2, <1>3 DEF Entries
<1>5. \A n \in Entries : n.id # new.id
  BY <1>2 DEF BindInv
<1>6. \A g \in Handlers : pc'[g] = "allocated" => g # h /\ pc[g] = "allocated" /\ req'[g] = req[g]
  BY <1>2 DEF RegAdd, Finish, IInv, TypeOK
<1>7. \A g \in Handlers : pc'[g] = "allocated" => req'[g].id # new.id
  BY <1>2, <1>6 DEF IInv, Sound, ClaimsSound
<1>8. \A m, n \in Entries' : m.id = n.id => SameNode(m, n)
  BY <1>4, <1>5 DEF BindInv, SameNode
<1>9. \A g \in Handlers : pc'[g] = "allocated" => \A n \in Entries' : n.id # req'[g].id
  BY <1>4, <1>6, <1>7 DEF BindInv
<1>10. Fixed
  BY <1>4, <1>5 DEF BindInv, Fixed, SameNode
<1> QED
  BY <1>8, <1>9, <1>10 DEF BindInv

\* The other steps of handleRegister.
LEMMA BindRegister ==
    ASSUME IInv, BindInv, NEW h \in Handlers,
           \/ \E k \in PubKeys, a \in AuthKeys : RegStart(h, k, a)
           \/ RegLookup(h) \/ RegUpdate(h) \/ RegMark(h)
    PROVE  BindInv' /\ Fixed
<1>1. CASE (\E k \in PubKeys, a \in AuthKeys : RegStart(h, k, a)) \/ RegLookup(h)
  <2>1. UNCHANGED <<nodes, disk>>
    BY <1>1 DEF RegStart, RegLookup, store
  <2>2. \A g \in Handlers : pc'[g] = "allocated" => pc[g] = "allocated" /\ req'[g] = req[g]
    BY <1>1 DEF RegStart, RegLookup, IInv, TypeOK
  <2> QED
    BY <2>1, <2>2, BindSame
<1>2. CASE RegUpdate(h)
  <2>1. \A g \in Handlers : pc'[g] = "allocated" => pc[g] = "allocated" /\ req'[g] = req[g]
    BY <1>2, FinishClaims DEF RegUpdate, IInv
  <2>2. ASSUME NEW n \in WithId(req[h].id), nodes' = (nodes \ {n}) \cup {Refresh(n)},
               Persist \/ PersistFails
        PROVE  BindInv' /\ Fixed
    <3>1. n \in nodes /\ SameNode(n, Refresh(n))
      BY RefreshSame DEF WithId, IInv, TypeOK, SameNode
    <3>2. disk' = disk \/ disk'.nodes = nodes'
      BY <2>2, SaveNodes DEF Save
    <3> QED
      BY <2>1, <2>2, <3>1, <3>2, BindRewrite
  <2>3. CASE UNCHANGED <<store, disk>>
    BY <2>1, <2>3, BindSame DEF store
  <2> QED
    BY <1>2, <2>2, <2>3 DEF RegUpdate
<1>3. CASE RegMark(h)
  <2>1. \A g \in Handlers : pc'[g] = "allocated" => pc[g] = "allocated" /\ req'[g] = req[g]
    BY <1>3, FinishClaims DEF RegMark, IInv
  <2>2. UNCHANGED nodes /\ (disk' = disk \/ disk'.nodes = nodes')
    BY <1>3, SaveNodes DEF RegMark, store
  <2> QED
    BY <2>1, <2>2, BindSame
<1> QED
  BY <1>1, <1>2, <1>3

\* Touches, the admin, the collector and a restart from the file.
LEMMA BindOthers ==
    ASSUME IInv, BindInv,
           \/ \E k \in PubKeys : TouchVerify(k) \/ TouchUpdate(k)
           \/ \E n \in nodes : Approve(n) \/ DeleteNode(n)
           \/ \E a \in AuthKeys : AddAuthKey(a) \/ DeleteAuthKey(a) \/ Lapse(a)
           \/ Tick \/ RunGC \/ Crash
    PROVE  BindInv' /\ Fixed
<1>1. ASSUME UNCHANGED <<nodes, pc, req>>, disk' = disk \/ disk'.nodes = nodes'
      PROVE  BindInv' /\ Fixed
  BY <1>1, BindSame
<1>2. ASSUME NEW k \in PubKeys, TouchVerify(k) PROVE BindInv' /\ Fixed
  BY <1>1, <1>2 DEF TouchVerify, store, handlers
<1>3. ASSUME NEW k \in PubKeys, TouchUpdate(k) PROVE BindInv' /\ Fixed
  <2>1. UNCHANGED <<pc, req>>
    BY <1>3 DEF TouchUpdate, handlers
  <2>2. ASSUME NEW n \in Registered(k), nodes' = (nodes \ {n}) \cup {Refresh(n)}, Save
        PROVE  BindInv' /\ Fixed
    <3>1. n \in nodes /\ SameNode(n, Refresh(n))
      BY RefreshSame DEF Registered, IInv, TypeOK, SameNode
    <3> QED
      BY <2>1, <2>2, <3>1, SaveNodes, BindRewrite
  <2>3. CASE UNCHANGED <<store, disk>>
    BY <1>1, <2>1, <2>3 DEF store
  <2> QED
    BY <1>3, <2>2, <2>3 DEF TouchUpdate
<1>4. ASSUME NEW n \in nodes, Approve(n) PROVE BindInv' /\ Fixed
  <2>1. SameNode(n, [n EXCEPT !.status = "active"])
    BY DEF IInv, TypeOK, NodeRecords, SameNode
  <2>2. nodes' = (nodes \ {n}) \cup {[n EXCEPT !.status = "active"]} /\ Save /\ UNCHANGED <<pc, req>>
    BY <1>4 DEF Approve, handlers
  <2> QED
    BY <2>1, <2>2, SaveNodes, BindRewrite
<1>5. ASSUME NEW n \in nodes, DeleteNode(n) PROVE BindInv' /\ Fixed
  <2>1. nodes' = nodes \ {n} /\ Save /\ UNCHANGED <<pc, req>>
    BY <1>5 DEF DeleteNode, handlers
  <2>2. \A k \in nodes' : \E m \in Entries : SameNode(m, k)
    BY <2>1 DEF Entries, SameNode
  <2> QED
    BY <2>1, <2>2, SaveNodes, InheritNodes, BindKept
<1>6. ASSUME NEW a \in AuthKeys, AddAuthKey(a) \/ DeleteAuthKey(a) \/ Lapse(a)
      PROVE  BindInv' /\ Fixed
  BY <1>1, <1>6, SaveNodes DEF AddAuthKey, DeleteAuthKey, Lapse, store, handlers
<1>7. CASE Tick
  BY <1>1, <1>7 DEF Tick, store, handlers
<1>8. CASE RunGC
  <2>1. nodes' = {Marked(n) : n \in {m \in nodes : ~ Dropped(m)}} /\ Save /\ UNCHANGED <<pc, req>>
    BY <1>8 DEF RunGC, handlers
  <2>2. \A n \in nodes : SameNode(n, Marked(n))
    BY DEF IInv, TypeOK, NodeRecords, Marked, SameNode
  <2>3. \A k \in nodes' : \E m \in Entries : SameNode(m, k)
    BY <2>1, <2>2 DEF Entries
  <2> QED
    BY <2>1, <2>3, SaveNodes, InheritNodes, BindKept
<1>9. CASE Crash
  <2>1. nodes' = disk.nodes /\ disk' = disk /\ \A h \in Handlers : pc'[h] = "idle"
    BY <1>9 DEF Crash
  <2>2. \A k \in nodes' : \E m \in Entries : SameNode(m, k)
    BY <2>1 DEF Entries, SameNode
  <2> QED
    BY <2>1, <2>2, InheritNodes, BindKept
<1> QED
  BY <1>2, <1>3, <1>4, <1>5, <1>6, <1>7, <1>8, <1>9

\* Every step keeps the bindings.
LEMMA BindStep == IInv /\ BindInv /\ [Next]_vars => BindInv' /\ Fixed
<1>1. IInv /\ BindInv /\ UNCHANGED vars => BindInv' /\ Fixed
  <2> SUFFICES ASSUME IInv, BindInv, UNCHANGED vars PROVE BindInv' /\ Fixed
    OBVIOUS
  <2> QED
    BY BindSame DEF vars, store, handlers
<1> QED
  BY <1>1, BindAllocate, BindAdd, BindRegister, BindOthers DEF Next

\* An id stands for one key and one address for ever: no registration that
\* overlaps another, no write that fails, no crash that brings back what memory had
\* dropped, and no collection gives a listed id to another node or moves it.
THEOREM BindingsFixed == Spec => [][Fixed]_vars
<1>1. Init => IInv /\ BindInv
  BY KeyInit DEF Init, BindInv, Entries
<1>2. IInv /\ [Next]_vars => IInv'
  BY TypeStep, SoundStep DEF IInv
<1> QED
  BY <1>1, <1>2, BindStep, PTL DEF Spec

-----------------------------------------------------------------------------
(* What an ephemeral key admits, when requests do not overlap. *)

\* At most one request is under way.
Solo == \A g, h \in Handlers : Busy(g) /\ Busy(h) => g = h

\* Keys that were generated are not generated again.
Minted == authKeys \subseteq minted /\ \A h \in Handlers : Busy(h) => req[h].auth \in minted

\* A key that admitted a node is used, or gone for good, or about to be marked.
Spent ==
    \A x \in admitted : x.auth \in Ephemeral =>
        /\ x.auth \in minted
        /\ \/ x.auth \in used
           \/ x.auth \notin authKeys
           \/ \E h \in Handlers : pc[h] = "added" /\ req[h].auth = x.auth

\* The key of a request whose node is not added yet admitted none.
Unspent ==
    \A h \in Handlers : pc[h] \in {"valid", "new", "allocated"} /\ req[h].auth \in Ephemeral =>
        \A x \in admitted : x.auth # req[h].auth

OnceInv == Minted /\ Spent /\ Unspent /\ EphemeralOnce

\* A step that admits nobody, generates no key and starts no request.
LEMMA OnceKept ==
    ASSUME OnceInv, admitted' = admitted, minted \subseteq minted', used \subseteq used',
           authKeys' \subseteq authKeys \cup (minted' \ minted), authKeys' \subseteq minted',
           \A h \in Handlers : pc'[h] # "idle" =>
               /\ Busy(h) /\ req'[h].auth = req[h].auth
               /\ pc'[h] \in {"valid", "new", "allocated"} => pc[h] \in {"valid", "new", "allocated"},
           \A h \in Handlers : pc[h] = "added" =>
               \/ pc'[h] = "added" /\ req'[h].auth = req[h].auth
               \/ req[h].auth \in used' \/ req[h].auth \notin authKeys'
    PROVE  OnceInv'
<1>1. Minted'
  BY DEF OnceInv, Minted, Busy
<1>2. Spent'
  BY DEF OnceInv, Spent
<1>3. Unspent'
  BY DEF OnceInv, Unspent
<1>4. EphemeralOnce'
  BY DEF OnceInv, EphemeralOnce
<1> QED
  BY <1>1, <1>2, <1>3, <1>4 DEF OnceInv

\* Ending a request that has added nothing.
LEMMA FinishOnce ==
    ASSUME TypeOK, NEW h \in Handlers, Finish(h)
    PROVE  /\ pc'[h] = "idle"
           /\ \A g \in Handlers : g # h => pc'[g] = pc[g] /\ req'[g] = req[g]
BY DEF TypeOK, Finish

\* handleRegister, alone and with writes that succeed.
LEMMA OnceRegister ==
    ASSUME TypeOK, OnceInv, Solo, Solo', fails' = 0, NEW h \in Handlers,
           \/ \E k \in PubKeys, a \in AuthKeys : RegStart(h, k, a)
           \/ RegLookup(h) \/ RegUpdate(h) \/ RegAllocate(h) \/ RegAdd(h) \/ RegMark(h)
    PROVE  OnceInv'
<1> USE DEF store, handlers, world, history
<1>1. ASSUME NEW k \in PubKeys, NEW a \in AuthKeys, RegStart(h, k, a) PROVE OnceInv'
  <2>1. PICK r : r = Request(k, a, 0, 0)
    OBVIOUS
  <2>2. r.auth = a
    BY <2>1 DEF Request
  <2>3. /\ pc'[h] = "valid" /\ req'[h] = r
        /\ \A g \in Handlers : g # h => pc'[g] = pc[g] /\ req'[g] = req[g]
    BY <1>1, <2>1 DEF RegStart, TypeOK
  <2>4. UNCHANGED <<admitted, minted, used, authKeys>> /\ KeyValid(a)
    BY <1>1 DEF RegStart
  <2>5. \A g \in Handlers : pc[g] = "idle"
    BY <1>1, <2>3 DEF Solo, Busy, RegStart
  <2>6. Minted'
    BY <2>2, <2>3, <2>4, <2>5 DEF OnceInv, Minted, Busy, KeyValid
  <2>7. Spent'
    BY <2>4, <2>5 DEF OnceInv, Spent
  <2>8. Unspent'
    BY <2>2, <2>3, <2>4, <2>5 DEF OnceInv, Spent, Unspent, KeyValid
  <2> QED
    BY <2>4, <2>6, <2>7, <2>8 DEF OnceInv, EphemeralOnce
<1>2. CASE RegLookup(h)
  <2>1. UNCHANGED <<admitted, minted, used, authKeys>> /\ pc[h] = "valid"
    BY <1>2 DEF RegLookup
  <2>2. /\ pc'[h] \in {"new", "known"} /\ req'[h].auth = req[h].auth
        /\ \A g \in Handlers : g # h => pc'[g] = pc[g] /\ req'[g] = req[g]
    <3>1. CASE UNCHANGED req /\ pc' = [pc EXCEPT ![h] = "new"]
      BY <3>1 DEF TypeOK
    <3>2. ASSUME NEW n, pc' = [pc EXCEPT ![h] = "known"],
                 req' = [req EXCEPT ![h] = Request(@.key, @.auth, n.id, n.vip)]
          PROVE  /\ pc'[h] = "known" /\ req'[h].auth = req[h].auth
                 /\ \A g \in Handlers : g # h => pc'[g] = pc[g] /\ req'[g] = req[g]
      BY <3>2 DEF TypeOK, Request
    <3> QED
      BY <1>2, <3>1, <3>2 DEF RegLookup
  <2> QED
    BY <2>1, <2>2, OnceKept DEF OnceInv, Minted, Busy
<1>3. CASE RegUpdate(h)
  <2>1. UNCHANGED <<admitted, minted, used, authKeys>> /\ pc[h] = "known" /\ Finish(h)
    BY <1>3 DEF RegUpdate
  <2> QED
    BY <2>1, FinishOnce, OnceKept DEF OnceInv, Minted, Busy
<1>4. CASE RegAllocate(h)
  <2>1. UNCHANGED <<admitted, minted, used, authKeys>> /\ pc[h] = "new"
    BY <1>4 DEF RegAllocate
  <2>2. CASE Finish(h)
    BY <2>1, <2>2, FinishOnce, OnceKept DEF OnceInv, Minted, Busy
  <2>3. ASSUME NEW a \in Free, pc' = [pc EXCEPT ![h] = "allocated"],
               req' = [req EXCEPT ![h] = Request(@.key, @.auth, lastId + 1, a)]
        PROVE  OnceInv'
    <3>1. /\ pc'[h] = "allocated" /\ req'[h].auth = req[h].auth
          /\ \A g \in Handlers : g # h => pc'[g] = pc[g] /\ req'[g] = req[g]
      BY <2>3 DEF TypeOK, Request
    <3> QED
      BY <2>1, <3>1, OnceKept DEF OnceInv, Minted, Busy
  <2> QED
    BY <1>4, <2>2, <2>3 DEF RegAllocate
<1>5. CASE RegAdd(h)
  <2>1. PICK x : x = [id |-> req[h].id, auth |-> req[h].auth]
    OBVIOUS
  <2>2. /\ x.auth = req[h].auth /\ admitted' = admitted \cup {x} /\ pc[h] = "allocated"
        /\ UNCHANGED <<minted, used, authKeys>>
    BY <1>5, <2>1 DEF RegAdd
  <2>3. /\ x.auth \in Ephemeral => pc'[h] = "added" /\ req' = req
        /\ x.auth \notin Ephemeral => pc'[h] = "idle"
        /\ \A g \in Handlers : g # h => pc'[g] = pc[g] /\ req'[g] = req[g]
    <3>1. ~ PersistFails
      BY DEF PersistFails, TypeOK
    <3> QED
      BY <1>5, <2>2, <3>1, FinishOnce DEF RegAdd, TypeOK
  <2>4. \A g \in Handlers : g # h => pc'[g] = "idle" /\ pc[g] = "idle"
    BY <2>2, <2>3 DEF Solo, Busy
  <2>5. x.auth \in minted
    BY <2>2 DEF OnceInv, Minted, Busy
  <2>6. x.auth \in Ephemeral => \A y \in admitted : y.auth # x.auth
    BY <2>2 DEF OnceInv, Unspent
  <2>7. Minted'
    BY <2>2, <2>3, <2>4, <2>5 DEF OnceInv, Minted, Busy
  <2>8. Spent'
    <3>1. ASSUME NEW y \in admitted, y.auth \in Ephemeral
          PROVE  y.auth \in minted /\ (y.auth \in used \/ y.auth \notin authKeys)
      BY <2>2, <2>4, <3>1 DEF OnceInv, Spent
    <3> QED
      BY <2>2, <2>3, <2>5, <3>1 DEF Spent
  <2>9. Unspent'
    BY <2>3, <2>4 DEF Unspent
  <2>10. EphemeralOnce'
    BY <2>2, <2>6 DEF OnceInv, EphemeralOnce
  <2> QED
    BY <2>7, <2>8, <2>9, <2>10 DEF OnceInv
<1>6. CASE RegMark(h)
  <2>1. /\ UNCHANGED <<admitted, minted, authKeys>> /\ Finish(h)
        /\ used' = used \cup {req[h].auth} \/ (used' = used /\ req[h].auth \notin authKeys)
    BY <1>6 DEF RegMark
  <2> QED
    BY <2>1, FinishOnce, OnceKept DEF OnceInv, Minted, Busy
<1> QED
  BY <1>1, <1>2, <1>3, <1>4, <1>5, <1>6

\* Touches, the admin and the collector admit nobody and free no key.
LEMMA OnceOthers ==
    ASSUME TypeOK, OnceInv, crashes' = 0,
           \/ \E k \in PubKeys : TouchVerify(k) \/ TouchUpdate(k)
           \/ \E n \in nodes : Approve(n) \/ DeleteNode(n)
           \/ \E a \in AuthKeys : AddAuthKey(a) \/ DeleteAuthKey(a) \/ Lapse(a)
           \/ Tick \/ RunGC \/ Crash
    PROVE  OnceInv'
<1> USE DEF store, handlers, world, history
<1>1. /\ UNCHANGED <<admitted, handlers, used>> /\ minted \subseteq minted'
      /\ authKeys' \subseteq authKeys \cup (minted' \ minted)
  <2>1. ~ Crash
    BY DEF Crash, TypeOK
  <2>2. ASSUME NEW k \in PubKeys, TouchVerify(k) \/ TouchUpdate(k)
        PROVE  UNCHANGED <<admitted, handlers, used, minted, authKeys>>
    BY <2>2 DEF TouchVerify, TouchUpdate
  <2>3. ASSUME NEW n \in nodes, Approve(n) \/ DeleteNode(n)
        PROVE  UNCHANGED <<admitted, handlers, used, minted, authKeys>>
    BY <2>3 DEF Approve, DeleteNode
  <2>4. ASSUME NEW a \in AuthKeys, AddAuthKey(a) \/ DeleteAuthKey(a) \/ Lapse(a)
        PROVE  /\ UNCHANGED <<admitted, handlers, used>> /\ minted \subseteq minted'
               /\ authKeys' \subseteq authKeys \cup (minted' \ minted)
    BY <2>4 DEF AddAuthKey, DeleteAuthKey, Lapse
  <2>5. Tick \/ RunGC => UNCHANGED <<admitted, handlers, used, minted>> /\ authKeys' \subseteq authKeys
    BY DEF Tick, RunGC
  <2> QED
    BY <2>1, <2>2, <2>3, <2>4, <2>5
<1> QED
  BY <1>1, OnceKept DEF OnceInv, Minted, Busy

\* What the promise rests on: nothing has failed, and no request has met another.
LEMMA OnceStep ==
    ASSUME TypeOK, TypeOK', [Next]_vars, Solo, Solo', fails = 0 /\ crashes = 0 => OnceInv
    PROVE  fails' = 0 /\ crashes' = 0 => OnceInv'
<1> SUFFICES ASSUME fails' = 0, crashes' = 0 PROVE OnceInv'
  OBVIOUS
<1>1. fails = 0 /\ crashes = 0
  <2>1. fails <= fails'
    BY DEF Next, RegStart, RegLookup, RegUpdate, RegAllocate, RegAdd, RegMark, TouchVerify, TouchUpdate,
           Approve, DeleteNode, AddAuthKey, DeleteAuthKey, Lapse, Tick, RunGC, Crash, Save, Persist,
           PersistFails, TypeOK, vars
  <2>2. crashes <= crashes'
    BY DEF Next, RegStart, RegLookup, RegUpdate, RegAllocate, RegAdd, RegMark, TouchVerify, TouchUpdate,
           Approve, DeleteNode, AddAuthKey, DeleteAuthKey, Lapse, Tick, RunGC, Crash, world, TypeOK, vars
  <2> QED
    BY <2>1, <2>2 DEF TypeOK
<1>2. CASE UNCHANGED vars
  BY <1>1, <1>2 DEF vars, store, handlers, history, OnceInv, Minted, Spent, Unspent, EphemeralOnce, Busy
<1> QED
  BY <1>1, <1>2, OnceRegister, OnceOthers DEF Next

LEMMA OnceInit == Init => OnceInv /\ Solo
BY DEF Init, OnceInv, Minted, Spent, Unspent, EphemeralOnce, Solo, Busy

\* An ephemeral key admits one node at most in every behaviour in which no two
\* registrations are under way at once, the server stays up and its writes
\* succeed: three things it needs, as it is marked after the node is added.
THEOREM EphemeralCorrect == Spec /\ []Solo => []EphemeralOnceIfUp
<1>1. Init => (fails = 0 /\ crashes = 0 => OnceInv)
  BY OnceInit
<1>2. TypeOK /\ TypeOK' /\ Solo /\ Solo' /\ [Next]_vars /\ (fails = 0 /\ crashes = 0 => OnceInv)
         => (fails = 0 /\ crashes = 0 => OnceInv)'
  BY OnceStep
<1>3. (fails = 0 /\ crashes = 0 => OnceInv) => EphemeralOnceIfUp
  BY DEF OnceInv, EphemeralOnceIfUp
<1> QED
  BY <1>1, <1>2, <1>3, TypeCorrect, PTL DEF Spec

-----------------------------------------------------------------------------
(* The two promises in the scenario of MCRegistry that has one request at a time. *)

\* A step of the scenarios is a step of the registry, and stays in its scenario.
LEMMA ScenarioStep ==
    [MCNext]_<<vars, scenario>> => /\ [Next]_vars /\ scenario' = scenario
                                   /\ Within' \/ UNCHANGED vars
BY DEF MCNext, Next, Stays

\* One request at a time in one of the scenarios.
THEOREM LifeAlone == MCSpec => [](scenario = "life" => Solo)
<1>1. MCInit => (scenario = "life" => Solo)
  BY OnceInit DEF MCInit
<1>2. (scenario = "life" => Solo) /\ [MCNext]_<<vars, scenario>> => (scenario = "life" => Solo)'
  <2>1. Solo /\ UNCHANGED vars => Solo'
    BY DEF Solo, Busy, vars, handlers
  <2>2. Within' /\ scenario' = "life" => Solo'
    BY DEF Within, Solo, Busy
  <2> QED
    BY <2>1, <2>2, ScenarioStep
<1> QED
  BY <1>1, <1>2, PTL DEF MCSpec

\* A node keeps its address when requests do not overlap.
THEOREM VIPStableAloneCorrect == MCSpec => []VIPStableAlone
<1>1. MCInit => IInv /\ AckInv /\ KeyInv
  BY KeyInit DEF MCInit
<1>2. IInv /\ [MCNext]_<<vars, scenario>> => IInv'
  BY ScenarioStep, TypeStep, SoundStep DEF IInv
<1>3. IInv /\ IInv' /\ AckInv /\ [MCNext]_<<vars, scenario>> => AckInv'
  BY ScenarioStep, AckStep
<1>4. IInv /\ (scenario = "life" => KeyInv) /\ [MCNext]_<<vars, scenario>> /\ (scenario = "life" => Solo)'
         => (scenario = "life" => KeyInv)'
  <2>1. Solo' => OneEach'
    BY DEF Solo, OneEach
  <2> QED
    BY <2>1, ScenarioStep, KeyStep
<1>5. AckInv /\ (scenario = "life" => KeyInv) => VIPStableAlone
  BY KeyImplies DEF VIPStableAlone
<1> QED
  BY <1>1, <1>2, <1>3, <1>4, <1>5, LifeAlone, PTL DEF MCSpec

\* An ephemeral key admits one node when requests do not overlap.
THEOREM EphemeralAloneCorrect == MCSpec => []EphemeralOnceAlone
<1> DEFINE Once == scenario = "life" => (fails = 0 /\ crashes = 0 => OnceInv)
           Alone == scenario = "life" => Solo
<1>1. MCInit => TypeOK /\ ReqOK /\ Once
  BY TypeInit, OnceInit DEF MCInit
<1>2. TypeOK /\ ReqOK /\ [MCNext]_<<vars, scenario>> => (TypeOK /\ ReqOK)'
  BY ScenarioStep, TypeStep
<1>3. TypeOK /\ TypeOK' /\ Alone /\ Alone' /\ Once /\ [MCNext]_<<vars, scenario>> => Once'
  BY ScenarioStep, OnceStep
<1>4. Once => EphemeralOnceAlone
  BY DEF OnceInv, EphemeralOnceIfUp, EphemeralOnceAlone
<1> QED
  BY <1>1, <1>2, <1>3, <1>4, LifeAlone, PTL DEF MCSpec
=============================================================================
