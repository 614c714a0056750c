# Karadul in TLA+

Karadul is a self-hosted mesh VPN in Go. Nodes register with a coordination
server, learn about each other by long-polling it, establish Noise IK sessions
pairwise over UDP or through a DERP-style relay, and carry IP packets in them.

This directory holds TLA+ models of the concurrent core of the program and of its
web UI, configurations that check them with TLC, and theorems about them checked with
TLAPS. `src/` below is the root of the repository; `PROJECT.json` maps every
definition to the lines it stands for.

    tlc -workers 2 -config Session.cfg MCSession.tla      # check one instance
    tlc -workers 2 -config RegistryEphemeral.cfg Registry.tla
    tlapm SessionProofs.tla                               # check the proofs

## 1. Inventory

| Part | State it keeps | Operations | Correct when |
|---|---|---|---|
| Replay window, `internal/node/replay.go` | `floor`, bitmap of 2048 bits in 64-bit words | `Check`, `Advance` (`slideBy`), `Reset` | a marked counter is refused, a fresh one in or above the window is accepted |
| Session, `internal/node/session.go` | keys, atomic send counter, window, age | `Encrypt`, `Decrypt`, `Rotate`, `IsExpired`, `NeedsRekey` | a packet is returned once; a nonce is used once per key |
| Noise IK, `internal/crypto/noise.go` | handshake transcript | write and read of two messages, `TransportKeys` | both ends derive the same keys, for nobody else |
| Engine, `internal/node/engine.go` | `pending`, `sessions`, `byID` under `e.mu`; `idCounter`; state of peers | `connectPeer`, `initiateHandshake`, `handleHandshakeInit/Resp`, `handleData`, `sendToPeer`, `rekeyLoop`, `RekeyPeer`, `handshakeTimeoutLoop`, `derpUpgradeLoop` | keys are never shared by two sessions of a node; the ends agree; a peer can always be reached again |
| Long-poll client, `engine.go` | `sinceVersion` | `pollLoop`, `poll` | the view converges to the server's state |
| Registry, `internal/coordinator/{api,storage,auth,ip_pool,server}.go` | nodes, auth keys, version, JSON file, address pool | register, ping/endpoint/exchange, admin approve and delete, auth keys, garbage collection, restart | addresses are unique and stable, an answer survives a crash, only approved nodes are active |
| Long polling, `internal/coordinator/poll.go` | subscribers, `updatedAt` | `WaitForUpdate`, `snapshot`, `notify` | no change is slept through |
| Event hub, `internal/coordinator/websocket.go` | clients and their queues, a queue of broadcasts | register, greet, broadcast, tick, unregister, close; two goroutines per client | a slow or dead client blocks nobody and leaves nothing, a closed queue is not written |
| Live socket, `web/src/lib/websocket.tsx`, `header.tsx` | the socket, a reconnect timer, `connected` | mount, open, message, error, close, reconnect, clean-up | one socket or one timer, a badge that is true, and a connection again after any fault |
| API client, `web/src/lib/{api,store}.ts`, `App.tsx` | query cache, store, pending mutations | seven queries (four poll), five mutations, invalidation, traffic history | what is shown never goes back, a reported success is real, no traffic is missed |
| Pages, `web/src/pages/*.tsx` | search, filter, dialogs, forms, selection | navigation, refresh, delete, create, edit, save | a form starts from the newest answer, a page comes to show the present state |
| Request limiter, `server.go` | token buckets per address | allow, clean up | limits hold, buckets do not leak |
| Mesh manager, `internal/mesh/{manager,peer,topology}.go` | `peers` by key, `byVIP` by address, state and age of each peer | `Apply` (`AddOrUpdate`, `Remove`), `gcLoop`, `Transition`, `Touch` | both tables name the same live peer; a removed node is not routed to |
| Router and ACL, `internal/mesh/routing.go`, `internal/auth/acl.go` | routes, rules | longest prefix, first match | a packet takes the most specific route and the first rule that matches |
| Relay server, `internal/relay/server.go` | `clients` by key, a bounded channel per connection | accept, route, ping, presence, remove | no panic, no dead entry, no leaked goroutine |
| Relay client, `internal/relay/client.go` | connection, send channel, `closed` | connect loop, `SendPacket`, read and write loops, shutdown | a connection that is lost or mute is left, no send on a closed channel, nothing outlives the engine |
| NAT traversal, `internal/nat` | sockets | STUN, hole punching | replies reach whoever asked |
| DNS, TUN, firewall, exit node, CLI | platform state | I/O | not a matter for a model checker |

**How they interact.** The engine's poll goroutine hands each answer of the
coordinator to `TopologyManager.Apply`; a new peer fires a callback that dials it.
Inbound datagrams, from the socket and from the relay client, each get a goroutine
that ends in one of the engine's three handlers. Packets of the TUN device go
through the router to `sendToPeer`. `Engine.mu` guards the tables of sessions but
is released around cryptography and I/O; sessions, peers and the mesh manager have
locks of their own. In the coordinator every request is a goroutine; `Store.mu`
covers one method at a time, the write of the JSON file included. In the relay
each connection has a reader and a writer, and readers send into other
connections' channels. The browser holds one WebSocket to the hub, whose status
messages write the store that the statistics query reads; everything a page shows comes
from the query cache, which outlives the pages and is fed by fetches, polls and
invalidations. Admin requests of the UI go to the handlers that `Registry` models.

**What is hard.** Check-then-act across two critical sections (`Check`/`Advance`,
pending check/insert, `ValidateAuthKey`/`MarkAuthKeyUsed`, `GetNodeByPubKey`/
`AddNode`, the relay's limit, `route`); pointers used after their table changed
(`Remove`, `rekeyLoop`, relay targets); lossy, duplicating network; a node that
restarts and reuses its session IDs; a server that restarts from an older file;
client and server timeouts that race; bounded channels; in the browser, answers
that arrive after they were cancelled, state read before an `await`, forms that copy
fetched data, and a socket, its timer and its page that end in any order. `PROJECT.json` lists 39
hazards with the lines where they bite and the properties that cover them, or why none does.

## 2. Modules

| Module | Models | State and actions |
|---|---|---|
| `ReplayWindow` | `replay.go` | pure operators on `[floor, words]`: `Check`, `Advance`, `BitShift` (the word-and-carry loops of `slideBy`), with `WordBits` and `Words` for 64 and 32 |
| `Session` | `session.go`, one direction, both ends | `EncryptReadKey`/`EncryptSeal` (key copied under RLock, counter taken later), `DecryptCheck`/`Open`/`Advance`, `RotateSend`, `RotateRecv`; uses `ReplayWindow` |
| `Handshake` | the engine's handlers and loops, all nodes and the network | one action per critical section: `InitiateCheck`, `InitiateInsert` and `InitiateSend` are the three of `initiateHandshake`, whose last (the peer becomes Connecting, the init is sent) runs after the unlock for the entries in `announcing`; messages stay on the wire for ever, which covers loss, delay, reordering and duplication; `Restart` loses memory and reuses IDs; the history `stranded` holds peers whose pending entry went by one of two races |
| `Registry` | coordinator handlers that change the registry, the store, the file, the pool | `RegStart` … `RegMark` are the store calls of `handleRegister`; `Persist`/`PersistFails`; `RunGC`; `Crash` reloads `disk` |
| `LongPoll` | `poll.go`, `Store.notify`, the client's loop | `PollStart`, `PollCheck`, `PollSelect`, `PollWake`, three `Snap*` steps, `GiveUp` (the client's timeout, which always comes before the server's timer), `Lose`; `Change`, `GCStart`/`GCCommit` |
| `Relay` | `relay/server.go` | `CheckLimit`/`AddClient`, `RouteLookup`/`RouteSend`, the deferred calls one by one, the writer's loop |
| `RelayClient` | `relay/client.go` | `Connect`, `DialSucceeds`/`DialFails`, `Receive`, `ReadFails`, `GiveUp` are `Run` and the read loop; `Writer…` the writing goroutine of each connection, which reads `c.send` anew for every packet; `SendCheck`/`SendPick`/`SendPut` are `SendPacket`: the flag under the lock, the channel and the send without it; `ReadTimesOut`/`Period` the 60 s read deadlines of both ends; `Cancel`, `CutOff` |
| `Mesh` | `manager.go`, `peer.go`, `topology.go` | `Apply` node by node, `RemoveFind`/`RemoveMark`, the two loops of `gcLoop`, and what the engine does to a peer (`Transition`, `Touch`); the histories `heard` and `dialled` hold the peers that it has moved since the removing of the last update began, by what arrived or by a dial |
| `LiveUpdates` | `coordinator/websocket.go` composed with `web/src/lib/websocket.tsx` | `HubRegister`/`Greet`/`Unregister`/`Broadcast`/`Tick`/`Done` are the cases of the hub's select, `Reader…`/`Writer…` the two goroutines of a client, `Mount`, `OnOpen`, `OnMessage`, `OnClose`, `TimerFires`, `Unmount` the provider; `Drop`, `Close`, `Restart` |
| `WebApi` | `web/src/lib/api.ts`, `store.ts`, and react-query as `App.tsx` configures it | per key a history of what the coordinator lists (for the ACL also `NoRules`, rules that are null), a cache, a request; the chart as the sequence of its last `MaxPoints` points; `Poll`, `ServerReads`, `Succeed`, `Fail`, `Refetch` with cancelled requests (`orphans`) that go on, `Submit` … `Report` for mutations, `Pushed` for what the hub sends |
| `Console` | `web/src/pages/*.tsx` over `WebApi` | which of rows, empty, skeleton or error a page shows, every control with its guard, `Shown` (an answer fills a form, unless its rules are null), `Told` (a mutation closes its dialog), `Navigate` |
| `Views` | what the UI promises of all it shows | abstract: the source changes, a view catches up and never goes back. `Console!NeverBack` is its `Spec` under `current <- Version`, `view <- cache.ver` |
| `Channels` | what the engines promise together: encrypted channels | abstract: a node offers, the node it dialled accepts, the first confirms, data go between the two ends of a key, and no end is drawn twice. `Handshake!ChannelsKept` is its `Spec` under `offers <- inits`, `accepted <- Accepted`, `confirmed <- Confirmed` (the keys responders and initiators have built sessions with), `sent <- datas` |

`MC*` modules add symmetry sets and constant definitions. `*Proofs` modules hold the
theorems. Definitions whose comment begins with `MUTANT of` are altered forms of the
definition that follows them: each stands for a plausible slip in the code, and
substituting it must make a named property fail. They are used nowhere else.

**One action per lock.** A step is what the code does under one acquisition of a
lock, one atomic operation, one channel operation or one message. Steps that touch
only locals are joined to a neighbour.

**What is abstracted.** Cryptography is perfect: an AEAD opens under the key and
counter that sealed it and nothing else, and a Noise response verifies only for the
ephemeral it answers. Names, routes, endpoints and payloads are left out unless a
property looks at them. The network is a set of messages that only grows.

## 3. Runs

Passing runs:

| Run | Question | Instance and why it is enough |
|---|---|---|
| `session` | What does the window accept, and which nonces are used, under all interleavings of Encrypt, two Decrypts and both Rotates? | window of 2 words of 2 bits, 5 packets: the smallest in which `slideBy` moves whole words, bits with carry, and part of a window; 1 rotation of each end; 1 sender is enough to hold a stale key across it |
| `handshake` | Do keys and IDs stay distinct, do the ends agree, and do `sessions` and `byID`, while nodes restart and sessions are replaced? Does all that show as `Channels`? | 2 nodes that dial each other, 2 IDs per life. Two scenarios: in `restart` one of the nodes restarts, a peer has up to 2 dialling goroutines, at most 4 handshake messages are sent, over UDP, and, until data is sent, one init may wait to be sent while fewer than 3 messages have been: crossed dials, double dials, a dial given up or answered before it is sent, and reuse of IDs all occur; in `rekey` nobody crashes, inits are sent at once, messages come over UDP and the relay without a bound on their number, with 2 relayed sessions at once, one session comes due, and then either a second, so that rekeys cross and one end drops the session it has just built, or the first expires (no data is sent in the former, and both are over UDP only) |
| `registry` | Are addresses unique and kept, is what was acknowledged on disk, and do status and key use follow the rules? | manual approval, an ordinary and an ephemeral key, 3 versions and 3 IDs, a failed write and a crash. Two scenarios, chosen at the start, bound what is combined: `crash` has 2 handlers that may serve the same key, overlapping, failing and crashing, with no clock; `life` has one request at a time, a clock up to 2 so that both ages of the collector pass, approval, deletion, lapse of keys and a crash |
| `long_poll` | Is a change ever slept through? | 2 clients, a client timeout in any wait, 2 changes, collections, 1 lost request; with fairness |
| `relay` | Can a broadcast meet a closed channel, or a dead connection stay? | 2 connections of one key and 1 of another, limit 1 with 2 keys, channels of 1: takeover, overflow and the race on the limit all occur |
| `relay_client` | What does losing the connection at any moment do to a sender, to old and new writers, and to the shutdown? | 2 connections, so that a writer of the first meets the channel of the second; 1 sender, 1 fault of the network besides any number of deadlines, channels of 1 so that they fill; with fairness |
| `mesh` | Do the tables agree whatever updates, collector and engine interleave? | 2 keys, 2 addresses, 3 cells, no bound on the length of behaviours; an update lists any nodes with different addresses, also two of one key, as overlapping registrations make them |
| `live` | Can the hub panic, leak a client, or the browser lose its connection for good? | 2 connections, so that one may still be ending while the next stands; channels and wire of 1, messages of one kind, so that every queue is full at once; 1 fault (a lost connection or a restart) and a shutdown; with fairness |
| `console` | Does what the UI shows, reports and saves agree with the coordinator? | 1 item (a list has it or not; the rules may also be null, at first and after a change), a chart of 2 points where the code keeps 30, 3 versions of what changes, 1 outage, 1 push, 1 cancelled request, 1 navigation, in 11 scenarios (`MCConsole!Scenarios`): each opens some pages and lets some keys change, some mutations be sent and some forms be edited; polling and fairness are the same in all |

Runs that show that a stated promise does not hold. Each checks the one property that
states the promise, and TLC's counterexample is the shortest history that breaks it:

| Run | Promise | What the code does |
|---|---|---|
| `session_replay_after_slide` | `SPECIFICATION.md:288` duplicates in the window are dropped | `slideBy` (`replay.go:64`) shifts a bitmap that `Check` and `Advance` address modulo the window; after a slide the marks belong to other counters |
| `registry_ephemeral` | `auth.go:21` an ephemeral key is single-use | two overlapping registrations pass the check before either marks the key |
| `long_poll_torn` | `SPECIFICATION.md:564` respond with the new state | `snapshot` reads nodes, ACL and version under separate locks. The counterexample has two changes and no timer: the first wakes the poll, the second falls between its reading of the nodes and of the version, and the client holds the second's version with the first's nodes. The next change repairs it; nodes ping every 25 s (`engine.go:255`), and a ping is a change (`api.go:561`) |

**Bounds** are the constants named `Max…` (and `PoolSize`, `SendCap`, `MaxClients`,
`Crashing`, which the code has too); they cap counters in guards. Histories (`delivered`,
`admitted`, `acked`, `overlapped`, `raced`, `shared`, `stranded`, `heard`, `dialled`, `closes`, `told`, …) are written and
never read by an action. Deadlock is not checked where the bounds let a behaviour end.

**Types.** The type invariant of every module is a theorem for every value of the constants
(section 5), and no run checks it again.

**Symmetry** is used only in runs without liveness properties, and only for constants
that no definition orders. Either node of `Handshake` may be the one that crashes.

**Scenarios.** `MCHandshake`, `MCRegistry` and `MCConsole` add a variable `scenario` that is chosen at
the start and never changes, and a predicate `Within`. A step is a step of the module's
`Next` whose end is within the scenario, so each scenario is a bound, as a constant
is: it removes behaviours and adds none. The liveness property of `console` is not
helped by it, for the steps that fairness speaks of are within every scenario
whose page polls.

### Fairness

Liveness is checked in five runs.
`LongPoll`: weak fairness of the steps of one poll, that is the client's loop and its
server goroutine. Go schedules both and `time.After` fires. No change, loss or client
timeout is forced; `VersionsCatchUp` holds although the client's timeout (10 s,
`engine.go:44`) is always shorter than the server's wait (30 s), because the check that
follows each new subscription compares versions.
`Relay`: weak fairness of a connection's writer and of its reader's unwinding, once
`ReadFrame` has failed or a send panicked. Nobody is made to connect, send or leave.
`RelayClient`: weak fairness of dials (they end, one way or the other), of the read loop once its
connection is down, of backoffs, of writers, of the goroutine that waits for the context, and of
the read deadlines. No packet, frame, fault or cancellation is forced, and no dial must succeed.
`LiveUpdates`: weak fairness of the hub's greeting, of reading and writing goroutines, of
browser events and timers. The hub's `select` chooses at random among the cases that are
ready, so a case that is ready again and again is not passed over for ever: strong fairness
of its cases and of the reader that waits in one. No fault, shutdown, tick or click
is forced.
`Console`: polling intervals pass and the coordinator answers (weak fairness); an answer
that is there again and again is shown (strong: `Refresh` or a change of page may cancel
or overtake it any number of times, which no person does for ever). `PagesConverge` is
about the pages whose queries poll, under the hypothesis that from some time on the
coordinator can be reached and the page's requests are allowed. A hidden tab, whose intervals react-query pauses,
is not covered: the fairness supposes a page that is looked at.

## 4. Properties worth a look

- `Session!FirstWindowExact`, `NoReplayBeforeSlide`: up to its first slide the window
  is exact, and a packet comes out twice only if two goroutines held it at once: the
  distance between `Check` and `Advance` is the only leak, and it is one.
- `Session!CurrentKeyNonceUnique`: though `Encrypt` copies the key before it takes the
  counter, nonces under the *current* key never repeat. Under the previous key they can:
  a copy taken before `Rotate` is used with counter 0.
- `Handshake!KeysUsedOnce`: a handshake becomes one session though responses are duplicated and
  every copy of a duplicated init is answered; a second session of it would repeat nonces.
- `Handshake!OpensOnlyAtOtherEnd`: data is looked up by receiver index alone, and indices
  restart with the process; only keys keep packets apart.
- `Handshake!SendSessionReceivable`: what a node sends with is in `byID`.
- `Handshake!StuckOnlyByRace`: four places take a handshake out of `pending` or move the peer on, in
  any order with the setting of the state; only two orders leave a peer Connecting with nothing under way.
- `Handshake!ChannelsKept`: `Channels` has no loss, duplicate, timeout, age or restart, and the
  engines, which have them all, never do what it does not: confirm one offer twice, confirm keys
  the other end does not have, draw an end again, or send data under a wrong ID.
- `Registry!AckDurable`: an address a node was told survives a crash, also when other
  writes failed in between.
- `Relay!CutOffOnlyByOverlap`, `NoGhost`: a connection cut off while it is still read
  always lost its entry to a connection of the same key.
- `RelayClient!StolenOnce`, `MuteIsLeft`: a writer takes items of whatever channel `c.send` is; that
  it returns after its first error bounds what it takes from a later connection, and the error, which
  nobody reads, still ends the connection, and if nothing else does it, the relay's deadline does.
- `RelayClient!PanicOnlyByRace`, `ShutdownEnds`: what the `closed` flag does achieve; and that
  writers on channels which no one closes end with the context.
- `Mesh!IndexSound`, `UnlistedExpired`: packets are never sealed for the wrong key; a
  node that left is not routed to unless it was heard from after it had been marked, or a dial
  or the timeout of a handshake has made it Discovered again (section 6).
- `LiveUpdates!ClosedOnce`, `DeadLeaves`: three places close a client's channel and four
  events end a connection; the channel is closed once, never written after, and entry and
  goroutines all go, wherever the end began and also when the hub has gone before.
- `LiveUpdates!OneConnection`, `Reconnects`: `onerror`, `onclose`, the timer and the clean-up
  come in any order, and there is one socket or one timer, and in the end a connection.
- `Console!SuccessShown`: it needs `invalidateQueries` to *cancel* a fetch under way; were it
  waited for, an answer from before the mutation would be the last.
- `Console!NeverBack`: a cancelled request is not aborted and ends in the queryFn; its answer
  reaches the store and must not reach the cache.
- `Console!TrafficCovered`: `useStats` reads the last total when it is rendered, not when its
  answer comes. Growth may be counted twice and never not at all: the point that shows a total higher
  than all before covers the growth since the highest. The chart keeps the last points only, so they
  add up to the growth in their time and not to the total.

## 5. Proofs

Most theorems are `Spec => []Inv`, for every value of the constants. The argument is
always: a strengthening that is inductive, `Init => IInv`, `IInv /\ [Next]_vars =>
IInv'` with one case per action, `IInv => Inv`. The assumptions are those named
`…Assumption` in the modules. The others are

- two refinements, `ConsoleProofs!ViewsImplemented` (`Spec => NeverBack`) and
  `HandshakeProofs!ChannelsImplemented` (`Spec => ChannelsKept`): initial states map to initial
  states, and a step maps to a step of the abstract specification or to a stutter;
- two action properties. `RegistryProofs!BindingsFixed`, `Spec => [][Fixed]_vars`: no step gives an
  id that memory or the file lists to another key, or moves it to another address; no run checks
  it, `Fixed` being defined with the proof. `ConsoleProofs!ChartCoversTraffic`,
  `Spec => TrafficCovered`, from `Seen` and the cap of the chart, for every length of it;
- two that suppose what their property needs. `VIPStableCorrect`,
  `~ Retrying => (Spec => []VIPStable)`: addresses are stable when nodes wait for an answer before
  they register again. The engine registers once, at its start (`engine.go:178`), so two requests of
  one key overlap only when a node is restarted before the server has answered. `EphemeralCorrect`,
  `Spec /\ []Solo => []EphemeralOnceIfUp`: a single-use key admits one node while
  registrations do not overlap. That they may overlap, and what happens then, is the run
  `registry_ephemeral`;
- three about the specification of the run `registry` itself: `LifeAlone` (in the scenario `life`
  at most one request is under way), and from it and the arguments of the former two
  `VIPStableAloneCorrect` and `EphemeralAloneCorrect`, which state what the run checks. For them
  `RegistryProofs` extends `MCRegistry`.

| Module | Inductive invariant | Why the strengthening is needed |
|---|---|---|
| `SessionProofs` | `WindowInv`: `TypeOK`, `FloorTracksHighest`, and `BitmapExact` (before the first slide a bit is set exactly if its counter was marked); `ReplayInv`: two receivers with one packet have overlapped, what was delivered is marked, and a delivered packet that is held again has overlapped; `NonceInv`: no held or sealed key is ahead of the current one, and counters sealed under it are below the counter | `Check` and `Advance` are loops over words; what they do to floor and bits is stated once, in lemmas about the operators, and the steps use only that |
| `RegistryProofs` | `TypeOK`, `ReqOK` (what a handler's step says of its locals), `Sound`: ids are unique in memory and file, `FileSound`, `PoolSound` (the pool knows the owner of each address), `ClaimsSound` (an allocated address is its handler's alone) | a handler holds an address between `Allocate` and `AddNode`, when only the pool knows; a crash forgets the claim, so the file must be sound by itself |
| | `ApprovalInv`: who is active was approved, in memory and in the file; `AckInv`: what was answered is in both, as is what a handler is about to answer, and a handler's copy of a record has the node's address; `KeyInv`, without retries: one node and one request per key | the next write takes the file from memory and a crash takes memory from the file, so each must hold in both; a copied id is never given again, so a copy goes stale only by removal |
| | `BindInv`: memory and file agree on the key and address of an id, and an id that a handler has claimed is in neither | a crash takes back what memory had dropped or had not written, so old entries meet new ones |
| | `OnceInv`, with `Solo`: an ephemeral key that admitted a node is marked as used, or deleted, or its handler is about to mark it; the key of a request that has added no node has admitted none | between `AddNode` and `MarkAuthKeyUsed` only the handler knows that the key is spent; a key once deleted is never generated again |
| `LongPollProofs` | `TypeOK` and `NoLostWakeup`, which is inductive: `Notify` puts a token in every subscribed channel in the step that moves `updatedAt`, and a poll comes to wait only by a check that found nothing newer | none |
| `RelayProofs` | 9 conjuncts, among them: registered connections are served and open; a connection not yet added is in no table; who is served and not registered has overlapped and is closed; a connection that is through is closed | removal takes out *whichever* connection the key has |
| | `LimitInv`: without a race there is room for who was admitted and not yet added | the limit is checked in one critical section and used in another |
| | of the client, `SendInv`: while `closed` is down the current channel is open, only channels that were in `c.send` are closed, and a sender that the read loop has not overtaken is right about its channel | the flag and the channel are read in different steps, and the channel may be the next connection's |
| | `PumpInv`: at most the current connection lives, while `Run` reads from it; who waits on a channel of another connection, or has taken from it, has lost its own | that a writer takes one item and no more is known only from its own connection's end |
| `MeshProofs` | `Keyed` (a cell is under its own key), `LeftKnown` (what the collector still holds is in the table) with `IndexSound` and `IndexComplete` | the collector keeps pointers across two loops |
| | `UpdateInv`: outside the adding loop each known peer is handled (listed, expired, heard from, or dialled and Discovered) or still to be visited by the removing loop | the removing loop expires one peer at a time while engine and collector go on |
| `ConsoleProofs` | `Fresh` (what an answer carries was listed and is not older than what is shown), `Seen` (`told` is the highest total that the store or a request has held, so no point starts above it), `Mutated` (what a mutation knows of what it did is true), `Shows` (`SuccessShown` in the form a fetch preserves), `DraftsRebased`, and types; with `OuterType` and `LocalType` the whole of `TypeOK` | an answer under way must not be older than what is shown although requests are cancelled, started again and polled; a cancelled request still carries a total |
| `HandshakeProofs` | `IdInv`: tokens built or sent were drawn, with `Unsent` (an ID that waits in `announcing` stands in no init), one session and one init per token, `IdsDisjoint`, and what is pending or completing has no session; `HalfInv`: a pending handshake was sent to its peer, a response has its responder's session behind it, what completes matches a response, a session is one of two different ends; `DataInv`: a packet was sealed by a session of its sender, which is not its receiver | a response may be for an earlier life of the node, when the ID stood for another handshake: only tokens, which a restart does not repeat, connect it to what was sent |
| | `ChannelInv`: the former with `SendSessionReceivable`, `NotSelf` (nobody knows, dials or has a session with itself) and `OwnRekeys` (the rekey loop holds sessions of its own node) | a step of `Channels` needs that what is built or sent is between two different nodes, and which end of its key the sender is |
| `LiveProofs` | two invariants that meet in the link alone. The hub's: `AskingFree` (a connection that asks for the upgrade is nowhere in the hub), `RegisteringOpen`, `OpenUnclosed`, `GreetedOpen`, `ClosedOnce`; the provider's: `BlankEmpty`, `NoneClosing`, `OneChain`, `BadgeTrue`; and the types of the queues | a client is registered by the hub's loop and not by its handler: in between its channel is open and it must be in no table; only the clean-up closes a socket, so a closing one never counts as a chain |

Proved: type correctness of `Session`, `Handshake`, `Registry`, `LongPoll`, `Relay`,
`RelayClient`, `Mesh`, `LiveUpdates` and `Console` with `WebApi`;
`FloorTracksHighest`, `InOrderAccepted`, `FirstWindowExact`, `NoReplayBeforeSlide`,
`CurrentKeyNonceUnique`; all of `Handshake` (`KeysUsedOnce`, `IdsDisjoint`,
`HandshakeAgreement`, `SendSessionReceivable`, `OpensOnlyAtOtherEnd`,
`StuckOnlyByRace`, and the refinement `ChannelsKept`); `UniqueVIP`, `AckDurable`,
`ActiveOnlyIfApproved`, `VIPStableAlone`, `EphemeralOnceAlone`, and that bindings are fixed;
`NoLostWakeup`; `RegisteredOpen`, `NoGhost`, `CutOffOnlyByOverlap`,
`LimitOnlyByRace`, and the safety half of `WritersEnd`; `PanicOnlyByRace`, `StolenOnce`, that no
channel of the relay client is closed twice and that it has one connection at a time;
`IndexSound`, `IndexComplete`, `UnlistedExpired`; `TrafficCovered`, `DraftsRebased`,
`SuccessShown` and the refinement `NeverBack`; `ClosedOnce`, `OneConnection`. So every invariant
and every safety property of the passing runs is also a theorem.

Only model-checked: liveness (`VersionsCatchUp`, `WritersEnd`, `MuteIsLeft`, `ShutdownEnds`,
`DeadLeaves`, `Reconnects`, `PagesConverge`), which is out of the prover's reach under fairness. No
proved module uses a `RECURSIVE` operator, and no proof needs induction over data.

## 6. Behaviour of the code the models record

Met while reading and modelled as the code has it; not every one has a run of its own.

- A counter never seen may be refused after a slide (`replay.go:21`, the same cause as
  the replay). `Rotate` while a `Decrypt` is in flight marks a counter of the old key in
  the new window. `Rotate` has no caller outside tests.
- Two goroutines may both deliver one packet (`session.go:80-93`).
- `initiateHandshake` checks and inserts under separate locks (`engine.go:785`, `:787`):
  a peer can have several pending handshakes.
- It sets the peer to Connecting after it has released the lock (`engine.go:821`). If the pending entry
  was given up or taken in between, or a response for an earlier life of the node takes it later
  (`engine.go:918`), the peer stays Connecting with nothing under way. Nothing waits on that state:
  `sendToPeer` asks for the session and dials again.
- `handleData` (`engine.go:984`) opens packets under sessions that `session.go:16` calls
  expired, and under replaced ones, which stay in `byID`.
- `RekeyPeer` (`engine.go:1290`) drops the session before the new handshake begins, where
  `SPECIFICATION.md:280` keeps the old one for packets in flight; both ends rekey, where
  `SPECIFICATION.md:281` names the initiator; and the loop may drop a session that is
  newer than the one it collected.
- With an expired session `sendToPeer` drops the packet and starts nothing.
- A crash between `AddNode` and `MarkAuthKeyUsed` (`api.go:350`) leaves a node admitted and its
  single-use key unused.
- `IPPool.Release` has no caller: addresses return to the pool only at a restart.
- Overlapping registrations of one key may make two nodes with two addresses
  (`SPECIFICATION.md:166` has one per node).
- A disabled node cannot come back by itself (`SPECIFICATION.md:539`); approval does not
  refresh `LastSeen`, so the collector may disable the node again at once. A deletion whose
  write fails is undone by a crash.
- `runGC` stamps a time it read before it took the lock (`storage.go:438`), so `UpdatedAt`
  may step back, and a client that holds a later version misses that collection until the next change.
- The client's timeout for the header of an answer (10 s, `engine.go:44`) is shorter than the server's wait
  (30 s): every idle poll ends as an error with a growing backoff of up to 32 s, in which no
  poll waits, and the empty answer of `SPECIFICATION.md:565` never arrives.
- The relay's ping ticker is never read: neither end sends pings (the engine's
  keepalive, `engine.go:603`, goes to the coordinator), and a connection that is silent for 60 s in
  either direction is dropped and dialled again, where `SECURITY_AUDIT.md:661` counts keepalives
  among what the relay does. A handler that sends on a closed
  channel panics; `net/http` recovers after the deferred calls, so it is the *sender's*
  connection that dies. `PeerGone` is broadcast also when a newer connection of the key
  remains. The limit of clients is compared before the lock under which a client is added (`server.go:120`), so
  connections that come together exceed it, where `PRODUCTION_READINESS.md:188` has the limit as "Fixed". A writer that fails leaves a connection that reads and no longer writes.
- `SendPacket` (`client.go:224`) reads `closed` under the lock and sends after it has released it; if
  the read loop closes the channel in between, the send panics and, as nothing in the engine
  recovers, the process ends. `PRODUCTION_READINESS.md:207` has this panic as "Fixed" by the
  flag; `PanicOnlyByRace` says what the flag achieves.
- The relay's client: the writer of a lost connection may take one packet of the next one and lose
  it (`client.go:172`); a dial that fails leaves its channel open, and what is queued there is lost
  with the next one; after a write error nothing is sent until a read deadline passes.
- The collector drops peers that are listed but silent; the next update adds them again.
- A peer that has left is expired, and every transition makes it routable again, for the router asks only
  whether a peer is expired: a dial that began before (`engine.go:821`), or the timeout of its handshake
  (`engine.go:1036`), does so until the next update or collection, with nothing heard from the peer.
- The collector deletes a peer's address from `byVIP` without looking whose entry it is (`manager.go:167`): a
  second peer that was given the address is then not found.
- `AddOrUpdate` (`manager.go:83`) keeps `VirtualIP` of a key it knows, also when an update has
  another address for it, as after a deletion and a new registration; packets to the new
  address then find no peer.
- The event hub: `writePump` joins the messages that are queued into one frame with newlines
  between, and the provider's `JSON.parse` fails on it, so a burst, such as the greeting, may be
  lost; its totals are always zero (`websocket.go:197`), and the chart's next point is then the
  whole total.
- `/ws`, peers, topology and status are asked for without the token (`api.ts:38`): with an admin
  secret the socket never opens, and the pages that use them show an error.
- Deleting a node or a key is answered 204, saving the ACL 200, all without a body; `fetchApi`
  reads JSON all the same, so the UI reports a failure of what was done. Tests that mock the
  answer with a body see a success.
- Rules that are null (a coordinator without a policy, or after a `PUT` of `{}`: `Rules` has no
  `omitempty`, `storage.go:52`) do not fill the form (`settings.tsx:94-98`): it keeps the rules it held, the
  page says so nowhere, and saving brings them back. `DraftsRebased` leaves this case out; the run reaches it.
- The chart keeps 30 points (`store.ts:66`), about a minute of polling, where `dashboard.tsx:177` calls it
  "the last 24 hours".
- Of the mutations only `createKey` and `saveConfig` are answered with JSON and so can report a success.
- The retry button of the ACL's error fetches the auth keys (`settings.tsx:394`). A config form is
  offered also when its load failed. Without rules there is no save button, so the last rule
  cannot be removed.
- A page left while a fetch of it is under way: a mutation's success then only marks the key, and
  the old answer clears the mark; a list opened afterwards is old until its next fetch. A
  success of `createKey` during the first load of the keys is not in the list that comes.

## 7. Assumptions and omissions

- `Handshake`: peer states Idle and Expired are in `Mesh`; a session's peer is
  assigned with it (the code assigns it right after `buildSession`); `handleData` on a
  session removed a moment ago counts as having run before; the transition that follows `buildSession` in the
  two handlers of messages is joined to it (nothing reads the state between). Hole punching and failed
  sends are left out. Long handshakes are bounded by `MaxIds`.
- `Registry`: hostnames, routes, the nonce cache of signed requests and the admin's
  configuration are left out; the wall clock does not step back. The code's status
  `online` is `active` here.
- `Mesh`: endpoints, routes, hostnames and the exit-node pointer are left out; an update
  has one node per address, as `UniqueVIP` has it; a peer out of the tables
  is no longer tracked.
- `Relay`: contents of frames; memory for the channel of a rejected connection.
- `RelayClient`: contents of frames; the answer to a ping, which nobody sends (it would use the
  writer's buffer without a lock); a read or write that is under way when the connection closes
  fails. The relay is its read deadline and its closing; `Relay` is not composed with it.
- `LiveUpdates`: a connection's handle is used again when nothing is left of it; the message
  the writer has taken and not written is counted as written; the check of the Origin header,
  the provider's `error` text (nothing reads it), a throwing `WebSocket` constructor and
  React's double mounting in development are left out.
- `WebApi`, `Console`: react-query is external and modelled as this code configures it (a request
  stands for its four tries; the cache is not collected while the UI is used, and the browser
  is not offline). A list is a set of items, statuses and rows are told apart only as far
  as a control or a filter does; totals only grow. Left out: the order and the text of rules,
  expiry choices, themes, CSV export, the badge of a copied key, clicks that a modal dialog
  intercepts, a failing disk behind a 500. Creating a key when all items are listed has no
  outcome, which is a bound.

### Not modelled

Each with its reason in `PROJECT.json`. In short: pure functions of one table that no
step interleaves with (routing, ACL, key generation, configuration, DNS lookup); platform
I/O (TUN, STUN, hole punching, firewall, exit node, DNS overrides); request limiting and the
CPU sampler, one lock and one number each; cryptographic primitives, taken as perfect;
command line, logging, widgets, themes, export and embedded files.

## 8. What could follow

- The composition of `RelayClient` with `Relay` (end to end: a packet that a sender queues is written to
  its destination's connection or dropped for a full channel).
- `NoiseIK`: the two messages as terms, so that `Handshake`'s assumption that a response
  verifies only for its ephemeral is derived and not assumed.
- Refinements for the coordinator: `Registry` implements an atomic allocation of keys to
  addresses, where requests do not overlap; `Relay` a table of at most one connection per key.
