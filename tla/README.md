# Verification of loam-basecamp

TLA+ models of the Loam modules for Basecamp, the TLC configurations that check
them on small instances, and TLAPS proofs of what matters most about them. The
modules follow the code under `core/src`, `ble_mesh/src` and `shrooms_mesh/src`;
a definition carries the name of the function or field it stands for.

`tlc -config X.cfg M` checks a module, `tlapm M.tla` checks its proofs.

## 1. The system

Loam is a shared messaging module for apps on one machine. Apps call `loam_core`
(start, join, sendSealed, sign) and listen to its events (`received`,
`statusChanged`, `metricsChanged`, `keycardSignResult`, `hdStatusChanged`).
`loam_core` sends every frame over all its *bearers* and announces what they
receive once. A bearer is either the Logos Delivery node, driven through
asynchronous calls to the external `delivery_module`, or one of two mesh modules
of this repository, `ble_mesh` (flood-gossip over Bluetooth) and `shrooms_mesh`
(TCP between one's own machines).

Each module runs on one thread of its own with an event loop: a call of an app, a
reply to an asynchronous call, an event, a timer and a socket signal are each
handled to the end before the next. Nothing is preempted; everything interleaves.

| Component | Source | State it keeps | Operations | What makes it hard |
|---|---|---|---|---|
| Receive path | `core/src/multibearer.hpp`, `loam_core_impl.cpp` 32-42, 365-371 | seen set and its queue, receive ring | ingest, onReceived, recentReceived | the same frame over several bearers, memory and ring at their limits |
| Fan-out | `multibearer.hpp` 108-134, `ble_module_bearer.hpp` | enabled flags, priorities | joinAll, sendSealed, setBearer* | flags changed between join and bring-up, joins before start |
| Payload decoding | `delivery_bearer.hpp` 75-123, `segment_compat.hpp`, `ble_module_bearer.hpp` 31-39 | none | peel, unwrap, decode | the same frame at different base64 depths |
| Delivery bearer | `core/src/delivery_bearer.hpp` | readiness flags, pending and joined topics, time of the last restart | start, join, send, reconnect, replies, nodeStarted | replies and events in any order, late, or never; restarts on top of each other |
| Facade | `core/src/loam_core_impl.cpp` 50-465 | status, poll in flight, stall, peerless streak | start, stop, join, sendSealed, setTopicMode, refreshMetrics | several apps, time-outs racing answers, recovery that must come |
| Identity store | `core/src/loam_identity.hpp` 276-425 | identities, bindings, default; `identities.json` | add, remove, rename, bind, setDefault, load | a save that is cut short, identities named after they are gone |
| Keycard delegation | `loam_core_impl.cpp` 636-784 | pending requests | enrollKeycard, keycardSign, polls | time-outs, the wrong card, two taps of different cards |
| HD root | `loam_core_impl.cpp` 491-628, `loam_vault.hpp` | `hd-root.json`, the seed in memory | hdCreate, hdImport, hdUnlock, hdLock, hdForget | writes that fail or are cut short |
| Crypto | `loam_hd.hpp`, `loam_vault.hpp`, `loam_bip39_words.hpp` | none | derive, seal, open, sign | fixed functions, tested with vectors |
| BLE gossip | `ble_mesh/src/mesh.hpp`, `ble_mesh_impl.cpp` | seen set, timers | flood, onRadio, start, stop | copies in any order, hop counts, small memory |
| BLE radio | `ble_mesh/src/mesh_radio_qt.*` | links, routes, write queues, fragments | dial, announce, fragment, reassemble | signals in any order, two clocks on one queue, addresses that rotate, one-byte counts |
| Shrooms peers | `shrooms_mesh/src/shrooms_mesh_impl.cpp` 43-222 | fetch flag, servers, outgoing sockets | start, stop, refresh, applyPeers | answers after stop, sources that hang, peers that come and go |
| Shrooms wire | `shrooms_mesh_impl.cpp` 224-268, `mesh_wire.hpp` | readers, seen memory, bytes unsent | flood, accept, feed, received | reads that split frames anywhere, limits on both sides, peers that are stuck or hostile to the protocol |
| UI | `ui/Main.qml` | none of its own | renders metrics and status | - |

How they interact: the facade owns the bearers and calls them directly; bearers
call back through `onFrame`, `onReady` and `onError`; the metrics timer of the
facade asks the node for its peers and, by `reconnect()`, restarts it; apps are
told of everything by events. The identity store, the keycard delegation and the
HD root share the facade's mutex but no state with the transport; the keycard
delegation reads and writes the identity store.

### What makes each part correct

- *Receive path*: a frame is announced at least once and not again for the next
  8192 announcements; the ring holds the newest frames since the last drain.
- *Delivery bearer*: a ready node has been asked for every topic joined on the bearer,
  in the mode frames are sent in, and its receive handlers; it is never ready inside
  a restart.
- *Facade*: the status apps wait on is true; the node is asked for the topics they
  joined; the poll neither stacks up nor takes one answer for another; restarts are
  spaced; peerlessness and stalls end.
- *Identities*: what the user chose is what signs, across removals and restarts;
  one answer per request; a signature is under the identity that was chosen for it, and
  by its card as far as the code can tell.
- *HD root*: what is unlocked is what is stored; a root is never written over.
- *BLE gossip*: a flood reaches everybody, once each, and dies out.
- *BLE radio*: a link in use is one the module knows, routes and links agree, and a
  queue never stops, while addresses stay with their nodes and cleanups come in time;
  messages are put together as they were sent.
- *Shrooms wire*: what a good peer floods is read, whatever the split into reads and
  whatever others write, and announced once.
- *Shrooms peers*: one fetch at a time, which ends; sockets follow the last list;
  after `stop()` nothing is asked and at most the list under way is applied; a peer
  that stays up is reached again.

## 2. Modules

| Module | Models | Composed with |
|---|---|---|
| `DedupStream` | the promise of the receive path to apps (abstract) | - |
| `MultiBearer` | `MultiBearer::ingest`, `onReceived`, `recentReceived` | implements `DedupStream` |
| `ReceivePath` | what both bearers make of the copies of a frame before `ingest` | extends `MultiBearer` |
| `ReceivePath_proofs` | theorems of `MultiBearer`, and of the whole path | - |
| `DeliveryBearer` | `DeliveryBearer` and the `delivery_module` calls behind it | - |
| `LoamCore` | the facade, over the delivery bearer | extends `DeliveryBearer` |
| `LoamCore_proofs` | theorems of `DeliveryBearer`, and of the facade over it | - |
| `IdentityStore` | `IdentityStore` and its file | - |
| `Keycard`, `Keycard_proofs` | enrolment and signing with a card; theorems of it and the store | extends `IdentityStore` |
| `HdRoot`, `HdRoot_proofs` | the HD root and its theorems | - |
| `BleMesh`, `BleMesh_proofs` | `BleMeshBearer` on several machines, and theorems | each machine implements `DedupStream` |
| `BleRadio`, `BleRadio_proofs` | `QtBleRadio`: links, routes, queues, reassembly, and theorems | - |
| `ShroomsMesh`, `ShroomsMesh_proofs` | peer lists and connections, and theorems | - |
| `ShroomsWire`, `ShroomsWire_proofs` | `flood`, `Reader`, `received` between machines, and theorems | - |
| `MC*` | the instances TLC checks | - |

### How they correspond to the code

*State.* Fields keep their names (`m_seenOrder`, `m_nodeReady`, `m_fetching`).
A variable without an `m_` is either something outside the process (calls the
module has not answered, what the node was asked to subscribe to, the file on disk, frames
in the air, peers that are up) or, marked *history* in its comment, a record of
the past that only properties read.

*Actions.* One per handler. A synchronous call that ends in another component is
one action of both: `AppStart` of `LoamCore` contains `Start` of `DeliveryBearer`,
the answer that trips the watchdog contains `Reconnect`, the second tap of an
enrolment contains the save of the store. An asynchronous call is split where the
code returns to the event loop: `reconnect()` is `Reconnect`, `StopReplied`,
`RestartAccepted` or `RestartRefused`, and `NodeUp` or `NodeDown`.

*Time.* A clock is kept as an age in ticks that stops counting where the code no
longer tells values apart (a call older than its time-out, a restart older than
60 s). One tick of `LoamCore` is one period of the 3 s metrics timer. A jitter
timer in `BleMesh` is an element of a set that any step may fire.

*Bytes.* A sealed frame in `ReceivePath` is a name and the number of its base64
layers. On the wire of `ShroomsWire` a frame is two pieces, the length and the rest,
and a read takes any number of pieces; a read that ends inside a piece leaves the
reader waiting as one that ends before it does. A fragment in `BleRadio` is its
message and its place in it, and the header keeps the width of its fields.

*Names.* Topics, frames, keys, phrases and peers are model values. A hash is the
tuple of what is hashed; a vault is the pair of what is sealed and the password;
an address test against a prefix is membership of the address's mesh in a set.

*Faults.* Definitions whose comment begins with `Fault:` are not part of the
models: each is a definition of the model with a plausible mistake in it, and
swapping it in must break the property it is paired with in `PROJECT.json`. They
show that a property can fail.

## 3. Runs

`PROJECT.json` lists the properties of each run; the comments above them in the
modules say what they mean.

| Run | Instance | Shows |
|---|---|---|
| `receive_path` | 2 frames, 2 topics, depths 0 to 2, 2 bearers, memory 2, ring 2, 5 announcements | whatever copies come, an app gets what was sealed; no frame is lost or announced twice within the window; the ring is right at its limit; the whole implements `DedupStream` |
| `two_copies` | as `receive_path` | a frame over a channel and a mesh is announced twice; see section 6 |
| `bearer` | 2 topics, 2 overlapping prefixes, 1 call of each kind; and 2 calls of each kind without nodeStarted | readiness, joins, handlers and modes hold in every order of calls, replies and events, for both versions of delivery_module; frames may be sent on topics nobody joined |
| `facade` | a node, mesh-only or neither, 1 topic, shortest time limits | status, bring-up and the topics asked for stay right for any calls of apps |
| `watchdog` | `CallTimeout`, `StreakMax` and `Cooldown` 2, `StallAfter` and `RestartWindow` 3, two calls unanswered at a time | poll, late answers, stall and peerless recovery, with liveness |
| `restart_stuck` | as `watchdog`, with `CallTimeout` 1, `StallAfter` 2 and events that may be lost | a restart that hangs is never retried; see section 6 |
| `keycard` | 1 soft key, 2 cards that may be enrolled, 1 container, 1 request, 3 forms of signature, poll cap 1, 1 failed save | bindings, enrolment, signing, restarts with a file that is torn or cannot be opened |
| `hd_root` | 2 phrases, 2 passwords, 2 disk faults | vault, seed and status agree |
| `ble_mesh` | 3 machines in a triangle or a row, 2 frames, TTL 3, memory 1 | flooding over a lossy, reordering radio; what a machine hands up is a `DedupStream` |
| `ble_radio` | 2 devices to dial, 2 centrals, 2 ids, messages of 2 and 4 fragments, counts modulo 3, ids modulo 2 | links, routes, queues and reassembly over links that fail in every order of signals |
| `shrooms_mesh` | 3 peers, 2 own addresses, a daemon and an agent | fetches, connections, stop and start |
| `shrooms_wire` | 2 connections of a peer, 1 of a rogue, 5 kinds of frames at the limits, memory 1 | framing, limits, dedup and arrival |

`bearer` runs the two cases as one specification: `MCDeliveryBearer` chooses in its
initial state whether events come (`reports`) and takes its steps from
`DeliveryBearer` or from a second instance of it.

### Bounds, and why they are enough

- `MaxCalls`: outstanding calls of one kind to `delivery_module`. The handlers of their
  replies read flags, not identities of calls, so the second call in `bearer` already
  meets every combination of flags. The proofs of `DeliveryBearer` hold for any
  `MaxCalls`.
- `Generations = 2` instead of 2^32: `m_metricsGen` counts modulo two, so the latest call
  and one given up before it are unanswered together and their answers come in either
  order. A third call meanwhile takes over the number of the first. In `facade` it is 1,
  which leaves older answers out. The proofs hold for any number.
- `SeenMax = 2`, `RxMax = 2`: the smallest sizes at which "oldest" and "newest"
  differ; five announcements overflow both twice over. The proofs hold for any.
- `CallTimeout`, `StallAfter`, `Cooldown`, `RestartWindow`, `StreakMax`: the code's 20 s,
  30 s, 45 s, 60 s and 10 polls. In `watchdog` a call times out before a stall is
  noticed (2 and 3) and the cooldown ends before the restart window (2 and 3), as in
  the code; a time-out and a cooldown, or a stall and the window, are not of
  different lengths there, and start at different moments anyway. In `facade`, which
  is about flags, all are 1 but the window, which is 2. `RestartsAreSpaced` and
  `CallsDontPile` are proved for any values.
- `MaxPolls = 1` instead of 180: zero, one and over the cap all occur.
- `MaxFaults`: one save of the identity store that fails, or two operations on the
  vault, since a second failure meets the state the first one left.
- `MaxSends = 2`, `SeenCap = 1`: two frames push each other out of the seen set, so
  a frame does return to a node that has forgotten it. TTL 3 is one more than
  the longest way between three machines.
- `MaxSent = 2` frames in `ReceivePath`, each with up to two copies that may come any
  number of times; depth 2 is the deepest the phones use.
- `MaxWork = 3` in `BleRadio` bounds links dialled, messages begun and messages sent
  together: a dropped link, its successor and a third; two messages of one device
  and one of another. `ByteMod = 3`, `IdMod = 2`: a count that wraps to less than the
  fragments there are, and an id that comes again.
- `MaxWritten = 3`, `Backlog = 2` in `ShroomsWire`: two frames unsent are over the
  backlog, and a third is skipped; a memory of one forgets the first of two.
- Three peers: one in each mesh of the machine, one in a mesh it is not in.

In the runs without fairness (`facade`, `bearer`, `receive_path`, `hd_root`, `ble_radio`) the
behaviours include those in which any participant stops for ever.

### Fairness

Only what the code or its runtime schedules is assumed to happen:

- a running timer fires, and the event loop gets to it (`TimersRun`, `Fire`,
  `TimerFires`, the poll of `Keycard`);
- a request that has a time-out in this code ends, as a fetch does after 5 s
  (`SourceFails` or `SourceAnswers`), or a connection attempt of the socket;
- bytes that have arrived are read: Qt emits `readyRead` for them (`Read` of
  `ShroomsWire`);
- an asynchronous call is answered, if only with an error (`CallsAnswered`,
  `KeycardNext`): the SDK answers a call to a missing or dead module with one.

Good luck is never assumed by a specification, only by the property that needs
it: `NeverPeerlessForever` and `StallHeals` say "if the node goes on answering",
`Reconnects` says "if the lists and the connections are not refused for ever".
`StallNoticed` needs none of these: with only the timers running, a node that
falls silent is announced.

## 4. Proofs

Every theorem holds for all values of the constants under the named assumptions
of the modules, which TLC also evaluates in the runs. The assumptions say what a
constant is (a number, a subset), or that names do not clash: identities are hashes
of different keys, a half-written file is no store, a pair of a card and a tap is no
card. `TTL \in 1..255` because the hop goes out in a byte. Two conditions are hypotheses
of theorems instead, because they hold of some deployments only; the MC modules assume
them, so TLC finds that their instances meet them: `EventOutcome` (a delivery_module
that emits nodeStarted, 0.3.0 and later) and `Reaches` (hops and layout of a BLE mesh).

**`ReceivePath_proofs`, on `MultiBearer`.** That no frame is announced twice within the window is
not inductive: it says nothing of the memory. `IInv` adds that set and queue hold
the same identities, each once (`MemoryAgrees`), and that the queue is exactly the
tail of the history of announcements (`MemoryIsRecent`). A new frame is then not
in the tail, and what an eviction drops is out of the window by one. From it:
`NeverRedelivered`, `NeverLost`, `RingCorrect`, and `Implements`, the refinement of
`DedupStream`: an ingest maps to an offer that is or is not in the recent window, a
drain to a stutter.

**`ReceivePath_proofs`, on the path.** A step of the path is a step of `MultiBearer` or leaves it alone
(`PathIsMultiBearer`), since whatever `HandedUp` yields of a copy is a frame `MultiBearer`
admits; that rests on `SentOK`, what the network can hold. The invariant and the
refinement of `DedupStream` then carry over (`PathInvariant`, `PathImplements`), and
`AppsGetWhatWasSealed` is inductive with `SentOK`: an unwrapped copy is in base64 when
it is sent, so decoding it once is never one time too many.

**`LoamCore_proofs`, on `DeliveryBearer`.** `IInv` relates flags and calls: a restart is only ever
under way on a bearer that was once ready, one bring-up has at most one
of its calls in flight, and the node has been asked for every topic joined on the
bearer, or it is pending, or covered by a restart that will join it, unless a restart
has failed. Each part has a step lemma with one case per action. `AllTopicsJoined`,
`RoutedAsJoined` and `ReadyIsSettled` follow, the last for a module with nodeStarted
events. `RoutedAsJoined` is about topics joined on the bearer; `send` asks for no join,
and the frames of other topics are kept apart in `misrouted`. `ReadyBearerHears`
needs that a bearer that has ever been up has its handlers with a listening module
(`Listening`), as a restart does not register them.

**`LoamCore_proofs`, on the facade.** Every step of the facade is a step of `DeliveryBearer` or leaves it
alone (`CoreIsBearer`), so `IInv` of the bearer holds under any calls of apps. On top:

- `Settled`: bring-up, restart and readiness exclude each other, the call in flight is the
  latest, and a call or a stall belongs to a ready node. Each part needs the others: the
  watchdog restarts only on the answer to a call in flight, so only a ready node, and
  with nothing else under way. `PollsSettledNode` and, with the types, `CoreInvariant`
  follow, and `CallsDontPile`: a poll sends only when no call is in flight or its time is
  up, so an answer to an older call must not clear the flag. That it does not rests on
  the comparison of generations in `LateAnswer`.
- `TopicsKept`: what apps joined while the bearer was on is in `m_allTopics`.
  With the bearer's `JoinedUnlessRestartFailed` this gives `TopicsReachTheNode`.
- `Told`: nothing is connected or connecting before the bearers are built, with
  `ConnectedIsEarned` and `ConnectingIsBusy`. It uses `Settled` (a stall that ends is that of
  a node that was up) and the bearer's `Flags` (a restart is of a node that was up).
- `CooldownBehind`: the cooldown's clock is never ahead of the restart's, as one answer
  resets both and only that answer resets either. From it `RestartsAreSpaced`.

`Settled`, `Told` and what follows from them need `EventOutcome`: without nodeStarted
events a reply is taken for the outcome, and with calls that overlap it may be that of
another call. `CoreIsBearer`,
`CoreTypes`, `TopicsReachTheNode` and `RestartsAreSpaced` hold for both versions.

**`Keycard_proofs`.** `IInv` has four parts. The store in memory and the file hold keys
that were made (`StoresOK`); a save that completed left the file as the memory is, and
until a restart forgets a change, the device key is the first and what the user has and
chose is what the store has and binds (`HistoryOK`): that makes `KeysAreKept` and
`ChosenSigns` inductive over saves that fail. A request is in the shape its stage demands
(`RequestsOK`: keys only between two taps, an owner and what was asked for only for a
signature), so a request that is done is never stepped again (`AnsweredOnce`).
`SignaturesAsChosen` ties three of them together: the owner of a request is what the
container was bound to when it came, that is what the user had chosen as long as
nothing was dropped, and the wrong-card test compares the owner with the key a
signature carries.

**`BleRadio_proofs`.** Two invariants, since links and fragments share no state.
`LinkIInv`: addresses lead to links that were dialled there (`LinksOK`), two links of one
name are of one device unless a device moved (`OneAddress`), a write under way has a
timer (`AllClocked`), and so has the queue of a link in use, which moreover can be
written (`AllMoving`). The last needs `RoutesAgree`: only a route that leads to a link
that is ready keeps a send from filling a queue nothing drains, so it holds, as
`RoutesAgree` does, until a node moves or a cleanup comes late. `RoutesAgree` is not inductive without `OneAddress`: the
cleanup of a link erases the route of its name, which might be another link's. `FragIInv`: a part kept for
reassembly is the fragment of its sender that belongs there, and is older than what
the sender does next (`PartOK`), and nothing of a message that got across whole so far
has gone (`WholeOK`). Ids and counts modulo their width are told apart by
`NumbersDiffer`, which is where `Excused` comes in.

**`BleMesh_proofs`.** `IInv` adds to the types and the hop budget that a seen set is the
newest of what its node has heard (`SeenAreNewest`). A frame that is not seen is then
not in the recent window of the node's stream, which is `NodesAreStreams`, the
refinement of `DedupStream`. `FloodsReach` needs `Coverage`: every neighbour of a machine
that has heard a frame has heard it, or a copy for it is in the air or on that machine's
timer, or all have heard it. A machine stops carrying a frame when its hops are used
up, so the number of relays must be tied to the machines: a copy relayed `k` times
has been heard by more than `k` of them, each relay being the first to hear it there
(`CopiesKnown`). A copy at its last hop therefore meets the last machine, if it
started with hops for all (`Reaches`). With TTL 7 and a spread of 2 a frame starts with 5
at least, so up to six machines are reached in any layout; the theorem says nothing of
more. It holds while no machine has heard more than its 4096 identities: past that
a machine may take up a frame again, with fewer hops left.

**`ShroomsWire_proofs`.** What a good peer has written and a reader has not cut yet
is whole frames, in range, wherever the last read ended (`StreamsFramed`): the
buffer holds the first half of one at most, and a read moves the border between
buffer and connection (`ReadSplits`). So no read of a good peer's bytes fails
(`GoodPeersStay`). The memory is the newest of what was announced, and announcements
of one identity are more than the memory apart (`MemoryRight`). A read announces any
number of frames, one after the other; `ReceivedAllKeeps` carries what one `Received`
keeps over all of them. It is an induction, which the library's theorems cannot be
used for, so it is proved from the least number of frames after which the fact would
fail (`Least`, from the well-foundedness of the natural numbers).

**`ShroomsMesh_proofs`.** `OneSource` strengthens `OneFetch` from counting sources to
naming the one that is asked, which a step can preserve. `ConnectionsAsListed` is
inductive with the types. `StopEndsAsking` is inductive with `TimerStops` (a stopped module
has no timer that would ask) and `OneSource`: a second list could only come of a
second source being asked. That the module has servers on its own addresses only is
in `TypeOK`, but it is the system's doing, which refuses to listen on others: the
addresses come from the daemon and are not looked at.

**`HdRoot_proofs`.** `SeedIsStored` is inductive; `StatusTold` needs it, as a write
that fails over a vault that does not parse clears the seed without an event, and
is right only because the seed was not a readable root's. `RootIsKept` is a property
of each step by itself.

### Model-checked only

- Liveness (`NeverPeerlessForever`, `StallNoticed`, `StallHeals`, `AnswerComes`,
  `FloodEnds`, `FetchEnds`, `Reconnects`, `FloodArrives`): TLAPS does not prove liveness under
  fairness.
- `FloodReached` when a machine has heard more than it remembers: the `ble_mesh` run has
  a memory of one and two frames; `FloodsReach` covers memories that are large enough.

Every other safety invariant and action property of the passing runs is a theorem.

## 5. Not modelled, and why

- Cryptography, BIP39, the protobuf fields of SDS and segments: functions of their
  inputs, without state, tested with vectors by the repository.
- The node configuration: a translation of JSON; the part that matters to others
  (which bearers exist, and that the first caller decides) is in `EnsureBearers`.
- Labels, domains, metrics text, logging.
- Switching the meshes off and on, and the priorities of bearers: a mesh keeps nothing
  of a join or a send, and bearers do not see each other, so neither the order nor a
  skipped call can be told from the state.
- Connections from addresses outside the meshes, which are closed when accepted.
- Calls that only set a value for the next node (`setSenderId`, `setNodeMode`,
  `forceMesh`).
- The hub-mode delay of `DeliveryBearer::start`: the facade passes no `Delay`, so
  the branch is never taken.

## 6. What the checks say about the code

Where the source makes a promise its code does not keep, a run shows it:

- `restart_stuck`: `delivery_bearer.hpp` 195-197 says a restart that never reports
  back does not block recovery for good. The only caller of `reconnect()` is the
  poll, which returns while the bearer is not ready, as it is during a restart; so
  the second restart is never asked for.
- `two_copies`: `multibearer.hpp` 54-55 says the same sealed bytes over any pipe are one
  frame. `send` puts base64 into a channel, and the receive handler hands the content
  up as it is (`delivery_bearer.hpp` 102-108), while the mesh bearer hands up decoded
  bytes (`ble_module_bearer.hpp` 38). The copies have different identities, and both
  are announced.

Two more statements of the source that the models contradict, without a run:

- `loam_core_impl.cpp` 266-269 says a later `start()` must not reset the status to
  "Connecting...". After `stop()` it does, over bearers that are running and have
  nothing left to report. `ConnectingIsBusy` is stated for nodes that have never been
  up, for that reason.
- `loam_core_impl.h` 50 says a topic already joined keeps its mode until the node
  restarts. Sending looks the mode up for every frame; `RoutedUnlessFlipped` excuses it.

Conditions the properties carry, which a reader of the code should know:

- `JoinedUnlessRestartFailed`: after a restart that failed, `stop()` and `start()`
  bring the node up again with the pending topics only. Topics joined earlier
  are not joined until the next restart.
- `RoutedUnlessFlipped` is about topics joined on the delivery bearer. `send` asks for no
  join (`delivery_bearer.hpp` 227-244), and a topic joined while the bearer was
  switched off was never joined on it: once it is switched on, a frame of that topic
  goes out on a channel that was never created.
- `JoinedUnlessRestartFailed`, `AppTopicsJoined`: the calls that subscribe and create a
  channel are asynchronous and their replies are ignored (`delivery_bearer.hpp` 293-296),
  so "joined" means that the node was asked, not that it agreed.
- `SignedAsChosen` says who made a signature only for those a key can be read from. The
  wrong-card test of `finalizeKeycard` passes a signature that carries none, whichever
  card made it, and the comment at `loam_core_impl.cpp` 734-736 says the keycard
  module returns such signatures.
- `UnlockedIsStored`, `StatusIsTold`: `writeJsonFile` tests its stream before the
  buffer is written out, so a disk that is full at that point leaves a torn vault
  in place while the call reports success; the phrase is then only on the
  user's paper.
- `KeysKept`, `SignsAsChosen`, `SignedAsChosen`: `identities.json` is written in place, and
  a file cut short is replaced by a store with a new device key. So is one that is
  missing or cannot be opened when the process starts (`loam_identity.hpp` 281): the
  new store is saved over it at once, with all other identities gone.
- `StopAsksNoMore`: an answer to a fetch begun before `stop()` is applied after it, and
  opens servers and connections that stay open until the next `start()` and `stop()`.
- `ConnectingIsBusy`: a `createNode` that fails is told to no app; the status stays
  "Connecting...", and calling `start()` again only re-announces it. It takes `stop()`
  and `start()` to try once more.
- `AppTopicsJoined`: a topic joined while the delivery bearer is switched off is not
  on the node after it is switched on, unless some app joins it again.
- `FragmentsRejoin`: fragments written by centrals come with an empty address, so two
  centrals share reassembly keys; a frame of more than 255 fragments is never put
  together as sent, because the count is one byte.
- `LiveIsListed`, `RoutesAgree`: a cleanup erases whatever link its address has at that
  time, so the late disconnect of an old link forgets its successor. Links are found
  by address, while `mesh_radio_qt.hpp` 11 says routing is by node id: a node that
  comes back under a new address loses its route when the old link goes, and is
  still listed by `peers()`. So rotating addresses, which that comment is about, are
  covered only as far as no device in reach rotates.
- `LiveIsListed` counts a link that reported an error as given up. Its cleanup forgets it
  without disconnecting it (`mesh_radio_qt.cpp` 115), so `stop()` does not reach it.
- `RadioInv`: a route can outlive the link it was made for. If two ids are announced from one
  address, one after the other, the link goes, and the address is dialled again, the
  first id still leads to it before it is ready. What is sent then is queued, `drain`
  returns early (`mesh_radio_qt.cpp` 156) without a nudge, and `onServiceStateChanged`
  does not drain when the link becomes ready: the queue waits for the next frame
  sent to that link.

Seen while modelling, outside the properties:

- `join()` before `start()` builds the bearers from the defaults; the configuration of the
  `start()` after it is ignored, `useDelivery:false` included (`loam_core_impl.cpp` 54-55).
- With neither delivery nor the Shrooms mesh (Bluetooth only, or nothing) no path reports
  "Connected", and the status stays "Connecting..." (`loam_core_impl.cpp` 279-283);
  `ConnectingIsBusy` is stated for configurations with delivery.
- During a restart by the watchdog the status stays "Connected" and frames are dropped.
- The comment at `mesh_radio_qt.cpp` 153 says one fragment at a time. The nudge and the
  report of a write both clear the flag, so a second may be written before the first
  is out. A nudge that comes after a cleanup may write through a service that is gone.
- A link whose service is missing stays listed, so its device is not dialled again.
- An announce is answered by an announce, without an end, between two desktops that
  both name their link. The device with the higher address never makes a link, so it
  does not learn the other's id.
- A reader that meets a violation drops the good frames that came in the same read,
  and keeps the ones that came in an earlier read. Good peers do not violate
  (`GoodPeersKept`), so no frame of theirs is lost this way.

## 7. Plan

Done, in the order of importance: receive path with its abstract specification and
proofs; delivery bearer and proofs; facade; the meshes; identities and keycards; HD
root; payload decoding with its refinement and proofs, the BLE radio and the Shrooms
wire; proofs of the facade; proofs of the keycard delegation with the identity store,
of the BLE radio and gossip, and of the Shrooms wire.

Next, to prove:

1. The safety halves of the liveness properties: a measure that each relay of a flood
   and each step of a fetch lowers, so that only fairness is left to TLC.
2. `BleMesh`: how far a flood gets when there are more machines than hops.
3. `HdRoot`: a theorem for what its properties excuse, as `StopAsksNoMore` is for
   `ShroomsMesh`, so that the excuse is shown to be the only one.

Next, to model: signatures of a request with two refs in `Keycard`; `BleMesh` over
`BleRadio` by an abstract link both agree on.
