# TLA+ verification of EasyTier

EasyTier is a peer-to-peer mesh VPN written in Rust. This directory models the
parts of it where correctness depends on interleavings, lost messages, crashes
and long call sequences, checks them with TLC on small instances, and proves the
most important safety properties with TLAPS. Every definition is a
translation of the source; `PROJECT.json` maps it to its lines.

## The system and its parts

The mesh logic lives in `src/easytier-core` (paths below are relative to its
`src/`), the console that manages devices in `src/easytier-web`.

| part | source | modules |
|---|---|---|
| route session roles, election | `peers/route/peer_ospf_route.rs` | `SyncRouteSession`, `RouteSessions`, `RouteElection` |
| replication of route rows | same file | `RouteRows` |
| operation broker | `foundation/operation_broker.rs` | `OperationBroker` |
| data-plane session | `gateway/dataplane/session.rs` | `DataPlaneSession` |
| secure datagrams, receive window | `tunnel/secure_datagram.rs` | `DatagramWindow` |
| rate limiter | `foundation/token_bucket.rs` | `TokenBucket` |
| RPC client, server, packets | `rpc/` | `RpcCall`, `Rpc` |
| liveness of a connection | `peers/conn/peer_conn_ping.rs`, `peer_conn_liveness.rs` | `PingProbe` |
| relayed peers and their sessions | `peers/relay_peer_map.rs`, `peers/conn/peer_session.rs` | `RelayPeers` |
| address allocation | `gateway/dhcp.rs` | `Dhcp` |
| public IPv6 leases | `peers/public_ipv6/service.rs` | `PublicIpv6` |
| instance lifecycle | `instance/` | `Lifecycle` |
| credentials | `peers/credential_manager.rs`, `management/full/config_patch.rs` | `Credentials` |
| managed configurations | `easytier-web`, `client_manager/` | `ManagedConfig` |

Direct peers exchange **route rows** (peer info and connections, each with a
version) over **sync sessions**. Each node runs one `maintain_sessions` loop that
elects at most one neighbour to *initiate* a session to; each session has a task
that sends `sync_route_info` requests when there is something to send; the
receiving handler merges rows and forwards them over its own sessions. The
requests are **RPCs**: messages cut into pieces, merged at the other end, run by a
handler and answered, with a timeout at the caller. Connections are watched by
**pings** with echoed probes; peers without a connection share a root key through a
**relay handshake** and number their **datagrams** in epochs. Addresses come from a
decentralised allocator or from a peer that **leases** IPv6 addresses. Hosts that
use the mesh without an OS device submit socket **operations** to a data-plane
session, which keeps them in a broker and reports completions. One **lifecycle**
starts and stops all of this, **credentials** may be replaced while it runs, and
the web console **reconciles** the instances on a device with the rows it stores.

## Modules

**`SyncRouteSession`** - one end of a session as a record: generation ids, the two
initiator flags, `need_sync_initiator_info`, whether its task runs, and the methods
that run under its lock as operators on the record.

**`RouteSessions`** - all sessions of a mesh. `sess[n][m]` is n's session towards m.
`maint[n]` is the local state of n's loop, split at the points where a handler can
run (`Scan`, `Elect`, `Sweep`). `call[n][m]` is the outstanding RPC (`SendSync`,
`Receive`, `Admit`, then `Commit` or `Timeout`); `late` holds requests whose caller
gave up and which the peer may still handle, `MaxLate` of them at most. A session's
task may end while the session stays (`TaskEnds`): it returns when its receiver of
`sync_now` has been overrun. The sweep then stops the session, whatever its role. Link
failures, lost RPCs, missed keepalives and ended tasks count against `MaxFaults`; `ended`
remembers the sessions whose task ended since their peer was elected. Whether there are
rows to send is a free choice here.

**`RouteElection`** - the same state and operators with a pass and an exchange as
one step each, to ask what the election settles on in larger graphs.

**`RouteRows`** - the rows of one `Origin` spreading over a tree of sessions:
`row[n][k]` is the version n holds, `topo[n]` whether it knows the topology between,
`cached[n]` the version in its cached bitmap; a session has the acknowledged version,
a pending version and whether the row is newer than the time cursor. `SendSync`,
`HandleSync`, `SyncOk`, `SyncErr` are the round of `sync_route_with_peer`; `Collect`
is `clear_expired_peer`. The timestamps of the code are replaced by the order of
steps (`MarkFresh`, `MarkNewer`). `MCRouteRows` gives the tree.

**`OperationBroker`** - `op[id]` is the state of an operation, `completions` the
queue. Methods are operators from broker to broker, so that `DataPlaneSession`
composes several calls under one hold of the lock.

**`DataPlaneSession`** - extends the broker with the resource table, the operations
pending on each resource, the two reservation counters, futures and their
cancellation tokens, and the waiters. A handler is one step (one hold of the state
lock); notifying happens after the lock is dropped and is the separate step `Notify`,
with `notes` counting the threads in between. `completion_notified` takes three steps
because the code takes the lock twice and registers afterwards. A hash set of
operations is walked in any order (`Orders`).

**`DatagramWindow`** - one direction of a secure session: a sender that numbers
datagrams in epochs, a network in which copies of a sent datagram arrive at any time,
often or never, receiving tasks that check a datagram (`Precheck`), decrypt it without
the lock and commit it (`Commit`), and two receive slots with a window each. Either slot
may be found idle whenever the code looks, and is then cleared (`Evicted`). The 256 bits of
a window are the set of distances from its highest number, its width the constant `Window`.
`kept` remembers what was delivered since the current slot was taken up.

**`TokenBucket`** - the refill arithmetic with the carried fraction, `try_consume`,
and consumers that wait: `Listen`, `CheckStopped`, `TakeChunk`, sleep, `Wake`, and a
`stop` whose store and notification are two steps. `Second` is the clock resolution.

**`RpcCall`**, **`Rpc`** - the first is the promise: a call is answered at most once,
never before it was run, and ends. The second is the code: the table of inflight
requests, mergers that piece messages together at both ends, handlers, the timeout
and the clean-up task, stops, over a network that loses, duplicates and reorders
pieces. `RpcKeepsPromise` is the refinement, with the caller's outcome and the number
of executions as the mapping.

**`PingProbe`** - pinging task, receiving task and peer of one connection: the probe
tokens of one byte that come round again (`Tokens`), the three steps of
`acknowledge`, the two of `wait_for_echo`, the loss counter, a link that goes down.

**`RelayPeers`** - two peers behind a relay: sessions with root keys, handshake tasks
with attempts, backoff and lock, the table of pending handshakes, the responder's
check for a race and its store, buffered packets, failed decryptions, eviction,
`remove_peer`, restarts and lost messages.

**`Dhcp`** - the decision loop of each node, what its routes show of the others, what
the host has configured and what the node announces. **`PublicIpv6`** - a provider
whose operations copy the lease table, change the copy across an await and write it
back, and clients that acquire and renew. **`Lifecycle`** - start, stop and recovery
of the components in order, with the operation lock, the cancellation token and
futures that may be dropped at any await. **`Credentials`** - base, managed and
ephemeral credentials, the two files, a patch that validates, reserves, persists and
installs, writes of cancelled patches that land later, and restarts.
**`ManagedConfig`** - revisions, hints, direct mutations (a run asks the device and then
saves the row, a removal deletes the row and then asks the device), and the round that reads the state, asks the device what it runs, changes it by RPCs and
records the revision as applied, with failing and timed-out RPCs, reconnects and
restarts of the device.

**`MCSafety`**, **`MCServices`** - several components in one run. They share no
variable in the models, and in the code no lock or table, so their interleavings say
nothing new: each behaviour picks one component, its `focus`, and leaves the others
in their initial state. Every state and every behaviour of each component is still
explored. Where components do interact they are composed: `DataPlaneSession` runs on
`OperationBroker`'s operators, `RouteSessions` and `RouteElection` on
`SyncRouteSession`'s, and `RelayPeers` holds the session store with the relay map.

## Runs

| run | question | bounds | result |
|---|---|---|---|
| `sessions` | the role follows the election; both ends come to agree; sessions span | 2 nodes, 1 fault, 2 late requests | pass, 1.1M states |
| `election_path4` | a settled election spans a path of four | 4 nodes | **violated** |
| `rows` | nothing that must be sent is skipped; all nodes end with the last rows | path of 3, 2 events, 1 expiry per node | pass, 320k |
| `rows_bitmap` | acknowledgements and versions with the bitmap format | the same | pass, 1.0M |
| `rows_cursor` | nothing is skipped with the bitmap format | the same | **violated** |
| `safety` | broker, session, datagrams, token bucket, credentials, election: exact accounting, at most once, no excess rate, no key twice, a settled election spans | below | pass, 977k |
| `relay` | no lock or entry is orphaned; sessions come back; different keys are noticed | 2 peers, 2 tasks each, 1 fault | pass, 652k |
| `relay_race` | without faults the peers share a key | 2 peers, no fault | **violated** |
| `services` | RPC, pings, DHCP, managed configurations, lifecycle, IPv6 leases, waiters | below | pass, 805k |
| `managed_orphan` | an applied revision leaves no deleted instance running | 2 instances, 2 events | **violated** |
| `credential_restart` | a restart converges to the configuration file | 1 id, 2 keys, 2 events | **violated** |
| `public_ipv6_race` | living leases have different addresses | 2 clients, 2 slots | **violated** |

What the properties of the two composed runs say:

* `safety`. `CompletionsExact`, `NeverBack`: the broker's queue mirrors its map and no
  operation goes back. `ReservationsBalanced`: the two counters are what the operations
  hold, and within the limits. `PendingLinked`, `NoOrphanResource`: closing reaches every
  operation of a resource, and every open resource can be closed by somebody.
  `AtMostOnce`: while a slot is the current one, no datagram of its epoch or an earlier one
  is delivered twice; `RefusedWithReason`: a datagram is refused only for a reason. `RateBound`, `SleepSuffices`, `StopReaches`: no rounding creates tokens, no
  sleep is a tick short, no sleeper misses a stop. `KeysUnique`, `RestartComesUp`: no id or
  key is in use twice, and a restart finds the base credentials and, where the configuration
  file is one the instance expects, managed ones that do not conflict with them.
  `SettledSpans`: the settled sessions span the graph.
* `services`. `RpcKeepsPromise`, `NothingStuck`, `MergersDrain` of RPC; `EchoProvesLife`,
  `DeadIsClosed` of pings; `DhcpSettles` of addresses; `AppliedHolds`, `PatchSuffices`,
  `ManagedConverges` of managed configurations; `NothingLeftHalf`, `CancelStops` of the
  lifecycle; `ClientsLeased` of IPv6 leases; `NoLostWakeup`, `SessionUnblocks` of the data-plane session's waiters.

`PlaneTypeOK` and `SvcTypeOK` are the conjunctions of the components' type invariants.

### Bounds

Two nodes reach every interleaving of loop, task and handler, and a fault in any of them;
three nodes are the least with a choice of neighbour or a forwarding node; four the least
where the election leaves a gap. One fault loses a request, a response or a session; two
events lose the recovery of the first.

* Data plane: four operations in a behaviour, three at a time, are a bind, an accept, a use of
  the accepted stream and one more to compete with; id spaces end within the bound, so that exhaustion is reached.
  The waiters (two threads, one task) run in `services` with two operations of two kinds.
* Datagrams: a window of 2 and numbers up to 3 shift it by less and by more than its width;
  four epochs rotate both slots, and once more after one was cleared. Bucket: a capacity of 3, a rate of 2 per 3 ticks (so that
  fractions carry over) and requests larger than the bucket.
* RPC: two calls, requests of two or of three pieces, the latter more than a merger takes, one
  duplicated piece, two executions. Pings: three losses close (five in the code), two
  tokens that come round again.
* DHCP: two nodes, two subnets of three addresses; host failures, closed interfaces and
  lost routes count against one event. `MaxUnlucky` bounds how often a random pick hits the
  address another node is about to take; that luck ends has probability one in the code.
* IPv6: as many slots as clients, all pointing at the last slot; two events (timeouts,
  steps of time). Lifecycle: three callers, two dropped futures. Credentials: two ids,
  three keys, two events (a cancelled patch and a restart, or a failed write). Managed configurations: two instances, three sets of rows,
  two events (publications, direct mutations, failing RPCs, stops, reconnects).
* Election: every graph on three nodes, and every part of a star with a credential and a public
  leaf; no faults, as links come up in any order and passes and exchanges interleave.
* Relay: two tasks per peer, as after `remove_peer`; one attempt per task, as the next
  packet starts the next task; no buffered packets (`relay_race` has two attempts and a
  buffer). An attempt waits until nothing of the node's earlier attempts is under way. Without
  that bound acks may come one attempt late for ever, each refused by the attempt after its
  own; the pauses of 200 ms and more are what ends this in the code, and there is no time in
  the model.

Runs over quiescent or bounded systems do not check for deadlock: a mesh with nothing left
to publish, or a host that makes no more calls, stops. `sessions`, `election_path4`, the
relay runs and `managed_orphan` do check it.

### What the violated runs show

`election_path4`: `easytier/docs/credential_peer.md` says `maintain_sessions` builds a
minimum spanning tree. Each node initiates only to its first candidate, so on the path
1-3-4-2 the middle link can be left without a session and the sessions form two islands.

`rows_cursor`: with the bitmap format a round reads the cached bitmap, which
`update_my_infos` refreshes some awaits after `conn_map`. A round in between sends the old
row and moves its cursor past the new one. `build_conn_info` picks the format by size alone
("Both formats are supported, choose the more efficient one"); the list, which reads
`conn_map` itself, does not have this.

`relay_race`: the rule for crossing handshakes looks for an entry in `pending_handshakes`.
The entry is gone as soon as the ack arrives, before the task has applied it. A handshake
handled in between is answered with a key of its own, and the two peers end with different
keys. `DivergenceNoticed` (run `relay`) shows that failed decryptions end this.

`managed_orphan`: when the device does not answer what it runs, or a start that was
reported as failed succeeded after all, the round's cleanup misses an instance whose row
is gone, and the revision is recorded as applied; no later round repeats the cleanup.

`credential_restart`: the comment in `config_patch.rs` accepts that the write of a cancelled
patch may stay in the configuration file, and says that "a retry, controller reconcile, or
restart is required to converge". With the patch its reservation is gone, so a new base
credential may take an id or a key of the replacement; the next start then finds the two
files in conflict, `install_initial_managed_credentials` fails, and the instance does not
come up. `RestartComesUp` and its theorem are stated for the other restarts.

`public_ipv6_race`: the provider copies its lease table, allocates across an await and
writes the copy back. Two clients served at the same time get the same address. A test of
the repository states that two leases have different addresses, for requests one after the
other.

## Fairness

All fairness is weak, and of steps the code takes by itself: tasks of the runtime, timers,
and messages that are sent again and again. Faults are never fair and always bounded, so
liveness speaks of the time after the last of them.

* `sessions`: each loop keeps running, a session that must sync sends, a request on a live
  link is received, handled and answered, calls over a dead link time out.
* `rows`: the bitmap is refreshed, due rounds are sent, handled and answered, and links
  come back.
* `relay`: both peers keep sending, handshake tasks, backoff timers and handlers run, and
  of each type of message some arrive. Without traffic there is nothing to renew a session.
* `services`: the timeouts of RPCs and the clean-up of mergers; the two tasks and intervals
  of a connection; DHCP rounds, answers of the host and routes that arrive; heartbeats, the
  round, hints and the end of direct mutations; futures of the lifecycle that were not
  dropped; the client loop and the provider's tasks; a *cancelled* operation ends (its
  `select!` is biased towards the token), a thread that dropped the lock notifies, woken
  waiters run. No RPC message is assumed to arrive: that a call ends rests on its timeout
  alone. An operation that was not cancelled may run for ever.

`EventuallyRolesAgree` and `EventuallySessionsSpan` are claimed for behaviours in which no
session task has ended. After one has, the sweep stops its session and
`cur_dst_peer_id_to_initiate` keeps naming its peer, so the loop takes that peer for one it
initiates to and does not open the session again until the variable changes: when another
peer is elected, or when this peer leaves while a session that it opened itself is there. On
two nodes nothing need ever change it. The task of a session that only answers is not
started again either, while the loop has no candidate.

On a triangle, two nodes that are initiator to each other can keep clearing each other's
flag in lock step; agreement then needs more than weak fairness, and is claimed for two
nodes only. DHCP is claimed to settle for nodes with one default subnet: with different
ones, two nodes that see each other's address in turn may keep swapping subnets.

## Refinement

`RpcCall` says what a caller may rely on: its call is answered at most once, with an answer
only of an execution that took place, and ends. `Rpc` is shown to implement it
(`RpcKeepsPromise`), liveness included, with `outcome` for the caller and `ran` for the
executions. The number of executions is left open by the promise: a merger that expires
between duplicated pieces may run a request twice, which the code does not exclude. The
safety part of the promise, `CallSafety`, is also proved, for any number of calls, pieces
and runs (`RpcImplementsCall`).

## Proofs

The theorems hold for all values of the constants that satisfy the `ASSUME`s of the modules:
types of the constants, a positive rate, capacity and window, at least two probe tokens, peer
ids that are not 0, a `NoSession`, `NoKey` and `NobodyHolds` unlike anything they stand beside,
a tree of sessions in which no node is its own parent, instances of which every set has a
first one, and kinds of operations that the session knows. Each rests on an inductive
invariant: what a property needs beside itself to survive every step. Those that are not
properties of a run were checked by TLC on the instances of the runs before they were proved.
Some proof modules serve two or three components; their proofs share nothing but the file,
except that the session's use the broker's.

`RouteSessionsProofs` (any nodes, links and bounds):

* `TypeCorrect`: `Spec => []TypeOK`.
* `InitiatorFollowsElection`: `Spec => []InitiatorIsElected`. The inductive form is `TypeOK`
  with `RoleIsElected`, the same statement per pair of nodes (`RoleFits`): a session with the
  role is the one towards the loop's `cur`, that one has the role unless its task has ended
  since the election (`ended`), and a session without a running task is in `ended`; the last is
  what shows that a sweep stops no elected session otherwise. One lemma shows that a pass moves
  role and `cur` together, one that RPC steps never touch the role, one that late requests do
  not.

`RouteSessionsProofs`, credentials:

* `CredentialKeysUnique`, `CredentialRestart` (any ids, keys and events). `CrIInv` adds that the
  base file is the base table, and that the set a patch carries from its check to its
  installation is the reserved one, or the installed one when nothing changes, so that what
  happens while it waits for the disk is checked against it. `CredentialRestart` promises that
  an instance comes up only while the configuration file holds the installed credentials or
  those a patch is about to install (`Expected`); what a cancelled patch wrote is excluded,
  see `credential_restart`.

`RouteRowsProofs` (any nodes, tree of sessions and number of events):

* `RowsAckIsHeld`: an acknowledged version is held by the peer. `RowsSkippedIsHeld`: so is what
  the time cursor has passed, unless it is remembered as pending; this is stated for lists of
  connections, as with the bitmap it is false (`rows_cursor`). Neither survives a step alone,
  since both are written when a response arrives and speak of what the request carried.
  `RowsIInv` follows the request: what it carries is no more than the sender has and, once
  answered, no more than the peer has (`PairInv`); a row that the cursor has passed, or will have
  passed when the request under way succeeds, is held by the peer or is in that very request in
  its present version (`SkipInv`); a node that knows the topology to the origin has at least a placeholder
  for its rows, and its bitmap is no newer than they are (`NodeInv`). A version is compared with
  what a peer holds only while that peer has collected nothing; that `clear_expired_peer` may
  break this is why `EventuallySynced` is a question of its own.
* `RowsOnlyEverGrow`: no step lowers a version, except that collecting removes the rows.

`TrafficProofs`, datagrams (any window, any number of epochs, datagrams and receiving tasks):

* `DatagramTypeCorrect`, `DeliveredAtMostOnce`, `RefusalHasReason`, from one inductive
  invariant `DgInv`: beside the types it says that every slot in use has marked its highest
  number, that what is `kept` (delivered since the current slot was taken up, in its epoch or an
  earlier one) is refused by the slots as they are (`SlotsInv`), and that nothing was delivered
  again. The lemmas follow this: a refusal lasts while a window moves (`RefusalLasts`), what is
  accepted is refused from then on (`AcceptedIsRefused`), eviction keeps it (`EvictKeeps`), and
  a commit, which checks again what the precheck had checked before the decryption, keeps it
  for all slots (`CommitSlots`). Nothing is assumed of the network or of the time a slot is idle.
  The claim ends where the code's memory ends: once the current slot was cleared, after 30
  seconds without an accepted datagram, a copy of what it had accepted is accepted again.

`TrafficProofs`, rate limiter (any rate, capacity, clock resolution and consumers):

* `BucketTypeCorrect`, `BucketRateBound`, `SleepIsEnough`, `StopReachesAll`, from the
  inductive `BucketIInv`: the bucket's own part (types and the rate bound), what each
  waiting task is still owed (`Awaited`), and that a stop has reached or will reach every
  task that registered before it (`Reached`). The arithmetic is in `DivisionExact`,
  `Distribute` and `ProductGrows`, of which `RefillFacts` and `SleepLongEnough` consist: the
  carried fraction loses nothing, and rounding up a sleep never leaves it short.

`RpcProofs` (any calls, piece counts, limits, duplicates and runs):

* `RpcNeverStuck`: `RpcSpec => []NothingStuck`. Alone this is not inductive: that nothing of a
  call is left on its way says nothing of what its mergers hold. `RpcIInv` follows the
  messages instead. `RequestKept`: until the call has run, every piece of its request is under
  way or in the server's merger, and that merger has a hole. `ReplyKept`: until the caller has
  a message, an execution or a response is under way, and of the *shortest* response under way
  each piece is under way or in the caller's merger. A call may be run twice with answers of
  different lengths, and pieces of a shorter one cut a merger off; that the shortest one
  cannot be cut off is what the proof turns on.
* `RpcImplementsCall`: every step is a step of `RpcCall` or a stutter. What is needed is that
  an answer handed over comes from an execution that is counted in `ran`.

`DataPlaneTables`, `DataPlaneProofs`, operation broker (any capacity and id width):

* `QueueIsExact`: the queue holds exactly the undrained outcomes, each once. The invariant
  needs that ids from `next_id` on are unused, so that `admit` cannot collide with a queued
  id; each method is a lemma about broker records, with `WithoutFacts` for removing an id
  from the middle of the queue.
* `CapacityHolds`: only `admit` adds an entry, and below the limit.
* `OperationsNeverGoBack`: ids are never reused and operations only move forward. Both follow
  from one relation between a map and the next (`Moves`), which every method satisfies.

`DataPlaneTables`, `DataPlaneProofs`, data-plane session (any limits, ids, sizes and
waiting threads, any of the code's kinds of operations):

* `CountersBalance`, `LinksAgree`, `ResourcesReachable`, `SessionQueueIsExact`, `WakeupsArrive`,
  `SessionTypes`, from one inductive invariant `SessionIInv`. The session keeps four tables and
  two counters in step by hand, and what a call does to one is right only if the others agree:
  it gives back what the operation held, and `meta` says what that was. `TabInv` has the tables:
  for each operation (`OpInv`) that a future not told to stop has a pending operation, that a
  pending one is linked to its target, that only a pending one has a reservation, and only one
  that can still be taken or freed has bytes or a new resource; for each resource (`ResInv`) the same seen from the other side;
  and that no two outcomes hold one resource (`OneHolder`). `StopInv` is what `stop` leaves behind.
  `CountInv` is the two counters, for which `saturating_sub` is shown never to saturate.
* `SessionNeverGoesBack`: a step of the session that makes several calls of the broker, as
  closing, stopping and freeing do, still satisfies `Moves`, so that what is proved of the
  broker alone holds of it in the session.
* Calls differ little in what they do to the tables: operations leave the pending state or are
  freed, and resources are closed with them. This is one lemma in `DataPlaneTables`
  (`SettleKeeps`), of which cancelling, freeing, closing, a failed future and `stop` are cases;
  submitting, success, taking and `discard_all` have lemmas of their own.
* `retained` is a sum over a set. `Bytes` adds it up in an order nobody knows, by recursion; the
  proofs put beside it the running totals in the order of the ids, show by the least id at
  which it would fail that such totals exist, add up and are what `Bytes` gives
  (`TotalsExist`, `SumAdds`, `BytesIsSum`), and count with those. Reservations are cardinalities
  of finite sets.
* `WakeupsArrive` says `NoLostWakeup` for any threads in `completion_wait` and at most one task in
  `completion_notified` (`OneAsync`): `notify_one` wakes one of two, and the completion consumer
  is leased. Beside the property, `WakeInv` needs that a task which found no completion, and
  has not registered yet, has missed none unless a permit is stored.

`PeerProofs`, relayed peers (any tasks, attempts, keys, buffers and faults):

* `RelayNothingOrphaned`: a held `handshake_lock` and an entry of `pending_handshakes` have
  their task. The invariant adds that only a waiting task has been given an ack. It is stated
  for states with a fresh key left, as running out of keys is a bound of the model that
  `TypeOK` excludes.

`PeerProofs`, lifecycle and pings:

* `LifecycleNothingLeftHalf` (any callers and dropped futures). `LcIInv` says who holds the lock
  and, for each place a future can be dropped at, which prefix of the start or stop order
  is done (`StartedTo`, `StoppedTo`).
* `ProbeEchoIsProof` (any limit of losses, two tokens or more). Whatever may come back as an
  acknowledgement stands for a probe the peer has received (`EchoesReal`); and an
  acknowledgement half done is at most one probe behind (`OneBehind`), so that its token
  cannot come round again under it.

`ManagedProofs` (any instances, rows and number of events):

* `ManagedAppliedHolds`, `ManagedPatchSuffices`. Both speak of the current rows, while rounds
  work from rows read long before, and hints arrive in any order. What connects them is the
  set of instances each publication changed, which the code does not keep. The invariant
  `McIInv` says that such a history exists: every hint names what changed between its two
  revisions (`Published`); without a direct mutation, the device differs from the rows only
  where they changed since the base revision (`BaseHolds`); and a round that nobody has
  invalidated has read rows that are the present ones or changed since its revision, has
  visited instances that run what it read, and uses a cache that is still right (`RoundStands`,
  `RoundHolds`, `CacheHolds`). The second half of the module is the part of a round that
  changes the device, behind the fence of `begin_managed_runtime_mutation`.

The types of each component are part of its invariant; `RpcTypes`, `LifecycleTypes`,
`CredentialTypes` and `ProbeTypes` state them.

### Only model-checked

* All liveness, and with it the liveness of the refinement; `SettledSpans`, which uses
  `ENABLED`. The prover has no rules for these.
* The bounds on event counters and epochs in `McTypeOK`: they bound the model, not the code.
* That all nodes end with the last rows (`EventuallySynced`): what is proved of `RouteRows` is
  that nothing is skipped wrongly, not that it is sent.
* `SessionUnblocks` of the data-plane session: that those who wait are released is liveness;
  that no wakeup is lost is proved.
* `DhcpSettles` and the leases of `PublicIpv6` are liveness or are violated.

## What the models leave out

* Sessions: a credential check that fails between receipt and admission, and the stop of
  the whole service. A restarted process has a fresh peer id and is a new node.
* Rows: foreign-network rows, group and credential trusts, clock jumps, requests that
  arrive after their timeout, peers dead for over an hour. A link changes at both ends in
  one step. Rows of the nodes in between are assumed to spread by the same rules (`topo`).
  The comment at line 722 that acknowledgements are gone when rows are collected does not
  hold by its timings; recovery rests on the requests for missing rows and on the new
  connection row that a link change makes.
* Data plane: the consumer lease, which `runtime()` takes again even after `stop`, I/O
  deadlines, and dropping the session. One task at most waits in `completion_notified`;
  `notify_one` would wake one of two.
* Datagrams: the grace slots after a key synchronisation, and two threads that rotate the
  sender's epoch at the same time.
* RPC: compression, the choice of a transport, and a server that drops a request handler
  without an answer (the caller's timeout is the same).
* Relay: acks that come later than the next attempt, see the bounds; algorithm and
  static-key mismatches.
* Lifecycle: one instance; the manager's table of instances is left out. Credentials:
  groups, an unreadable store, and two cancelled patches whose writes are both under way.
* DHCP: parsing and events. IPv6: the choice and the change of a provider, host routes.
* Managed configurations: the webhook, rows that belong to the user or are disabled (and so
  the request that disables or enables one), late
  RPCs of a session that was replaced, revision strings that are used a second time, and
  how a hot patch is computed (its result is what matters here).

## Not modelled

| part | source | reason |
|---|---|---|
| route table, path search, wire format | `peers/route/` | functions of the rows, without state of their own |
| RPC operation session | `rpc/operation.rs` | broker and RPC are modelled, their combination is not |
| data-plane runtime | `gateway/dataplane/` | leases, flows and fragments of a user-space network stack |
| peer manager | `peers/peer_manager.rs` | packet pipelines, wiring |
| foreign networks | `peers/foreign_network` | the same route and peer logic for one more network |
| access control | `peers/acl` | sequential matching of packet headers |
| peer center | `peers/peer_center` | best-effort reports no other part depends on |
| connectors, hole punching, STUN | `connectivity/` | behaviour of NATs and sockets |
| tunnels, sockets, gateways | `tunnel/`, `socket/`, `gateway/` | framing and I/O |
| CLI, rest of the console, bindings, GUI | `src/easytier`, `src/easytier-web`, ... | I/O, pages, generated code |

The repository has some 220,000 lines, of which the models stand for about 7,600. Most of
the rest is I/O, user interfaces, bindings, configuration, and tests, where a model would
have nothing to decide; the parts above that do hold protocol state and are open to later
work are the RPC operation session, foreign networks and the peer center.
