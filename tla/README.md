# TLA+ models of the vanillacoin node core

This directory holds TLA+ specifications of the peer connection manager
(`src/src/tcp_connection_manager.cpp`), the mining manager
(`src/src/mining_manager.cpp`), the node configuration
(`src/src/configuration.cpp`) and the database stack facade
(`src/database/src/stack.cpp`). It also holds two abstract specifications:
the connection table, and the mining manager's two start/stop state
machines. The TLC configurations model-check them all.
TLAPS proofs cover:

- the connection manager's type and admission invariants;
- that the connection manager refines the abstract table;
- the configuration's clamp and save/load round trip;
- the mining manager's hash-rate invariant;
- that the mining manager refines the abstract state machines;
- that the facade never leaks a `stack_impl`.

## The system and its parts

| Part | Source | Role | Module |
|---|---|---|---|
| Peer connection manager | `src/src/tcp_connection_manager.cpp` | Keeps the table endpoint → `weak_ptr<tcp_connection>`. Resolves the bootstrap hosts one after another. Admits inbound transports (duplicate IP, ban, capacity). Opens outbound connections. Runs the 8 s `tick`, which prunes dead entries and tops the table up to `minimum_tcp_connections`. | `TcpConnectionManager` |
| Mining manager | `src/src/mining_manager.cpp` | Two start/stop state machines under `mutex_`, one Proof-of-Work thread and one Proof-of-Stake thread running `loop()`, the hash-rate sample, `increment_extra_nonce` and `check_work` posting to the strand. | `MiningManager` |
| Node configuration | `src/src/configuration.cpp` | `config.dat` load/save, the setters and the inbound-maximum clamp. | `Configuration` |
| Database stack facade | `src/database/src/stack.cpp`, `stack.hpp` | Owns the `stack_impl` pointer, allocated by `start()` and deleted by `stop()`, and forwards six calls through it. | `DatabaseStack` |

The two managers interact in one place. The mining loops back off while
`tcp_connections().size() == 0`, and `MiningManager` models that read as the
environment flag `peers`. Every other collaborator (address manager,
transports, chain, wallet, status sink) lives outside `src/`. It appears only
through environment actions:

- known addresses, and the expiry of the 600 s back-off;
- transports that connect or close;
- new tips, and the sync, peer and wallet-lock flags.

## Modules

### `TcpConnectionManager.tla`

The state is the table `tcp_connections`, a function from endpoints to
`[dir, status]`. The status is `connecting` (outbound, `remote_endpoint()`
throws), `open`, or `dead` (the weak_ptr expired or the transport is invalid).
Alongside it are:

- the owner's `lifecycle`;
- the timer, as `idle`, `armed`, `expired` or `cancelled`;
- the captured query list `queries` and the `resolver` flag;
- the address manager's `known` set and its back-off set `tried`;
- `tick_pc`/`tick_i`, the position inside tick's top-up loop.

Each operation is an action:

- `Start` is `start()`.
- `ResolveSucceeded`/`ResolveFailed` are the `do_resolve` callback.
- `StopCancel`/`StopClear` are the two halves of `stop()`: the cancels, then
  the clear under the lock.
- `HandleAccept` is `handle_accept`. Its three rejections change no state, so
  they are stutters. Like the code, it does not test the lifecycle: the
  acceptor that calls it lives outside the repository, so an accept may come
  before `start()` or after `stop()`.
- `Connect` is `connect()` called from outside, and `connect` is its body.
  It does not test the lifecycle either.
- `TimerExpires`, `TickAborted` and `Tick` cover the timer and `tick`. `Tick`
  is the prune plus the choice between the top-up and the re-arm.

tick holds the recursive table lock across the whole top-up loop. The loop
therefore has one step per iteration (`TickTopUp(addr)`,
`TickTopUpNoAddress`) and a final `TickTopUpDone`. While `tick_pc = "topup"`
the other lock holders are disabled, but transports keep connecting and
dying. The loop guard `TopUpContinues` is re-evaluated against the current
size, as in the C++ loop. The subtraction is on `size_t`, so a table larger
than the minimum would make the loop continue.

`MCTcpConnectionManager.tla` fixes the instances. The passing run
`tcp_safety` uses the `Mid*` instance:

- 4 endpoints `A1`, `A2`, `B1`, `D1`: `A1` and `A2` share IP `a`, `a` and `b`
  share a group, `b` is local and `d` is banned;
- 2 bootstrap hosts, resolving to `{A1, B1}` and `{A2, D1}`;
- minimum 2 and inbound maximum 2.

With this instance there are duplicate IPs, banned and local candidates, full
tables, top-ups with and without room, dead entries and a stop in the middle
of every phase. One run checks the safety properties, the liveness property
and the refinement together (309 k states, about 50 s). The violation runs
use the five-endpoint `MC*` instance, which adds a second group.

`tcp_stopped_stays_empty` asks whether the manager itself refills a table
that `stop()` cleared. An accept or outside `connect()` after `stop()` would
refill it trivially. That run therefore uses `CallersSpec`, whose steps obey
`CallersOnlyWhileStarted`: the outside callers act only between `start()`
and `stop()`. Every other run uses the unrestricted `Spec`.

### `ConnectionTable.tla`: the abstract table

This module is what spec.md 4.1 and 9 promise about the table, with no timer,
resolver, address book or lock. The state is one variable `table`, a function
from endpoints to `[dir, alive]`. The actions are:

- `Admit(ep)`: no entry has `ep`'s IP, the IP is not banned, and the table is
  below the inbound maximum;
- `Dial(ep)`: the endpoint is not banned and not yet in the table;
- `Die(ep)`: a connection dies;
- `Purge(gone)`: only dead entries are removed;
- `Clear`.

`TcpConnectionManager` instantiates it with `table <- TableView`. An entry is
alive while its status is `connecting` or `open`. The `PROPERTY`
`ConnectionTableSpec` (`CT!Spec`) says that every step of the manager is a
step of this table or leaves its view unchanged. `TransportConnected`, the
timer, the resolution chain and the top-up's skipped iterations are such
stutters.

### `DatabaseStack.tla`

The state is the member `stack_impl` (0 is null). Every `new stack_impl` gets
the next number `1 .. MaxAlloc`, so a pointer to a deleted object stays
distinguishable from the live one. The rest of the state is:

- `impl`, the life of each object;
- `impl_config`, the configuration each object was started with;
- the caller's `config`;
- the owner's position `owner` inside `start()`/`stop()` and its last
  `outcome`;
- for each client thread, its position `cpc` in a forwarding call and the
  pointer `target` it read.

The actions follow the source's branches:

- `start()` is `StartAlreadyAllocated` (it throws), then `StartAllocate`
  followed by `StartImpl`. `stack_impl_->start` may throw, and the facade
  catches nothing.
- `stop()` is `StopNotAllocated` (it throws), then `StopImpl` followed by
  `StopDelete`. `stack_impl_->stop` may throw before the delete.
- `SetPort` and `SetOperationMode` are the configuration's setters.
- `ClientCheck`, `ClientCall` and `ClientReturn` are the `if (stack_impl_)`
  test, the call and the return of `join`, `leave`, `store`, `find`, `proxy`
  and `endpoints`. These are unlocked reads, so the call goes through the
  value the test read or the value current then.

`stack_impl` itself is not in the repository: its `start`, `stop` and
forwarded calls are nondeterministic outcomes. The `on_*` callbacks only
`printf`.

### `Configuration.tla`

The state is the two members `port` (`m_network_port_tcp`, a `uint16_t`) and
`inbound_max` (`m_network_tcp_inbound_maximum`), the contents `file` of
`config.dat`, and the last `result`. The file is abstracted to the three
fields `load()` reads. Each field is `Absent` (`pt.get` returns the default),
`Malformed` (`std::stoul` throws) or a number. A file `read_json` rejects is
`Unreadable`, and `by_save` marks a file that `save()` wrote.

- `Load` follows `load()` in order: read_json, the version, the port (stored
  to 16 bits by `ToPort16`), then the inbound maximum (`ClampInbound`). A
  throw returns false and keeps what was already assigned, so a malformed
  inbound field leaves the file's port in place.
- `Save` writes the current values, or nothing: the `ofstream` is never
  checked, and `save()` returns true either way.
- `SetNetworkPortTcp` and `SetNetworkTcpInboundMaximum` are the setters; the
  second clamps.
- `EditFile` is a user editing `config.dat`.

`InboundAtLeastMinimum` is the fact that `TcpConnectionManager`'s
`InboundAssumption` on the inbound maximum rests on. The instance gives the
file a port past 16 bits (65543), an inbound maximum of 0 and one of 4, and
every malformed and absent combination.

### `MiningManager.tla`

The state has three parts:

- The owner's state: `state_pow`/`state_pos` (`m_state_pow`/`m_state_pos`),
  `caller` (a `stop()` blocked in a join) and `node_state`.
- One record per thread: the program counter `pc` over the labels of
  `loop()`, the candidate's parent `blk_prev` and stake flag, its
  `index_previous`, and the local `extra_nonce`.
- Shared data: the static `hash_previous` of `increment_extra_nonce`, the
  rate sample `hps`/`hps_timer`, the set `posted` of blocks handed to the
  strand, and the chain tip `best`.

`Start`, `Stop`, `JoinPos` and `JoinPow` are the owner's calls.
`stop_proof_of_stake()` joins while it still holds `mutex_`, so the owner
stays in `caller = "join_pos"` until the PoS thread reaches `done`. Each
thread step is one action, following the code's control flow:

- `LoopTop`, `WaitSync`, `WaitLock`, `Build`;
- `IncrementExtraNonce`, which includes the read of `get_block_index_best()`;
- `PosSign`, `PosSleep`;
- `HashTest`, the test of the hashing `while` (lines 454–460);
- `HashSolved` and `HashBatch`, the two outcomes of one scanned batch (label
  `scan`);
- `CheckWork`, `Submit`.

The test and the batch are separate steps. A stop, or the node stopping,
can fall between them: the batch then still signs a found block, or writes
the rate sample after `m_state_pow` has left `started`, and the node-state
break at line 588 ends it. `HashBatch` abstracts the batch's clock-dependent breaks into one free
choice: transactions changed and 60 s passed, or the timestamp passed the
drift bound. The chain and the node are environment actions: `NodeStopping`,
`ProcessBlock`, `NetworkBlock`, `SyncDone`, `PeersChange` and
`WalletLockChange`. `sync_ok` and `nonce_parent` are history variables that
only the properties read.

### `MiningLifecycle.tla`: the abstract state machines

spec.md 3 gives each mode a state machine over
`none|stopped -> starting -> started -> stopping -> stopped`, with the thread
handles guarded by the same lock. `MiningLifecycle` states that promise, with
no chain, wallet, nonce or rate. It has two variables:

- `state[m]`, the mode's state;
- `worker[m]`, the mode's thread: `none`, `running` or `exited`.

`start()` holds `mutex_` across `starting`, so no other thread ever sees that
state, and the abstract machine goes straight to `started`. Each step moves
every mode by one of these, or leaves it alone:

- `Launch`: start a mode that is none or stopped and has no worker;
- `Halt`: started becomes stopping;
- `Exit`: a running worker leaves `loop()`;
- `Join`: a stopping mode whose worker has exited becomes stopped.

One call may move both modes at once: `JoinPos` joins PoS and halts PoW.
`MiningManager` maps onto it with `StateView` (`m_state_pow`,
`m_state_pos`) and `WorkerView`. A thread is `none` while `pc` is `absent`,
`exited` at `done`, and `running` at every other label.

## Runs

| Run | Checks | Result |
|---|---|---|
| `tcp_safety` | `TypeOK`, `TopUpBound`, `DeadEntriesPruned`, `ConnectionTableSpec` | pass, 309 k states |
| `tcp_tick_diversity` | `TickDiversity` | violated: the group check skips connecting transports |
| `tcp_stopped_stays_empty` | `StoppedStaysEmpty` | violated: an expired tick refills the table after `stop()`, under `CallersSpec` |
| `tcp_resolution_halts` | `ResolutionHaltsOnStop` | violated: resolution goes on after `resolver_.cancel()` |
| `db_safety` | `NoLeakedImpl` | pass, 18.6 k states |
| `config_safety` | `InboundAtLeastMinimum`, `LoadRestoresSaved` | pass |
| `mining_safety` | `HashRateZeroWhenStopped`, `MiningLifecycleSpec` | pass, 2.3 M states, about 70 s |
| `mining_shutdown` | `StopCompletesOnNodeStop` | pass |
| `mining_pos_stop_hangs` | `PosStopReturns` | violated: the PoS join under `mutex_` need not return |
| `mining_unsynced_submit` | `MinedOnlyWhenSynced` | violated: a block is submitted after the sync back-off ended by shutdown |
| `mining_extra_nonce` | `ExtraNonceResetOnNewParent` | violated: the shared static `hash_previous` swallows a reset |
| `mining_stale_search` | `StaleSearchAbandoned` | violated: `index_previous` read after `create_new` |

PROJECT.json lists these violations as findings, each with the source line
and the sentence of `spec.md` it contradicts. Each property of a passing run
has a mutant: an operator placed before the definition it replaces, such as a
`>` for `>=` in the inbound limit (caught by the refinement), `<=` for `<`,
swapped arguments of the address manager's `add`, a tick that does not
re-arm, a join that keeps the rate, a setter without the clamp, a load that
drops a field, a start without the already-allocated test, or a PoS join that
detaches the thread. TLC finds every mutant's property violated.

Some definitions are type invariants or facts the proofs need, and no run
lists them. A run would add nothing, because the code's types or the shape
of the model already enforce them:

- the mining manager's and the configuration's `TypeOK`. The configuration's
  port is a `uint16_t`, so it fits 16 bits whatever `load()` does.
- `JoinedBeforeRestart`, which `MiningLifecycleSpec` implies: `Launch` needs
  no worker, and only `Join` reaches stopped.
- `NoDanglingMember`: line 70 deletes and resets the member in one
  statement.

They remain in the modules for the inductive invariants.

Bounds for the mining model:

- `MaxHeight = 1` lets the tip move once under a build, a search and a
  submission, which is all the staleness properties need.
- `MaxExtraNonce = 1` in the passing runs, and 2 in the violation runs,
  where a loop must increment without the reset it is owed.
- The shutdown run uses a fixed tip (`MaxHeight = 0`). Whether a loop exits
  does not depend on the tip. With the tip moving, the liveness check alone
  takes over three minutes. This is why safety and shutdown are two runs.

Bounds for the facade: 2 client threads, 2 allocations and 2 ports. With two
allocations a second `start()` after a full `start`/`stop` cycle reuses the
member. Two clients can hold pointers read at different times.

## Fairness

- Connection manager: the timer and the strand are weakly fair, so an armed
  timer fires, and a queued tick and its top-up loop run to completion.
  `stop()` completes once the lock is free. Peers, the clock and outside
  callers get no fairness.
- Mining manager: each worker thread's step is strongly fair. The only steps
  of a thread that can be disabled are the back-off polls. They sleep one
  second and test again, so a condition that keeps recurring is eventually
  seen. A join returns once its thread has ended (weak fairness). The owner,
  the orchestrator, the chain, the wallet and the peers get no fairness.

`CHECK_DEADLOCK FALSE` is used for the connection manager, because after
`stop()` the manager really has nothing left to do. It is also used for the
facade, whose owner stops calling once its allocations are used up.

## Proofs

`TcpConnectionManagerProofs.tla` proves the following for every value of the
constants that satisfies the module's assumptions:

- `TypeCorrect`: `Spec => []TypeOK`. It uses the inductive invariant `IInv`,
  which is `TypeOK` plus two facts: the table is finite, and a resolution is
  outstanding only while the captured query list is non-empty. The second
  fact makes the callback's `queries.front()` a configured host. Neither fact
  follows from `TypeOK` alone.
- `AdmissionSafety` and its corollaries `InboundUniqueIPHolds`,
  `InboundCapacityHolds` and `TopUpBoundHolds`. `Safe` (the three invariants)
  is inductive relative to `IInv`:
  - `handle_accept` adds a key whose IP no key has (so it is a new key), and
    only when the whole table is below the limit.
  - `connect` adds only outbound keys.
  - The prune keeps a subset and enters the top-up only with at most
    `minimum` entries.
  - A top-up `connect` can add a key only when the re-evaluated guard leaves
    room, because `TopUpBound` rules out the wrapped branch.

`InboundUniqueIP` and `InboundCapacity` are not listed in a run. Both hold
in `ConnectionTable`, because `Admit` requires a new IP and a table below
the limit. A step that broke either would therefore break
`ConnectionTableSpec` in `tcp_safety` first. The theorems establish them
directly for every value of the constants.

The lemmas are `AddEntryType`, `ShufflesType`, `ResolveRestType`,
`InboundKept`, `InboundFinite` and one per action. They rest on
`FiniteSetTheorems` and `SequenceTheorems`.

`TcpRefinementProofs.tla` proves `ImplementsConnectionTable`:
`Spec => ConnectionTableSpec`, for every value of the constants. It needs no
invariant beyond `IInv`, which supplies `TypeOK`: a status change must keep
an entry's direction. The argument has one lemma per handler:

- the accepting branch of `handle_accept` is `Admit`, because its three
  tests are the abstract guard;
- a `connect()` that starts a transport is `Dial`, and a refused one is a
  stutter;
- `ConnectionClosed` is `Die`;
- tick's prune is `Purge` of exactly the entries whose status is `dead`;
- `StopClear` is `Clear`;
- a transport finishing its connect, and every other step, leaves the view
  unchanged.

`DatabaseStackProofs.tla` proves `NoLeakedImplHolds` for every set of
clients and every `MaxAlloc`. `NoLeakedImpl` is inductive only together with
`NoDanglingMember` and `OwnerHoldsImpl`: between the two
halves of `start()` and of `stop()`, `stack_impl_` is set. Without it,
`StartImpl` and `StopDelete` could not be shown to act on the object the
first half allocated or stopped.

`MiningManagerProofs.tla` proves `HashRateZeroWhenStoppedHolds` for every
value of the constants. The batch writes the sample without testing the
loop condition, which may have been falsified since `HashTest`. The
inductive invariant therefore adds three facts:

- `PosNeverHashes`: the PoS thread never reaches the hashing labels, because
  after `increment_extra_nonce` it takes the sign/sleep branch. So only the
  PoW thread writes the sample.
- `JoinedBeforeRestart`: a mode that is none or stopped has no thread. So a
  PoW thread that writes the sample, whatever the stop flag says by then,
  finds PoW neither none nor stopped. The only step that makes PoW stopped is
  the join, which comes after the thread is done and resets the sample.
- `OwnerProtocol`, which `JoinedBeforeRestart` needs:
  - no mode rests in `starting`;
  - a mode is `stopping` exactly while `stop()` waits in that mode's join.

This protocol is what makes the step to `stopped` the join that made `pc`
`absent`. It is also what shows that `JoinPos` never finds PoW stopping. A
worker's own steps never touch the owner's state. They move only that
worker, and never to or from `absent` (lemmas `ThreadMoves` and
`ThreadKeepsJoins`).

`MiningRefinementProofs.tla` proves `ImplementsMiningLifecycle`:
`Spec => MiningLifecycleSpec`, for every value of the constants. Each lemma
argues one mode at a time:

- `Start` launches each mode it spawns. That mode's `pc` was `absent` by
  `JoinedBeforeRestart`, so the refinement rests on that invariant.
- `Stop` halts the first started mode.
- `JoinPos` and `JoinPow` join an exited worker of a stopping mode, as
  `OwnerProtocol` guarantees. `JoinPos` also halts PoW when PoW is started.
- A worker's step to `done` is `Exit`. Any other worker step leaves its view
  `running`.
- The environment's steps move neither view.

`ConfigurationProofs.tla` proves the following for every value of the
constants:

- `InboundAtLeastMinimumHolds`: the inbound maximum never falls below the
  minimum.
- `LoadRestoresSavedHolds`: a successful `load()` of a file `save()` wrote
  restores exactly the saved values.

Both rest on the inductive invariant `IInv`. It is `TypeOK` and
`InboundAtLeastMinimum`, plus `SavedInboundClamped`: a saved file holds an
inbound maximum at or above the minimum. Without that fact the clamp in
`load()` could change a saved value. It holds because `save()` writes the
member, which every path clamps. The lemmas are `Port16Facts` (the 16-bit
store keeps a value that fits), `ClampFacts`, `UserNotSaved`,
`ReadUserField` and one per action.

The following are only model-checked:

- the liveness properties `DeadEntriesPruned` and `StopCompletesOnNodeStop`.
  TLAPS 1.4.5 cannot reason about fairness or ENABLED with the installed
  backends.
- every violated property; these are counterexamples, not theorems.

Every invariant of a passing run is stated by a theorem, and so are both
refinements.

## Not modelled

- Hashing, signing, block contents and the coinbase script are abstracted
  into nondeterministic outcomes.
- The status-sink posts are left out.
- `broadcast()` changes no state of the manager.
- The data races below the model's granularity: the unlocked `size()` read of
  the table and the unsynchronised writes to the rate and the static hash.
  The model gives each read a value before or after a write. PROJECT.json
  lists these as hazards.
- A process crash in the middle of `save()`: the `ofstream` truncates
  `config.dat` before writing, but `Save` is one step. `set_args()` is left
  out because nothing reads `m_args`.
- The window in `check_work` between comparing the parent with the tip and
  posting the block is modelled but claims no property: `process_block`
  rejects a block that went stale in between.
- In the facade, the use after free of a forwarding call racing `stop()`
  (`if (stack_impl_)` then `stack_impl_->op()` with no lock). The model
  reaches it: `ClientCheck`, then `StopImpl` and `StopDelete`, then
  `ClientCall`. But nothing in this repository calls the facade from two
  threads, and no statement says it is thread-safe, so no run claims that
  calls reach a live object. PROJECT.json lists it as a hazard.
