# Verification of blazctf-2024

TLA+ specifications, TLC models and TLAPS proofs for the stateful parts of the
repository: the instance orchestrator of the challenge infrastructure with its
Docker and Kubernetes backends, and the Enterprise Blockchain challenge from
the contracts of its bridge down to the node and the EVM that it ships with.
`PROJECT.json` maps every definition to the lines it models and lists the runs,
mutants, theorems, hazards and findings.

## 1. The system

### Infrastructure (`src/infrastructure/paradigmctf.py`)

| Part | State | Operations | Talks to |
|---|---|---|---|
| Orchestrator API `ctf_server/orchestrator.py` | none of its own | create, get, delete instance; update metadata | backend, registry |
| Backends `backends/backend.py`, `docker_backend.py`, `kubernetes_backend.py` | containers and volumes, or pods | launch, prepare node, clean up, kill, prune | Docker or Kubernetes, registry |
| Registry `databases/redisdb.py`, `sqlitedb.py` | documents, external ids, expiries, metadata | register, unregister, get, list expired, update metadata | Redis or SQLite |
| Proxies `anvil_proxy.py`, `http_proxy.py` | open connections | forward single, batch, websocket and HTTP requests | registry, nodes |
| Launchers `ctf_launchers/` | none of their own | launch (create, deploy, publish), kill, get flag; daemons wait for metadata | orchestrator, nodes |

What is hard here: requests run in a thread pool, nothing is locked across two
calls to Redis or Docker, every process has a pruner thread of its own, all
launches of a team share one instance id and therefore container names, and a
call may fail or lose its reply at any point.

### Enterprise Blockchain (`src/enterprise-blockchain`)

| Part | State | Operations | Talks to |
|---|---|---|---|
| `Bridge.sol`, `BridgedERC20.sol` on two chains | custody, registrations, local tokens, message log, relayed messages | ethOut, ERC20Out, relayMessage and the three calls it makes | each other, by messages |
| Relayer `relayer/main.py`, `package/anvil.py` | block cursor per chain | init, poll, scan a block, relay a message | both nodes |
| Node manager `package/anvil.py`, `package/main.py` | lock, status, pid, port and state files; processes | rpc, ready, start, kill, reset | node processes, relayer |
| anvil: pool, miner, service `foundry/anvil/src` | ready and waiting transactions, mining mode, blocks | send, drop, mine in three modes | backend |
| anvil: backend `eth/backend/` | blocks, records, snapshots, clock, accounts | mine a block, snapshot, revert, set the clock, cheat calls, dump and load | EVM |
| revm `revm/crates` | journal, frames, gas, cached accounts | transact, call, create, the host instructions, commit | database |

What is hard here: two relayer tasks interleave with users' transactions and
the process may die and start again; nodes are started, reset and killed by
requests that see each other only through files and locks; the requests of a
node take one lock after the other; a reverted frame must leave no trace in a
journal that mixes eight kinds of entries; a cached account has four states,
and each answers differently for what is not cached.

### The challenges

Each challenge is a contract, a program or a small server on top of the
infrastructure.  The components of `PROJECT.json` name every one and why it is
not modelled.

## 2. Modules

| Module | Models |
|---|---|
| `Instances` | instance ids and the requests that name them |
| `RedisDatabase` | `redisdb.py`: one variable per Redis key family, one operator per transaction |
| `DockerDaemon` | the Docker daemon as `docker_backend.py` uses it (external) |
| `Orchestrator` | the requests and the pruners as threads over these two |
| `KubernetesBackend` | the same requests over `RedisDatabase` and a cluster of pods |
| `Bridge`, `Relayer` | the two contracts; users, relayer tasks and their faults over them |
| `TransferLedger` | abstract: value leaves, is in transit, arrives once |
| `NodeManager` | requests, resets, processes and the files they share |
| `TxPool`, `AnvilNode` | the pool; the requests, miners and block execution around it |
| `TimeManager` | the clock that gives blocks their timestamps |
| `ChainStore` | blocks, database and snapshots over `TimeManager` |
| `StateDatabase` | revm's `CacheDB` with anvil's cheat calls, history and dumps |
| `WorldState` | abstract: a map of accounts |
| `JournaledState`, `Evm` | the journal; transactions, frames and host instructions over it |
| `CallStack` | abstract: a stack of saved worlds |
| `EvmGas` | the gas counters of the frames, SSTORE metering, the refund |
| `MC*` | small instances for TLC |
| `*Proofs` | theorems, see section 4 |

### Orchestrator and KubernetesBackend

A thread is a create request (`Launches`), a delete request (`Kills`) or a
pruner (`Pruners`); `pc` says which call it makes next, and a step is one call
to Redis or Docker.  `unregister_instance` is two steps, `UnregisterGet` and
`UnregisterExec`, because the code reads the document and deletes it in a later
transaction.  `__try_delete` walks the services with `pos`; it finds containers
by name, so `handle` may be the container of another launch.  A UserData
document is identified with the request that produced it, and a name
`{id}-{service}` with the pair of the two.  `int(expires_at)` is `Seconds`,
which truncates; the clock has `TicksPerSecond` ticks a second.

Faults (`MaxFaults` of them): a Redis command is refused or its reply is lost
after it ran; a Docker call of a launch or a deletion fails, `containers.run`
also after it created the container; a failing `containers.get` raises out of
`__try_delete`, as the handler reads an unassigned variable; the servers crash.
The ghost `leaked` records the names that a fault made a deletion skip, and
forgets them when a later deletion finds or makes them free.  The properties
are claims about everything else.

The Kubernetes backend has one pod per id.  A launch creates it, polls until
it is not Pending and connects to the address it read; a kill asks for the
deletion and polls for a 404.  Both loops go by name, so they may see the pod
of another launch.  There is no clean-up of a failed launch, which `leaked`
records.

### Bridge and Relayer

`sent[c]` is the log of SendRemoteMessage events of chain `c`; a message's
place in it is its nonce, and stands for the hash that `relayedMessages` keeps.
Each transaction is mined into a block of its own, as the nodes do.  `direct`
says that the transaction was addressed to the bridge, which is what the
relayer tests before it reads a block's logs.  `held` is what the bridge
contract owns.  A token's local contract exists on the other chain iff the
token is in `local`.  `Users` are the accounts, `Zero` (`address(0)`) among
them: `ERC20Out` takes any recipient, and on the other chain the `_mint` or
`_transfer` of the token reverts for that one, so `RelayAccepted` refuses the
message and the tokens stay in custody.

Task `c` of the relayer goes through `Start` (`_init`), `Poll`, `Scan` (one
block) and `Handle` (one message).  Faults: reading a block raises
(`ScanFails`), a transaction cannot be sent (`HandleFails`), `_init` raises
(`InitFails`), the process dies (`Crash`) and is started again (`Relaunch`).
`InitFails` follows asyncio: `main` awaits the first task, so the end of the
second is not noticed; the end of the first makes `asyncio.run` cancel the
second, which ends it in `_init` or asleep but is swallowed by the bare
`except` in a round.  The ghosts `skipped` and `refused` record the messages
that are never attempted and those whose transaction reverted.

### NodeManager

The handlers are coroutines of one process, so a step runs from one suspension
to the next: a request makes L1, L2 and the relayer ready in turn (`StartNode`,
`Started`), waits for a node that it has started (`WaitUntilReady`,
`WaitRaises`) and forwards the call (`Call`).  `Reset` is one step, as nothing
in it suspends.  A status file's lock is a set of holders, because the node
inherits the descriptor.  Processes listen, dump their state and crash on their
own; one that crashed keeps its pid until it is waited for, so `fork` may fail.
`assign_port` takes the first port that is the node's own or nobody's; at the
start nodes of players that are gone (`Other`) own one of the sets `Taken`, as
nothing gives a port back, and when none is left the request fails (`NoPort`).

### TxPool and AnvilNode

`TxPool` is the pool as pure operators on a record: waiting transactions with
the markers they miss, ready ones with the links to what they unlock, adding,
replacing, pruning by markers and removing.  `AnvilNode` sends transactions
through validation, the reading of the nonce, the addition and the
notification of the miner, each a step of its own; the block producer and
`evm_mine` run `do_mine_block` in the steps between which a lock is given back:
`BeginBlock`, `ExecuteBlock`, `StoreBlock`, `RemoveInvalid`, `PruneIncluded`.
There are two routes: `eth_sendRawTransaction` ("raw") validates and then
compares with the nonce in the database, `eth_sendTransaction` ("rpc") compares
with the pending nonce, which is read from the ready queue before validation.
A transaction in `MayFail` may be unable to pay when it is executed.

### TimeManager and ChainStore

Every field of the clock has a lock of its own, so `next_timestamp` is two
steps, `Compute` and `Take`, and `set_next_block_timestamp` is two as well.
`ChainStore` extends the clock: mining reads the environment and the clock,
takes the timestamp and reads the parent, executes and stores; a snapshot reads
the height, copies the database and records both; a revert removes blocks,
moves the clock and restores the database.  A block stands for its hash.  The
ghost `taken` is the chain and the state when `evm_snapshot` returned.

### StateDatabase and WorldState

`CacheDB` keeps for every account its info, one of the states None, Touched,
StorageCleared and NotExisting, and the slots it has seen; what it does not
have it asks the database below, which is empty or a forked node (`forked`).
A transaction commits one account at a time: destroyed, created, or touched
with the slots it loaded.  `View` is what a reader sees, and the refinement
mapping to `WorldState`, a plain map of accounts.  `BackFromDisk`, `dump_state`
and `load_state` are functions of the database; `load_state` merges a dump into
any database, account by account, with the larger of the two nonces.

### JournaledState, Evm and CallStack

`JournaledState` is the journal as pure operators; `Evm` runs transactions:
bytecode is any sequence of the host instructions, so a frame at every step
reads, writes, logs, calls in one of the four schemes, creates, destroys
itself, returns or fails.  A revert is undone entry by entry (`Unwind`), so that
every `unwrap` and subtraction of it is a state.  A database error (`DbError`)
makes all frames fail.  A frame remembers what it found (`saved`), which is a
ghost.  `CallStack` is the promise: calls save the world, failing ones give it
back.  Its world is balances, nonces, storage and destructions and has no code,
so code is compared by `Rollback` only.  Two places where the code's undoing is
not exact are written into `Rollback`: the third precompile stays touched, as
the code says, and an account whose `CodeChange` is undone keeps its new code.

### EvmGas

Prices are constants with the relations that the real prices satisfy.  A
frame has the counters of `Gas`; SSTORE, memory expansion, calls with the
63/64 rule and the stipend, and the final refund change them.  What the
transaction spends, and so the cap of its refund, includes the initial cost
(`Initial`), which is charged before the first frame.  `net` is a
ghost: what the standing stores of a slot cost, less their refunds.

## 3. What TLC checks

| Run | Instance | Checks |
|---|---|---|
| `orchestrator_races` | 3 creates, 1 delete, 1 pruner, anvil and daemon, 1 fault | `IndexConsistent`, `ContainersOwned`, `VolumesOwned`, `AnsweredMeansGone`, `SoleLaunchIntact` |
| `orchestrator_live` | 2 creates, 1 delete, 1 pruner, fair | `LaunchAnswered`, `ExpiredArePruned` |
| `early_prune` | 2 creates, 1 delete, 1 pruner | `PrunedOnlyWhenExpired` is violated |
| `kubernetes_races` | 3 launches, 2 kills, 2 faults, fair | `LaunchedIsIntact`, `PodsAccounted`, `KilledIsGone`, `KillAnswered`, `LaunchAnswered` |
| `relayer_assets` | 1 or 2 tokens, ether, or a token also sent to `address(0)`, 1 or 2 faults | `Backed`, `InOrder`, `RefusalsExplained`, `ImplementsLedger` |
| `relayer_live` | 1 token, 1 fault, fair | `Settled` |
| `nodes_shared` | 2 requests, 3 processes, 1 crash, 1 reset, fair | `OneProcess`, `RelayerWired`, `ResetRestores`, `RequestAnswered` |
| `node_pool` | 3 transactions of a sender, 2 routes, 3 modes | `PoolSound`, `FollowsPredecessor`, `NothingLost` |
| `chain_snapshots` | 2 blocks above genesis, 2 snapshots | `InStep`, `Increasing`, `RevertRestores` |
| `database_worlds` | 2 accounts, 1 slot, with and without a fork | `HistorySame`, `DumpReloads`, `IsWorld` |
| `evm_frames` | 4 accounts, 1 slot, 3 nested frames | `Rollback`, `UndoSafe`, `StaticChangesNothing`, `Conserved`, `Settled`, `ImplementsCallStack` |
| `gas_metering` | 1 slot with 3 values, 3 frames, 4 stores | `NoUnderflow`, `NetMetered`, `RefundSound`, `CallsMakeNoGas` |

* `IndexConsistent`: the three views of the registry agree.
* `ContainersOwned`, `VolumesOwned`, `PodsAccounted`: nothing is forgotten
  without a fault.
* `AnsweredMeansGone`, `KilledIsGone`: a failed create or an answered delete
  leaves nothing.
* `SoleLaunchIntact`, `LaunchedIsIntact`: what is registered runs, as long as
  no second launch passed the check (Docker) or nobody kills (Kubernetes, where
  the loser of a race cleans nothing up).
* `LaunchAnswered`, `KillAnswered`, `ExpiredArePruned`, `RequestAnswered`:
  requests end, with the exceptions that their definitions name; expired
  instances go.
* `Backed`: custody equals what exists on the other side plus what is in
  transit, lost messages included; the ether of both bridges covers theirs.
* `InOrder`: a message is attempted once, in the order of nonces.
* `RefusalsExplained`: custody always covers a release; a token transfer is
  refused only if it names `address(0)` or its registration was passed over.
* `ImplementsLedger`, `ImplementsCallStack`, `IsWorld`: the refinements.
* `Settled` (Relayer): no message stays undecided while its task lives.
* `OneProcess`: a node runs once, holds its lock and is the pid on file.
* `RelayerWired`: a relayer uses the ports of its own two nodes.
* `ResetRestores`: a chain starts from the original state after a reset.
* `PoolSound`: no `expect` of the pool can fail and the iterator yields every
  ready transaction.  `FollowsPredecessor`: on both routes none is ready before
  every nonce between its sender's and its own was accepted, and one that
  requires a marker is yielded after the one that provides it.  `NothingLost`:
  an accepted transaction leaves the pool for a reason.
* `InStep`, `RevertRestores`: blocks, records, database and snapshots agree.
* `Increasing`: timestamps increase between two resets of the clock.
* `HistorySame`, `DumpReloads`: a state survives the disk, and a dump that is
  loaded into a new node, or into the one that wrote it.
* `Rollback`, `UndoSafe`: a reverted frame leaves what it found, and no step of
  the undoing panics.  `StaticChangesNothing`, `Conserved`, `Settled` (Evm):
  static calls, ether during and after a transaction.
* `NoUnderflow`, `CallsMakeNoGas`, `NetMetered`, `RefundSound`: counters, calls,
  the metering of stores, the refund.

**Bounds.**  Three creates are the least with which one launch is registered
while another loses the race and a third starts again.  Two services make every
loop of the backend take more than one turn.  `MaxTime` 2 with two ticks a
second and `Timeout` 1 lets an instance expire; `early_prune` needs 4 so that a
second instance is younger.  `MaxMessages` 3 is a registration and two
transfers: a token can go out, come back and go out again.  The bridge of the
first chain owns a unit of the token and that of the second a unit of ether, so
that a release beyond custody would be possible to pay and is seen by `Backed`,
while the first bridge has no ether and must refuse a payment.  Three pids are
one for each node of a player: with a crash `fork` fails, which is a case of
its own.  `CALL_STACK_LIMIT` 2 makes the limit reachable.  The gas prices are
small numbers with the relations of the real ones, and `Limit` is such that
every instruction can fail for lack of gas.  Requests are symmetric in
`orchestrator_races`: no definition tells them apart, and `Holder` chooses from
a set with one element.

**Scenarios.**  Several instances join a few scenarios in one state space by an
action constraint or a restricted next-state relation in the MC module; the
module itself is not changed.

* `AllOrFaults` (MCOrchestrator): with the third create under way there are no
  faults, and either a delete request or an expiry.
* `OneKind` (MCRelayer): users send one token with two faults, both tokens in
  single units with one fault, ether with one fault, or one token in single
  units, to `address(0)` as well, with one fault and three messages.
* `LongOrShort` (MCEvm): a first transaction of three instructions, or three
  short ones.
* `RequestedOrReady` (MCAnvilNode): `evm_mine` beside the interval miner for two
  transactions, or the automatic miner for three; between the two the mode
  changes at the start.
* `SmallestFirst` (MCNodeManager): of interchangeable pids and requests the
  smallest comes first.  `Receive`, which it holds back, is not fair, and for
  every start that is held back the one with the smallest free pid is possible,
  so the restriction agrees with the fairness.
* `LiveNext` (ChainStore, as `SnapshotsSpec`): reverts name snapshots that the database still
  has.  The backend keeps ids that `Snapshots::remove` drops; reverting to such
  an id moves the chain and not the database.  There is one client, which mines,
  takes snapshots and reverts in turn; with several, `create_snapshot` may
  record a height and a state of different moments, and blocks that are mined at
  the same time have the same number.  A revert resets the clock to a second
  before the best block, so the next timestamp may repeat that block's;
  `Increasing` is about the time between two resets.
* `DestroyedIsLeft` (StateDatabase, as `WorldsSpec`): cheat calls, and in a fork transactions,
  leave a destroyed account alone until it is created again.  `NotExisting`
  hides what a cheat call sets, and a later `Touched` uncovers the remote's
  slots: there `CacheDB` is not a plain map.  `DumpReloads` compares a new
  node only without a fork: a dump does not say that an account of the remote
  was destroyed, so a node that forks anew reads it again.

`DatabaseView` leaves the last operation out of the state, which no action
reads; the refinement is checked on every step all the same.

**Deadlock** is checked where the system never stops: the pruner polls for
ever, and so do the relayer tasks, a dead relayer can always be relaunched, and
an idle EVM or database stays.  The other runs end when their requests and
bounds are used up (`CHECK_DEADLOCK FALSE`).

**Fairness.**  `Orchestrator!FairSpec` and `KubernetesBackend!FairSpec` are weak
fairness of each thread's own steps: threads are scheduled by the operating
system, and Redis, Docker and Kubernetes answer; a pod is started, and a deleted
one goes, for which the cluster's control loop stands.  The clock, faults and
the launcher's metadata call are not assumed to happen.  `Relayer!FairSpec` is
weak fairness of each task, and that of `nodes_shared` of each request: the
event loop runs every task that is ready.  Users, faults, `Relaunch`, the nodes'
own steps and resets are not assumed.

**Findings.**  `early_prune`: the pruner kills by id from a list it made
earlier, so an instance launched again in between ends before the time that
`launcher.py:146` announces.

Other places where the code does not do what a comment near it says were met
while modelling and have no run.  The models follow the code.

* `update_metadata` stores metadata for an id that is not registered
  (`orchestrator.py:78` has an error for it).
* The `CodeChange` entry of the journal holds the new code, so undoing it keeps
  that code (`journaled_state.rs:71` says "Revert to previous bytecode").
* `TransactionExecutor` drops the sum of the gas used, so each transaction is
  compared with the block's limit alone (`executor.rs:107`).
* `remove_with_markers` shadows a hash and leaves the removed transaction in its
  predecessor's unlocks (`transactions.rs:606`).
* `evm_revert` leaves later snapshot ids active (`mem/mod.rs:598`), and
  `create_snapshot` reads the height before it waits for the database
  (`mem/mod.rs:589`).
* A node that refuses the first connection ends `_wait_until_ready`, which
  catches the exceptions of another library (`package/anvil.py:346`).
* `eth_sendTransaction` compares with the pending nonce (`api.rs:777`, `797`,
  `2343-2353`), so a transaction that follows a ready one requires nothing, and
  if it is dearer it is yielded first, found invalid and removed
  (`pool/mod.rs:23-25` says that a nonce above the one on chain "will require
  `(nonce -1, account)` first").  `FollowsPredecessor` is what holds on both
  routes.
* The refund of a frame may be negative: a callee that undoes its caller's
  clearing of a slot gives the refund back (`gas.rs:87` says "self.refunded is
  always positive").  `RefundSound` is what holds of the transaction.

Every property of a passing run has a mutant in `PROJECT.json`: a definition
with a plausible bug, under which TLC finds that property violated when it is
checked on its own.

## 4. What is proved

All theorems are for every value of the constants that satisfies the named
assumptions (`InstancesAssumption`, `RedisAssumption`, `DockerAssumption`,
`OrchestratorAssumption`, `KubernetesAssumption`; `BridgeAssumption`,
`RelayerAssumption`; `ManagerAssumption`; `DatabaseAssumption`;
`TimeAssumption`, `ChainAssumption`; `GasAssumption`).  They say that requests
name instances, thread sets are disjoint, `None` (`Null` in `NodeManager`) is
none of the things it stands beside, numbers are naturals, the sets that are
summed over (users, slots) are finite, `address(0)` is one of the users, there
are two chains, a token exists at its home only at the start, a forked node has an account for every address, and
that the prices are ordered as the real ones are: a set slot costs at least a
warm read, a reset one at least a cold and a warm read, and the price of a call
with value covers its stipend.

| Theorem | Statement |
|---|---|
| `OrchestratorProofs!TypeCorrect` | `Spec => []TypeOK` |
| `OrchestratorProofs!RegistryConsistent` | `Spec => []IndexConsistent` |
| `OrchestratorProofs!NoContainerForgotten` | `Spec => []ContainersOwned` |
| `OrchestratorProofs!NoVolumeForgotten` | `Spec => []VolumesOwned` |
| `OrchestratorProofs!AnswersAreTrue` | `Spec => []AnsweredMeansGone` |
| `OrchestratorProofs!SoleLaunchStaysIntact` | `Spec => []SoleLaunchIntact` |
| `BackendProofs!LaunchesStayIntact` | `Spec => []LaunchedIsIntact` |
| `BackendProofs!PodsStayAccounted` | `Spec => []PodsAccounted` |
| `BackendProofs!KilledStaysGone` | `Spec => []KilledIsGone` |
| `RelayerProofs!TypeCorrect` | `Spec => []TypeOK` |
| `RelayerProofs!RelayedInOrder` | `Spec => []InOrder` |
| `RelayerProofs!BridgeIsLedger` | `Spec => ImplementsLedger` |
| `AssetProofs!AssetsStayBacked` | `Spec => []Backed` |
| `AssetProofs!RefusedForAReason` | `Spec => []RefusalsExplained` |
| `BackendProofs!NodesRunOnce` | `NodeSpec => []OneProcess` |
| `BackendProofs!RelayersStayWired` | `NodeSpec => []RelayerWired` |
| `BackendProofs!ResetsRestore` | `NodeSpec => []ResetRestores` |
| `DatabaseProofs!DatabaseIsWorld` | `WorldsSpec => IsWorld` |
| `DatabaseProofs!HistoryStaysSame` | `WorldsSpec => []HistorySame` |
| `DatabaseProofs!DumpsReload` | `WorldsSpec => []DumpReloads` |
| `GasProofs!GasSound` | `Spec => []NoUnderflow` |
| `GasProofs!CallsGainNothing` | `Spec => CallsMakeNoGas` |
| `GasProofs!NetMetering` | `Spec => []NetMetered` |
| `GasProofs!RefundsStaySound` | `Spec => []RefundSound` |
| `ChainProofs!TimestampsIncrease` | with one miner, `TimeSpec => []Increasing` |
| `ChainProofs!ChainTimestampsIncrease` | with one client, `SnapshotsSpec => []Increasing` |
| `ChainProofs!StaysInStep` | with one client, `SnapshotsSpec => []InStep` |
| `ChainProofs!RevertsRestore` | with one client, `SnapshotsSpec => RevertRestores` |

*Orchestrator.*  `TypeInv` adds to `TypeOK` what ties a thread's fields to its
label: the target is the id of its request, a deletion's handle and an
unregistration's document belong to that id, a registered document is stored
under its own id (`ThreadOK`).  The registry needs one more fact, `FreshOK`: a
launch that has not registered is not in the registry, so that `Stamp`, which
writes `expires_at`, touches no registered deadline.  It rests on `NoReturn`:
no launch becomes fresh again.

*Ownership.*  `OwnInv` adds `UniqueNames`, that two launches never hold the same
container name at once; without it a thread that deletes by name could pass
over a container it owes.  The two claims are proved together, since a volume's
removal is refused on account of a container that somebody must own.  One
lemma covers the threads a step does not move (`MovesOthersKeep`).

*Answers.*  `AnswerInv` follows a deletion along its loop: the containers of
the services behind it are gone or leaked (`Swept`), it deletes for a launch
that creates no more (`SeenIsLate`), and a container of such a launch never
comes back (`GoneStays`).  `IntactInv` says the opposite of a launch without a
competitor: the containers it has come to are running (`Up`).  Only a thread
with a handle stops a container, the handle belongs to the launch that was
unregistered (`UniqueNames` again), and what a thread unregistered is not
registered any more.

*Kubernetes.*  `IInv` adds that a launch which has not created its pod has left
no trace (`FreshOK`), that the address a launch has read is that of its own pod
while this pod exists (`HostOwn`), and that the pod of an id that nobody has
asked to kill is that of the one launch past `create` (`UnkilledOK`).

*Relayer.*  `Inv` adds to `TypeOK` and `InOrder` the log (`LogOK`: blocks grow
along it, each message is well formed) and the tasks (`TaskOK`: what is being
handled lies in the block at the cursor, what was relayed at or before it).

*Refinement.*  `InFlight` is the set of transfers sent and not relayed,
`LastSent` the length of the logs.  A user's transaction is a `Send`, relaying
a transfer a `Deliver`, and everything else a stutter; that a transfer is not
delivered twice follows from the check of `relayedMessages`, that a
registration is invisible from the definition of `Pending`.

*Assets.*  `AssetInv` adds to `Inv` and the two claims that a token's
registration precedes its transfers in the log of its home (`TokenLog`), that a
relayed registration has its contract on the other chain (`Deployed`), and that
what a task has passed is relayed, refused, skipped or still to be done
(`Covered`).  So a refused transfer names `address(0)` or is one whose
registration, an earlier message, was not relayed, unless custody were short;
`Backed` excludes that, as a message that is in transit is a term of the sum
that custody equals.  The two claims need each other and are proved together.

*Sums.*  `SumProofs` derives what `SumFunctionOnSet` computes on a finite set:
it is zero on the empty set, changes by the term that is added or changed, and
does not depend on the order of the fold.  The induction is an argument from a
smallest counterexample, by the well-foundedness of `<` on the naturals.
`AssetProofs` and `GasProofs` assume these laws in their lemmas (`SumLaws`,
`CreditLaws`) and take them from `SumProofs` at the end.

*Nodes.*  `NodeIInv` adds to the claims the port files: the port on file belongs to
the node (`PortOwned`), is there while the lock is held (`LockedHasPort`) and
from the moment that a request has passed the node (`PassedHasPort`), so that a
relayer, which is started last, reads two ports that are assigned.  `Wired` is
`RelayerWired` for dead children too, and `FreshIsDown` keeps a reset node's
state from being written.

*Database.*  `DbInv`: every code that an account names is found, with the
account or among the contracts, and a destroyed account is the default one.
Then what is read of an address depends on its own account (`ViewAt`), every
operation replaces one account, and each step of the refinement compares two
accounts.  An account of a dump that is loaded where its nonce is not exceeded
and its slots are unknown or the same is read as before (`ImportedAccount`).
The theorems are about `WorldsSpec` (see `DestroyedIsLeft` above);
without that restriction `IsWorld` does not hold.

*Gas.*  `IInv` adds to the invariants the types, `Charged` (the gas of a
callee was charged to its caller, or is less than what the caller paid for the
call, stipend included) and `MarksNet` (the values that a frame found are net,
so a revert leads to a state that is).  The lemma `StoreIsNet` is the table of
SSTORE: price less refund is the difference it makes to `Net`.

*Refund.*  A frame's refund may be negative.  `Credit` is the sum over the slots
of the refund that a cleared slot is worth; `RefundInv` says that each frame's
refund is at least what `Credit` rose by under it, the callers' as of the call
(`CallersCover`), the running frame's as of now (`TopCovers`).  The first frame
found the original values, whose credit is zero (`FirstFrame`), so what the
transaction claims is at least the credit of the final values and no debt.

*Time.*  `ClockInv` adds that what the miner has computed is later than every
timestamp taken since the last reset, which is at most `last_timestamp`.  The
steps between `Compute` and `Take` may change the offset, the interval and the
exact timestamp but not that.  With two miners both may compute the same
timestamp, so one miner is an assumption of the theorem.  On the chain a revert
resets the clock to the timestamp of a block; `Dated` says that blocks, stored
or not yet, have numbers for timestamps.

*Chain.*  `InStep` speaks of the client at rest; `ChainInv` says what holds
between its steps.  `StorageInv`: the numbers lead from genesis to the best
block, each block names its parent, and the transactions on record are on the
chain and in the window (`Linked`, `OnRecord`).  `StateInv`: where the database
is relative to the best block at each step of a request, a block ahead between
execution and storage, and at a snapshot's moment while a revert is under way.
`SnapshotInv`: every snapshot that is live, that is not about to be removed,
still has its recorded height, and up to that height the chain is the one that
was recorded (`Restorable`); ids grow with heights, so that cutting the chain
back to one snapshot leaves what earlier ones need (`CutChain`, `SamePart`).
With several clients `InStep` does not hold (see `LiveNext` above), so one
client is an assumption here as well.

**Only model-checked**: the liveness properties, which need fairness; the pool
and everything on it (`PoolSound`, `FollowsPredecessor`, `NothingLost`), whose
operators are recursive; `Rollback`, `UndoSafe`, `StaticChangesNothing`,
`Conserved`, `Settled` and `ImplementsCallStack` of the EVM, which are about
the undoing of a journal of any length entry by entry.

## 5. Not modelled

* *The SQLite registry, the proxies, the launchers and the daemons* of the
  infrastructure.  The first lacks the methods that the pruner needs; the
  others keep no state between two calls or wait for one value.
* *A chain that is reset under a running relayer, users that are contracts
  which reject ether, transfers to the bridge's own address, tokens that are not
  plain ERC-20s, and the restart of the node manager itself.*
* *Requests of a node that only read, the nonce that `eth_sendTransaction`
  fills in when none is given, fees, tracing, impersonation, precompiles, the
  stack and the memory of the EVM.*
* *Forking*: the backend that fetches from a remote node, the handler for
  several forks, and the eviction of old states to disk.  The node manager
  starts its nodes without a fork; in `StateDatabase` a remote is a fixed map.
* *`forge script`*, the broadcasting and resuming of deployments, and the rest
  of the foundry tree: command lines, configuration, formatter, generated
  bindings, test runner with its cheatcodes, fuzzer and debugger.  These are
  text in and text out, generated, or tools that the challenge does not run,
  and they are most of the lines of the vendored tree.
* *The challenges*: what a challenge's contracts or programs get wrong is its
  puzzle, and no document says what they promise otherwise.  Several depend on
  contracts that are not in the repository.
