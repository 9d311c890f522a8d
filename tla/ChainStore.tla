----------------------------- MODULE ChainStore -----------------------------
(***************************************************************************)
(* The blocks of an anvil node beside its database, and evm_snapshot and    *)
(* evm_revert over both: do_mine_block, create_snapshot and revert_snapshot *)
(* of anvil/src/eth/backend/mem/mod.rs, with BlockchainStorage of           *)
(* mem/storage.rs and Snapshots of evm/src/executor/snapshot.rs, on the     *)
(* clock of TimeManager, which do_mine_block asks and evm_revert resets.    *)
(* A block's hash is a function of its contents, so the block stands for    *)
(* its hash. Requests run on threads of their own, one lock at a time.      *)
(***************************************************************************)
EXTENDS TimeManager, FiniteSets, Functions

CONSTANTS
    Tx,         \* transactions
    Keeper,     \* transaction_block_keeper
    MaxNumber, MaxSnapshots,    \* bounds
    None

ASSUME ChainAssumption ==
    Keeper \in Nat \ {0} /\ MaxNumber \in Nat /\ MaxSnapshots \in Nat

VARIABLES
    blocks, hashes, best_hash, best_number, transactions,   \* BlockchainStorage
    number,                                                 \* env.block.number
    db, next_id, snapshots,                                 \* MemDb
    active_snapshots,
    task,       \* where each request is
    taken,      \* chain and state when evm_snapshot returned the id
    reverted    \* the last id for which evm_revert returned true

storage == <<blocks, hashes, best_hash, best_number, transactions>>
dbVars == <<db, next_id, snapshots>>
vars == <<storage, number, timeVars, dbVars, active_snapshots, task, taken, reverted>>

(* Requests that may be under way at the same time; any of them may mine. *)
Client == Miners

NoFun == [x \in {} |-> x]
Put(f, k, v) == [x \in DOMAIN f \cup {k} |-> IF x = k THEN v ELSE f[x]]
Without(f, S) == [x \in DOMAIN f \ S |-> f[x]]
Idle == [at |-> "idle"]
AtRest == \A c \in Client : task[c] = Idle
Go(c, t) == task' = [task EXCEPT ![c] = t]

Genesis == [number |-> 0, parent |-> None, timestamp |-> StartTime, txs |-> <<>>, state |-> <<>>]

Init ==
    /\ blocks = {Genesis} /\ hashes = [n \in {0} |-> Genesis] /\ best_hash = Genesis
    /\ best_number = 0 /\ transactions = NoFun
    /\ TimeInit /\ number = 0
    /\ db = [txs |-> <<>>, block_hashes |-> NoFun] /\ next_id = 0 /\ snapshots = NoFun
    /\ active_snapshots = NoFun
    /\ task = [c \in Client |-> Idle] /\ taken = NoFun /\ reverted = None

-----------------------------------------------------------------------------
(* do_mine_block: the environment and the clock are read, the timestamp     *)
(* taken and the parent read, the transactions executed on the database,    *)
(* the block stored.                                                        *)
MineBegin(c, txs) ==
    /\ task[c] = Idle /\ number < MaxNumber
    /\ Compute(c)
    /\ Go(c, [at |-> "stamp", number |-> number + 1, txs |-> txs])
    /\ UNCHANGED <<storage, number, dbVars, active_snapshots, taken, reverted>>

MineStamp(c) ==
    /\ task[c].at = "stamp"
    /\ Take(c)
    /\ Go(c, [at |-> "execute", number |-> task[c].number, timestamp |-> stamping[c].next,
              parent |-> best_hash, txs |-> task[c].txs])
    /\ UNCHANGED <<storage, number, dbVars, active_snapshots, taken, reverted>>

(* A transaction that was executed before is invalid now. *)
Valid(t) == t \notin {db.txs[i] : i \in 1 .. Len(db.txs)}

Included(txs) == SelectSeq(txs, Valid)

MineExecute(c) ==
    LET t == task[c]
        included == Included(t.txs)
        block == [number |-> t.number, parent |-> t.parent, timestamp |-> t.timestamp,
                  txs |-> included, state |-> db.txs \o included]
    IN  /\ t.at = "execute"
        /\ db' = [txs |-> block.state, block_hashes |-> Put(db.block_hashes, t.number, block)]
        /\ Go(c, [at |-> "store", block |-> block])
        /\ UNCHANGED <<storage, number, timeVars, next_id, snapshots, active_snapshots,
                       taken, reverted>>

(* The transactions of the block that falls out of the window go. *)
Outdated(bs, hs, n) ==
    IF Cardinality(bs) > Keeper /\ n - Keeper \in DOMAIN hs
    THEN Range(hs[n - Keeper].txs) ELSE {}

MineStore(c) ==
    LET b == task[c].block
    IN  /\ task[c].at = "store"
        /\ best_number' = b.number /\ best_hash' = b
        /\ blocks' = blocks \cup {b} /\ hashes' = Put(hashes, b.number, b)
        /\ transactions' =
              Without([t \in DOMAIN transactions \cup Range(b.txs) |->
                           IF t \in Range(b.txs) THEN b ELSE transactions[t]],
                      Outdated(blocks', hashes', b.number))
        /\ number' = b.number
        /\ Go(c, Idle)
        /\ UNCHANGED <<timeVars, dbVars, active_snapshots, taken, reverted>>

-----------------------------------------------------------------------------
(* create_snapshot: the height is read before the lock of the database is   *)
(* awaited, and recorded after it is given back.                            *)
SnapshotBegin(c) ==
    /\ task[c] = Idle /\ next_id < MaxSnapshots
    /\ Go(c, [at |-> "snapshot", num |-> number, hash |-> best_hash])
    /\ UNCHANGED <<storage, number, timeVars, dbVars, active_snapshots, taken, reverted>>

SnapshotDb(c) ==
    /\ task[c].at = "snapshot"
    /\ snapshots' = Put(snapshots, next_id, db) /\ next_id' = next_id + 1
    /\ Go(c, [at |-> "activate", id |-> next_id, num |-> task[c].num, hash |-> task[c].hash])
    /\ UNCHANGED <<storage, number, timeVars, db, active_snapshots, taken, reverted>>

SnapshotEnd(c) ==
    /\ task[c].at = "activate"
    /\ active_snapshots' = Put(active_snapshots, task[c].id,
                               [num |-> task[c].num, hash |-> task[c].hash])
    /\ taken' = Put(taken, task[c].id, [chain |-> hashes, best |-> best_hash,
                                        transactions |-> transactions, db |-> db])
    /\ Go(c, Idle)
    /\ UNCHANGED <<storage, number, timeVars, dbVars, reverted>>

-----------------------------------------------------------------------------
(* revert_snapshot, when the id is active: the newer blocks and their       *)
(* transactions go.                                                         *)
Forgotten(gone) == UNION {Range(hashes[n].txs) : n \in gone}

RevertStorage(c, id) ==
    /\ task[c] = Idle /\ id < next_id
    /\ active_snapshots' = Without(active_snapshots, {id})
    /\ IF id \in DOMAIN active_snapshots
       THEN LET a == active_snapshots[id]
                gone == {n \in DOMAIN hashes : a.num < n /\ n <= number}
            IN  /\ hashes' = Without(hashes, gone)
                /\ blocks' = blocks \ {hashes[n] : n \in gone}
                /\ transactions' = Without(transactions, Forgotten(gone))
                /\ best_number' = a.num /\ best_hash' = a.hash
                /\ Go(c, [at |-> "time", id |-> id, num |-> a.num, hash |-> a.hash])
       ELSE /\ Go(c, [at |-> "db", id |-> id])
            /\ UNCHANGED storage
    /\ UNCHANGED <<number, timeVars, dbVars, taken, reverted>>

(* The time goes back to just before the block, unless it is not found,     *)
(* which ends the request.                                                  *)
RevertTime(c) ==
    LET t == task[c]
    IN  /\ t.at = "time"
        /\ IF t.hash \in blocks
           THEN /\ reset(IF t.hash.timestamp = 0 THEN 0 ELSE t.hash.timestamp - 1)
                /\ number' = t.num
                /\ Go(c, [at |-> "db", id |-> t.id])
           ELSE Go(c, Idle) /\ UNCHANGED <<timeVars, number>>
        /\ UNCHANGED <<storage, dbVars, active_snapshots, taken, reverted>>

(* Snapshots::remove. Variant for mutation testing: an id too few goes. *)
RemovedKeepsNewest(id) == {i \in DOMAIN snapshots : id <= i /\ i < next_id - 1}

Removed(id) == {i \in DOMAIN snapshots : id <= i /\ i < next_id}

(* Variant for mutation testing: the block hashes are not restored. *)
RestoredTxs(s) == [db EXCEPT !.txs = s.txs]

(* MemDb::revert *)
Restored(s) == s

RevertDb(c) ==
    LET id == task[c].id
    IN  /\ task[c].at = "db"
        /\ snapshots' = Without(snapshots, Removed(id))
        /\ IF id \in DOMAIN snapshots
           THEN db' = Restored(snapshots[id]) /\ reverted' = id
           ELSE UNCHANGED <<db, reverted>>
        /\ Go(c, Idle)
        /\ UNCHANGED <<storage, number, timeVars, next_id, active_snapshots, taken>>

Blocks == {<<>>} \cup {<<t>> : t \in Tx}
Clock == ClockStep /\ UNCHANGED <<storage, number, dbVars, active_snapshots, task, taken, reverted>>

Step(c) ==
    \/ \E txs \in Blocks : MineBegin(c, txs)
    \/ MineStamp(c) \/ MineExecute(c) \/ MineStore(c)
    \/ SnapshotBegin(c) \/ SnapshotDb(c) \/ SnapshotEnd(c)
    \/ RevertTime(c) \/ RevertDb(c)

Next ==
    \/ Clock
    \/ \E c \in Client : Step(c) \/ \E id \in 0 .. MaxSnapshots : RevertStorage(c, id)

Spec == Init /\ [][Next]_vars

(* Requests that revert to snapshots that are still there: the backend      *)
(* keeps the ids that Snapshots::remove has dropped.                        *)
LiveNext ==
    \/ Clock
    \/ \E c \in Client : \/ Step(c)
                         \/ \E id \in 0 .. MaxSnapshots :
                                id \in DOMAIN snapshots /\ RevertStorage(c, id)

SnapshotsSpec == Init /\ [][LiveNext]_vars

-----------------------------------------------------------------------------
(* At rest the parts agree: the numbers lead from genesis to the best       *)
(* block, the database is in the state after it and knows the same hashes,  *)
(* and the transactions on record are those of the last Keeper blocks of    *)
(* the chain, each under its own block.                                     *)
InStep ==
    AtRest =>
        /\ best_hash.number = best_number /\ number = best_number
        /\ DOMAIN hashes = 0 .. best_number /\ hashes[best_number] = best_hash
        /\ \A n \in 1 .. best_number : hashes[n].parent = hashes[n - 1]
        /\ blocks = Range(hashes)
        /\ db.txs = best_hash.state /\ db.block_hashes = Without(hashes, {0})
        /\ \A t \in DOMAIN transactions :
              LET b == transactions[t]
              IN  b \in blocks /\ t \in Range(b.txs) /\ b.number > best_number - Keeper

(* The step of c that ends its revert restores the moment of the snapshot.  *)
Restores(c) ==
    task[c].at = "db" /\ task[c].id \in DOMAIN snapshots /\ task'[c] = Idle
    => LET s == taken[task[c].id]
       IN  best_hash' = s.best /\ hashes' = s.chain /\ db' = s.db

(* evm_revert: "Revert the state of the blockchain to a previous snapshot". *)
(* What it returns true for is the chain and the state of that moment.      *)
RevertRestores == [][\A c \in Client : Restores(c)]_vars
=============================================================================
