----------------------------- MODULE AnvilNode -----------------------------
(***************************************************************************)
(* An anvil node: requests that put transactions into the pool              *)
(* (anvil/src/eth/api.rs), the miner and the service that feed the block    *)
(* producer (eth/miner.rs, service.rs), requests that mine by themselves,   *)
(* and the backend that executes and stores blocks                          *)
(* (eth/backend/mem/mod.rs, eth/backend/executor.rs).                       *)
(*                                                                         *)
(* Requests run on the threads of the runtime, and every await, or lock     *)
(* that is released, lets another one in. A transaction is executed by its  *)
(* nonce; whether it can still pay is a choice for those in MayFail.        *)
(***************************************************************************)
EXTENDS TxPool

CONSTANTS
    Sender,            \* accounts
    Miners,            \* evm_mine requests
    MayFail,           \* transactions that may be unable to pay when executed
    Routes,            \* RPCs that transactions are sent with
    Modes,             \* mining modes that the node may be set to
    max_transactions,  \* of ReadyTransactionMiner
    BlockGasLimit,
    Drops,             \* transactions that anvil_dropTransaction is called for
    MaxSends,          \* bound: how often each transaction is sent
    MaxBlocks,         \* bound on the blocks that are mined
    MaxQueue           \* bound on block_producer.queued

ASSUME NodeAssumption ==
    /\ \A h \in Hash : /\ TxOf[h].from \in Sender /\ TxOf[h].nonce \in Nat
                       /\ TxOf[h].price \in Nat /\ TxOf[h].gas \in 0 .. BlockGasLimit
    /\ Orders \subseteq Seq(Hash) /\ None \notin Hash /\ "producer" \notin Miners
    /\ MayFail \subseteq Hash /\ Drops \subseteq Hash
    /\ Routes \subseteq {"raw", "rpc"} /\ Modes \subseteq {"none", "auto", "interval"}
    /\ max_transactions \in Nat \ {0} /\ MaxSends \in Nat /\ MaxBlocks \in Nat
    /\ MaxQueue \in Nat

VARIABLES
    pool,      \* Pool.inner
    nonce,     \* nonces in the database
    blocks,    \* storage: [number, parent, txs], in the order of insertion
    send,      \* the request that sends a transaction
    sends,     \* ghost: how often each transaction has been sent
    mode,      \* miner.mode
    pendingTxs,\* has_pending_txs
    notified,  \* the listener's channel is not empty
    queued,    \* block_producer.queued
    mining,    \* the calls of do_mine_block under way, one for each miner
    accepted,  \* ghost: transactions whose sender was given a hash
    ousted     \* ghost: transactions that were found invalid, or dropped

vars == <<pool, nonce, blocks, send, sends, mode, pendingTxs, notified, queued, mining,
          accepted, ousted>>
chain == <<nonce, blocks>>
ghosts == <<accepted, ousted>>
miner == <<mode, pendingTxs, notified, queued>>

AllMiners == Miners \cup {"producer"}
Idle == [pc |-> "idle"]
NoSend == [pc |-> "idle"]

Init ==
    /\ pool = EmptyPool
    /\ nonce = [s \in Sender |-> 0] /\ blocks = <<>>
    /\ send = [h \in Hash |-> NoSend] /\ sends = [h \in Hash |-> 0]
    /\ mode \in Modes /\ pendingTxs = "unknown" /\ notified = FALSE /\ queued = <<>>
    /\ mining = [m \in AllMiners |-> Idle] /\ accepted = {} /\ ousted = {}

-----------------------------------------------------------------------------
(* Variant for mutation testing: the next nonce but one requires nothing. *)
required_markerLate(h, on_chain) ==
    IF TxOf[h].nonce <= on_chain + 1 THEN {} ELSE {<<TxOf[h].nonce - 1, TxOf[h].from>>}

(* Sending a transaction. eth_sendRawTransaction validates it and then      *)
(* reads the nonce of its sender; eth_sendTransaction first asks for the    *)
(* pending nonce, one more than the highest in the ready queue, and         *)
(* validates then.                                                          *)
required_marker(h, on_chain) ==
    IF TxOf[h].nonce <= on_chain THEN {} ELSE {<<TxOf[h].nonce - 1, TxOf[h].from>>}

Pending(s) ==
    LET mine == {h \in ToSet(ready_transactions(pool)) : TxOf[h].from = s}
    IN  IF mine = {} THEN nonce[s]
        ELSE 1 + (CHOOSE n \in {TxOf[h].nonce : h \in mine} :
                     \A h \in mine : TxOf[h].nonce <= n)

Request(h, route) ==
    /\ send[h].pc = "idle" /\ sends[h] < MaxSends
    /\ sends' = [sends EXCEPT ![h] = @ + 1]
    /\ send' = [send EXCEPT ![h] =
                   IF route = "raw" THEN [pc |-> "validate", next |-> "count"]
                   ELSE [pc |-> "validate", next |-> "add",
                         requires |-> required_marker(h, Pending(TxOf[h].from))]]
    /\ UNCHANGED <<pool, chain, miner, mining, ghosts>>

validate_pool_transaction(h) ==
    /\ send[h].pc = "validate"
    /\ send' = [send EXCEPT ![h] = IF TxOf[h].nonce < nonce[TxOf[h].from] THEN NoSend
                                   ELSE [@ EXCEPT !.pc = send[h].next]]
    /\ UNCHANGED <<pool, chain, sends, miner, mining, ghosts>>

current_nonce(h) ==
    /\ send[h].pc = "count"
    /\ send' = [send EXCEPT ![h] =
                   [pc |-> "add", requires |-> required_marker(h, nonce[TxOf[h].from])]]
    /\ UNCHANGED <<pool, chain, sends, miner, mining, ghosts>>

Add(h) ==
    /\ send[h].pc = "add"
    /\ \E order \in Orders :
         LET r == add_transaction(pool, h, send[h].requires, order)
         IN  /\ pool' = r.pool
             /\ send' = [send EXCEPT ![h] = IF r.ok /\ r.ready THEN [pc |-> "notify"]
                                            ELSE NoSend]
             /\ accepted' = IF r.ok THEN accepted \cup {h} ELSE accepted
    /\ UNCHANGED <<chain, sends, miner, mining, ousted>>

(* The lock of the pool has been released. Only the automatic miner listens. *)
notify_listener(h) ==
    /\ send[h].pc = "notify"
    /\ notified' = (notified \/ mode = "auto")
    /\ send' = [send EXCEPT ![h] = NoSend]
    /\ UNCHANGED <<pool, chain, sends, mode, pendingTxs, queued, mining, ghosts>>

anvil_drop_transaction(h) ==
    /\ pool' = drop_transaction(pool, h) /\ pool' # pool
    /\ ousted' = ousted \cup {h}
    /\ UNCHANGED <<chain, send, sends, miner, mining, accepted>>

-----------------------------------------------------------------------------
(* The miner. It is polled by the task that also handles mined blocks. *)
ServiceFree == mining["producer"].pc \notin {"stored", "removed"}

set_mining_mode(to) ==
    /\ mode' = to /\ pendingTxs' = "unknown" /\ notified' = FALSE
    /\ UNCHANGED <<pool, chain, send, sends, queued, mining, ghosts>>

anvil_set_auto_mine(enable) ==
    /\ enable # (mode = "auto")
    /\ set_mining_mode(IF enable THEN "auto" ELSE "none")

anvil_set_interval_mining(to) ==
    /\ to \in {"interval", "none"} /\ to # mode
    /\ set_mining_mode(to)

ReadyTransactionMiner ==
    /\ mode = "auto" /\ ServiceFree
    /\ notified \/ pendingTxs # "no"
    /\ notified' = FALSE
    /\ LET ready == ready_transactions(pool)
           taken == SubSeq(ready, 1, IF Len(ready) < max_transactions THEN Len(ready)
                                     ELSE max_transactions)
       IN  /\ taken # <<>> => Len(queued) < MaxQueue
           /\ pendingTxs' = IF Len(taken) >= max_transactions THEN "yes" ELSE "no"
           /\ queued' = IF taken = <<>> THEN queued ELSE Append(queued, taken)
    /\ UNCHANGED <<pool, chain, send, sends, mode, mining, ghosts>>

FixedBlockTimeMiner ==
    /\ mode = "interval" /\ ServiceFree /\ Len(queued) < MaxQueue
    /\ queued' = Append(queued, ready_transactions(pool))
    /\ UNCHANGED <<pool, chain, send, sends, mode, pendingTxs, notified, mining, ghosts>>

-----------------------------------------------------------------------------
(* Mining a block: the producer takes the next set of its queue, a request  *)
(* what is ready.                                                           *)
MineNext ==
    /\ mining["producer"].pc = "idle" /\ queued # <<>>
    /\ mining' = [mining EXCEPT !["producer"] = [pc |-> "begin", txs |-> Head(queued)]]
    /\ queued' = Tail(queued)
    /\ UNCHANGED <<pool, chain, send, sends, mode, pendingTxs, notified, ghosts>>

mine_one(m) ==
    /\ m \in Miners /\ mining[m].pc = "idle"
    /\ mining' = [mining EXCEPT ![m] = [pc |-> "begin", txs |-> ready_transactions(pool)]]
    /\ UNCHANGED <<pool, chain, send, sends, miner, ghosts>>

BestNumber == IF blocks = <<>> THEN 0 ELSE Last(blocks).number

(* do_mine_block up to the lock of the database. *)
BeginBlock(m) ==
    /\ mining[m].pc = "begin" /\ Len(blocks) < MaxBlocks
    /\ mining' = [mining EXCEPT ![m] = [pc |-> "execute", txs |-> @.txs,
                                        number |-> BestNumber + 1, parent |-> Len(blocks)]]
    /\ UNCHANGED <<pool, chain, send, sends, miner, ghosts>>

(* TransactionExecutor: each transaction in turn is included, skipped       *)
(* because of the block's gas limit, or invalid. gas_used stays what it is: *)
(* the sum that is computed after each one is dropped.                      *)
RECURSIVE Execute(_, _, _, _)
Execute(txs, nonces, gas_used, poor) ==
    IF txs = <<>> THEN [nonces |-> nonces, included |-> <<>>, invalid |-> <<>>]
    ELSE LET h == Head(txs)
             s == TxOf[h].from
             runs == TxOf[h].nonce = nonces[s] /\ h \notin poor
             rest == Execute(Tail(txs), IF runs THEN [nonces EXCEPT ![s] = @ + 1] ELSE nonces,
                             gas_used, poor)
         IN  IF gas_used + TxOf[h].gas > BlockGasLimit
             THEN Execute(Tail(txs), nonces, gas_used, poor)
             ELSE IF runs THEN [rest EXCEPT !.included = <<h>> \o @]
             ELSE [rest EXCEPT !.invalid = <<h>> \o @]

ExecuteBlock(m) ==
    /\ mining[m].pc = "execute"
    /\ \E poor \in SUBSET (MayFail \cap ToSet(mining[m].txs)) :
         LET r == Execute(mining[m].txs, nonce, 0, poor)
         IN  /\ nonce' = r.nonces
             /\ mining' = [mining EXCEPT ![m] =
                   [pc |-> "store", included |-> r.included, invalid |-> r.invalid,
                    number |-> @.number, parent |-> @.parent]]
    /\ UNCHANGED <<pool, blocks, send, sends, miner, ghosts>>

StoreBlock(m) ==
    /\ mining[m].pc = "store"
    /\ blocks' = Append(blocks, [number |-> mining[m].number, parent |-> mining[m].parent,
                                 txs |-> mining[m].included])
    /\ mining' = [mining EXCEPT ![m] = [pc |-> "stored", included |-> @.included,
                                        invalid |-> @.invalid]]
    /\ UNCHANGED <<pool, nonce, send, sends, miner, ghosts>>

(* on_mined_block takes the lock of the pool twice. *)
RemoveInvalid(m) ==
    /\ mining[m].pc = "stored"
    /\ pool' = remove_invalid(pool, mining[m].invalid)
    /\ mining' = [mining EXCEPT ![m] = [pc |-> "removed", included |-> @.included]]
    /\ ousted' = ousted \cup ToSet(mining[m].invalid)
    /\ UNCHANGED <<chain, send, sends, miner, accepted>>

PruneIncluded(m) ==
    /\ mining[m].pc = "removed"
    /\ \E order \in Orders :
         pool' = prune_markers(pool, [i \in DOMAIN mining[m].included |->
                                         Provides(mining[m].included[i])], order)
    /\ mining' = [mining EXCEPT ![m] = Idle]
    /\ UNCHANGED <<chain, send, sends, miner, ghosts>>

Mining(m) ==
    BeginBlock(m) \/ ExecuteBlock(m) \/ StoreBlock(m) \/ RemoveInvalid(m) \/ PruneIncluded(m)

Sending(h) ==
    validate_pool_transaction(h) \/ current_nonce(h) \/ Add(h) \/ notify_listener(h)

Next ==
    \/ \E h \in Hash : Sending(h) \/ \E r \in Routes : Request(h, r)
    \/ \E h \in Drops : anvil_drop_transaction(h)
    \/ \E to \in Modes : anvil_set_interval_mining(to)
    \/ \E to \in Modes : anvil_set_auto_mine(to = "auto")
    \/ ReadyTransactionMiner \/ FixedBlockTimeMiner \/ MineNext
    \/ \E m \in AllMiners : mine_one(m) \/ Mining(m)

Spec == Init /\ [][Next]_vars

-----------------------------------------------------------------------------
(* No "expect" and no assertion of the pool can fail: a marker that is      *)
(* provided is that of a ready transaction, a hash that waits for a marker  *)
(* is in the waiting queue; and nobody waits for a marker that is provided, *)
(* or a refused replacement would lose it. The iterator, which follows the  *)
(* links between them, yields every ready transaction once.                 *)
PoolSound ==
    LET yielded == ready_transactions(pool) IN
    /\ Cardinality(ToSet(yielded)) = Len(yielded)
    /\ ToSet(yielded) = {h \in Hash : IsReady(pool, h)}
    /\ \A m \in Marker : pool.provided[m] # None =>
          /\ IsReady(pool, pool.provided[m]) /\ Provides(pool.provided[m]) = m
          /\ pool.required[m] = {}
    /\ \A h \in Hash :
          /\ IsReady(pool, h) => pool.provided[Provides(h)] = h /\ ~IsWaiting(pool, h)
          /\ IsWaiting(pool, h) => pool.waiting[h].missing # {}
          /\ \A m \in Marker : h \in pool.required[m] <=>
                IsWaiting(pool, h) /\ m \in pool.waiting[h].missing

(* "An incoming transaction with a nonce > nonce on chain will require      *)
(* (nonce -1, account) first, before it is ready to be included in a        *)
(* block": nothing is ready unless every nonce between its sender's and its *)
(* own has been accepted, whichever the RPC and whatever was mined or       *)
(* dropped between the reading of a nonce and the insertion; and a          *)
(* transaction that waits for a marker is yielded after the one that        *)
(* provides it. eth_sendTransaction asks for no marker if the transaction   *)
(* before is ready, and of two such the dearer comes first.                 *)
FollowsPredecessor ==
    LET yielded == ready_transactions(pool) IN
    \A i \in DOMAIN yielded :
        LET h == yielded[i]
            s == TxOf[h].from
        IN  /\ \A n \in nonce[s] .. TxOf[h].nonce - 1 :
                  \E g \in accepted : Provides(g) = <<n, s>>
            /\ pool.ready[h].requires # {} /\ TxOf[h].nonce > nonce[s] =>
                  \E j \in 1 .. i - 1 : Provides(yielded[j]) = <<TxOf[h].nonce - 1, s>>

(* A transaction that was accepted stays in the pool until its nonce is     *)
(* used, or another of the same marker takes its place; or it is lost with  *)
(* one before it that was found invalid, or was dropped.                    *)
NothingLost ==
    \A h \in accepted :
        \/ contains(pool, h)
        \/ nonce[TxOf[h].from] > TxOf[h].nonce
        \/ \E g \in accepted \ {h} : Provides(g) = Provides(h) /\ contains(pool, g)
        \/ \E g \in ousted : TxOf[g].from = TxOf[h].from /\ TxOf[g].nonce <= TxOf[h].nonce
=============================================================================
