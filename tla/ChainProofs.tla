---------------------------- MODULE ChainProofs ----------------------------
(***************************************************************************)
(* Proofs about the chain of an anvil node, with one request under way at a *)
(* time: the parts of ChainStore agree at rest and evm_revert restores what *)
(* evm_snapshot saw, for any number of blocks and snapshots; and between    *)
(* two resets of its clock, TimeManager, block timestamps increase for      *)
(* every clock, offset, interval and exact timestamp.                       *)
(***************************************************************************)
EXTENDS ChainStore, FiniteSetTheorems, SequenceTheorems, TLAPS

-----------------------------------------------------------------------------
(* The clock of anvil                                                     *)

Computed == [next : Int, offset : Int \cup {NoTime}]

ClockTypeOK ==
    /\ wall \in Int /\ offset \in Int /\ last_timestamp \in Int
    /\ next_exact_timestamp \in Int \cup {NoTime}
    /\ interval \in Int \cup {NoTime}
    /\ setting \in Int \cup {NoTime}
    /\ stamping \in [Miners -> Computed \cup {NoTime}]
    /\ stamps \in Seq(Int)

(* The strengthening: once a block was stamped, the last timestamp is that  *)
(* of the last block, and what the miner holds between its two steps is     *)
(* later. Requests change neither, which is why they may come between the   *)
(* steps; a reset forgets the blocks.                                       *)
ClockInv ==
    /\ ClockTypeOK
    /\ stamps # <<>> => last_timestamp = stamps[Len(stamps)]
    /\ \A m \in Miners :
         stamping[m] # NoTime /\ stamps # <<>> => stamping[m].next > last_timestamp
    /\ Increasing

(* compute_next_timestamp returns a number after the last timestamp. *)
LEMMA ComputedIsLater ==
    ASSUME ClockTypeOK
    PROVE  compute_next_timestamp \in Int /\ compute_next_timestamp > last_timestamp
<1>1. Wanted \in Int
  BY SMTT(30) DEF ClockTypeOK, Wanted
<1>. QED
  BY <1>1 DEF ClockTypeOK, compute_next_timestamp

(* The clock starts in the inductive invariant. *)
LEMMA InitClock == TimeInit => ClockInv
  BY SMTT(30), TimeAssumption DEF TimeInit, ClockInv, ClockTypeOK, Increasing, Computed

(* evm_revert and evm_setTime start it again. *)
LEMMA ResetClock ==
    ASSUME ClockInv, NEW ts \in Int, reset(ts)
    PROVE  ClockInv'
<1>1. ClockTypeOK'
  BY SMTT(30) DEF reset, ClockInv, ClockTypeOK
<1>. QED
  BY SMTT(30), <1>1 DEF reset, ClockInv, Increasing

(* With one miner every step keeps the inductive invariant. *)
LEMMA NextClock ==
    ASSUME NEW miner, Miners = {miner}, ClockInv, [TimeNext]_timeVars
    PROVE  ClockInv'
<1>. USE TimeAssumption DEF ClockInv
<1>1. CASE Tick
  <2>1. /\ wall' = wall + 1
        /\ UNCHANGED <<offset, last_timestamp, next_exact_timestamp, interval, setting, stamping,
                       stamps>>
    BY Zenon, <1>1 DEF Tick
  <2>2. wall' \in Int
    BY <2>1 DEF ClockTypeOK
  <2>3. ClockTypeOK'
    BY ZenonT(30), <2>1, <2>2 DEF ClockTypeOK
  <2>. QED
    BY Zenon, <2>1, <2>3 DEF Increasing
<1>2. CASE SetNext
  BY Zenon, <1>2 DEF SetNext, ClockTypeOK, Increasing
<1>3. CASE remove_block_timestamp_interval
  BY Zenon, <1>3 DEF remove_block_timestamp_interval, ClockTypeOK, Increasing
<1>4. ASSUME NEW s \in Seconds, increase_time(s) PROVE ClockInv'
  BY SMTT(30), <1>4 DEF increase_time, ClockTypeOK, Increasing
<1>5. ASSUME NEW s \in Seconds, set_block_timestamp_interval(s) PROVE ClockInv'
  BY SMTT(30), <1>5 DEF set_block_timestamp_interval, ClockTypeOK, Increasing
<1>6. ASSUME NEW ts \in Stamps, CheckNext(ts) PROVE ClockInv'
  BY SMTT(30), <1>6 DEF CheckNext, ClockTypeOK, Increasing
<1>7. ASSUME NEW m \in Miners, Compute(m) PROVE ClockInv'
  <2>1. PICK n : n = compute_next_timestamp
    BY Zenon
  <2>2. n \in Int /\ n > last_timestamp
    BY Zenon, <2>1, ComputedIsLater
  <2>3. PICK c : c = [next |-> n, offset |-> IF next_exact_timestamp = NoTime THEN NoTime ELSE n - wall]
    BY ZenonT(30)
  <2>4. c \in Computed /\ c.next > last_timestamp
    BY SMTT(30), <2>2, <2>3 DEF Computed, ClockTypeOK
  <2>5. stamping' = [stamping EXCEPT ![m] = c]
    BY Zenon, <1>7, <2>1, <2>3 DEF Compute
  <2>6. ClockTypeOK'
    BY SMTT(30), <1>7, <2>4, <2>5 DEF Compute, ClockTypeOK
  <2>7. \A x \in Miners : stamping'[x] # NoTime => stamping'[x].next > last_timestamp'
    BY Zenon, <1>7, <2>4, <2>5 DEF Compute, ClockTypeOK
  <2>. QED
    BY Zenon, <1>7, <2>6, <2>7 DEF Compute, Increasing
<1>8. ASSUME NEW m \in Miners, Take(m) PROVE ClockInv'
  <2>1. PICK c : c = stamping[m]
    BY Zenon
  <2>2. /\ c \in Computed /\ c.next \in Int
        /\ stamps # <<>> => c.next > last_timestamp
    BY Zenon, <1>8, <2>1 DEF Take, ClockTypeOK, Computed
  <2>3. /\ last_timestamp' = c.next
        /\ stamps' = Append(stamps, c.next)
        /\ offset' = IF c.offset = NoTime THEN offset ELSE c.offset
        /\ stamping' = [stamping EXCEPT ![m] = NoTime]
    BY Zenon, <1>8, <2>1 DEF Take
  <2>4. ClockTypeOK'
    BY SMTT(30), <1>8, <2>2, <2>3 DEF Take, ClockTypeOK, Computed
  <2>5. \A x \in Miners : stamping'[x] = NoTime
    BY Zenon, <2>3 DEF ClockTypeOK
  <2>6. /\ Len(stamps') = Len(stamps) + 1
        /\ stamps'[Len(stamps) + 1] = c.next
        /\ \A i \in 1 .. Len(stamps) : stamps'[i] = stamps[i]
    BY <2>2, <2>3 DEF ClockTypeOK
  <2>7. Increasing'
    <3>1. SUFFICES ASSUME NEW i \in 1 .. Len(stamps)
                   PROVE  stamps'[i] < stamps'[i + 1]
      BY SMTT(30), <2>6 DEF Increasing, ClockTypeOK
    <3>2. CASE i = Len(stamps)
      BY SMTT(30), <2>2, <2>6, <3>2 DEF ClockTypeOK
    <3>3. CASE i # Len(stamps)
      <4>1. i \in 1 .. Len(stamps) - 1 /\ i + 1 \in 1 .. Len(stamps)
        BY SMTT(30), <3>3 DEF ClockTypeOK
      <4>. QED
        BY Zenon, <2>6, <4>1 DEF Increasing
    <3>. QED
      BY Zenon, <3>2, <3>3
  <2>. QED
    BY Zenon, <2>3, <2>4, <2>5, <2>6, <2>7 DEF ClockTypeOK
<1>9. ASSUME NEW ts \in Resets, reset(ts) PROVE ClockInv'
  BY <1>9, ResetClock
<1>10. CASE UNCHANGED timeVars
  BY Zenon, <1>10 DEF timeVars, ClockTypeOK, Increasing
<1>. QED
  BY ZenonT(30), <1>1, <1>2, <1>3, <1>4, <1>5, <1>6, <1>7, <1>8, <1>9, <1>10 DEF TimeNext, ClockStep

(* With one miner block timestamps strictly increase until the clock is     *)
(* reset: compute_next_timestamp's last correction survives every request   *)
(* that comes between the two halves of next_timestamp.                     *)
THEOREM TimestampsIncrease ==
    ASSUME NEW CONSTANT miner, Miners = {miner}
    PROVE  TimeSpec => []Increasing
<1>1. ClockInv /\ [TimeNext]_timeVars => ClockInv'
  BY Zenon, NextClock
<1>2. ClockInv => Increasing
  BY Zenon DEF ClockInv
<1>. QED
  BY InitClock, <1>1, <1>2, PTL DEF TimeSpec

-----------------------------------------------------------------------------
(* The chain                                                                *)

(* h has a block for every height up to n, which has it for its number. *)
Spans(h, n) == h = [i \in 0 .. n |-> h[i]]

Numbered(h, n) == \A i \in 0 .. n : h[i].number = i

(* Chain h leads by its numbers from genesis to the best block, at height n. *)
Linked(h, bs, n, best) ==
    /\ n \in Nat /\ Spans(h, n) /\ h[n] = best
    /\ Numbered(h, n)
    /\ \A i \in 1 .. n : h[i].parent = h[i - 1]
    /\ bs = Range(h)

(* The transactions on record are those of the last Keeper blocks. *)
OnRecord(txs, bs, n) ==
    \A t \in DOMAIN txs :
        txs[t] \in bs /\ t \in Range(txs[t].txs) /\ txs[t].number > n - Keeper

(* The chain up to a height, as the storage and as the database know it. *)
ChainTo(h, n) == [i \in 0 .. n |-> h[i]]
HashesTo(h, n) == [i \in 1 .. n |-> h[i]]

(* Database d is in the state after block hash, of height num. *)
StateAt(h, d, num, hash) ==
    /\ num \in DOMAIN h /\ hash = h[num]
    /\ d.txs = hash.state /\ d.block_hashes = HashesTo(h, num)

(* Snapshot s is the state after that block, and record r of the moment     *)
(* when evm_snapshot returned is of this part of the chain.                 *)
RecordAt(h, s, r, num, hash) ==
    /\ StateAt(h, s, num, hash)
    /\ r.best = hash /\ r.chain = ChainTo(h, num) /\ r.db = s

StorageInv ==
    Linked(hashes, blocks, best_number, best_hash) /\ OnRecord(transactions, blocks, best_number)

(* The database and the environment while the request is at t. *)
Settled == {"idle", "stamp", "execute", "snapshot", "activate"}
StateInv(t) ==
    /\ t.at \in Settled \cup {"store", "time", "db"}
    /\ t.at # "time" => number = best_number
    /\ t.at \in Settled => StateAt(hashes, db, best_number, best_hash)
    /\ t.at \in {"stamp", "execute"} => t.number = best_number + 1
    /\ t.at = "execute" => t.parent = best_hash
    /\ t.at = "store" =>
          /\ t.block.number = best_number + 1 /\ t.block.parent = best_hash
          /\ db.txs = t.block.state
          /\ db.block_hashes = Put(HashesTo(hashes, best_number), best_number + 1, t.block)
    /\ t.at \in {"snapshot", "activate", "time"} => t.num = best_number /\ t.hash = best_hash
    /\ t.at = "activate" =>
          t.id = next_id - 1 /\ t.id \in DOMAIN snapshots /\ snapshots[t.id] = db
    /\ t.at \in {"time", "db"} =>
          /\ t.id \in DOMAIN snapshots
          /\ RecordAt(hashes, snapshots[t.id], taken[t.id], best_number, best_hash)

(* The snapshots that evm_revert can restore while the request is at t: all *)
(* but one that is being taken, and none from one that is being restored.   *)
Live(t) ==
    {id \in DOMAIN snapshots :
        /\ t.at = "activate" => id # t.id
        /\ t.at \in {"time", "db"} => id < t.id}

Restorable(id) ==
    /\ id \in DOMAIN active_snapshots /\ id \in DOMAIN taken
    /\ RecordAt(hashes, snapshots[id], taken[id], active_snapshots[id].num,
                active_snapshots[id].hash)

IdsInv == next_id \in Nat /\ DOMAIN snapshots \subseteq 0 .. next_id - 1

(* They are in the order in which the chain grew. *)
SnapshotInv(ids) ==
    /\ \A id \in ids : Restorable(id)
    /\ \A i, j \in ids : i < j => active_snapshots[i].num <= active_snapshots[j].num

ChainInv(c) ==
    /\ DOMAIN task = {c} /\ IdsInv /\ StorageInv /\ StateInv(task[c])
    /\ SnapshotInv(Live(task[c]))

-----------------------------------------------------------------------------
(* Chains                                                                   *)

(* A chain that grows by a block. *)
LEMMA GrownChain ==
  ASSUME NEW h, NEW n \in Nat, Spans(h, n), NEW b, NEW g, g = Put(h, n + 1, b)
  PROVE  /\ Spans(g, n + 1)
         /\ g[n + 1] = b /\ \A i \in 0 .. n : g[i] = h[i]
         /\ Range(g) = Range(h) \cup {b}
  <1>1. DOMAIN h = 0 .. n
    BY Zenon DEF Spans
  <1>2. DOMAIN h \cup {n + 1} = 0 .. n + 1
    BY <1>1
  <1>3. g = [i \in 0 .. n + 1 |-> IF i = n + 1 THEN b ELSE h[i]]
    BY Zenon, <1>2 DEF Put
  <1>4. g[n + 1] = b /\ (\A i \in 0 .. n : g[i] = h[i]) /\ Spans(g, n + 1)
    <2>1. n + 1 \in 0 .. n + 1 /\ \A i \in 0 .. n : i \in 0 .. n + 1 /\ i # n + 1
      OBVIOUS
    <2> QED BY Zenon, <1>3, <2>1 DEF Spans
  <1>5. DOMAIN g = DOMAIN h \cup {n + 1}
    BY Zenon, <1>2, <1>3
  <1> HIDE <1>3
  <1>6. Range(g) = Range(h) \cup {b}
    BY <1>1, <1>4, <1>5 DEF Range
  <1> QED BY Zenon, <1>4, <1>6

BlocksAt(h, heights) == {h[i] : i \in heights}

(* A chain that goes back to height m. *)
LEMMA CutChain ==
  ASSUME NEW h, NEW n \in Nat, NEW m \in 0 .. n, Spans(h, n),
         Numbered(h, n), NEW gone, gone = m + 1 .. n,
         NEW g, g = Without(h, gone)
  PROVE  /\ Spans(g, m) /\ \A i \in 0 .. m : g[i] = h[i]
         /\ Range(g) = Range(h) \ BlocksAt(h, gone)
  <1>1. DOMAIN h = 0 .. n /\ DOMAIN h \ gone = 0 .. m
    BY DEF Spans
  <1>2. g = [i \in 0 .. m |-> h[i]]
    BY Zenon, <1>1 DEF Without
  <1>3. DOMAIN g = 0 .. m /\ Spans(g, m) /\ \A i \in 0 .. m : g[i] = h[i]
    BY Zenon, <1>2 DEF Spans
  <1>4. ASSUME NEW i \in 0 .. m, NEW j \in gone PROVE h[i] # h[j]
    BY DEF Numbered
  <1>5. Range(g) \subseteq Range(h) \ BlocksAt(h, gone)
    BY <1>1, <1>3, <1>4 DEF Range, BlocksAt
  <1>6. ASSUME NEW y \in Range(h) \ BlocksAt(h, gone) PROVE y \in Range(g)
    <2>1. PICK i \in 0 .. n : y = h[i]
      BY Zenon, <1>1 DEF Range
    <2>2. i \in 0 .. m
      BY Zenon, <1>1, <2>1 DEF BlocksAt
    <2> QED BY Zenon, <1>3, <2>1, <2>2 DEF Range
  <1> QED BY Zenon, <1>3, <1>5, <1>6

(* A chain has as many blocks as heights. *)
LEMMA ChainSize ==
  ASSUME NEW h, NEW n \in Nat, Spans(h, n), Numbered(h, n)
  PROVE  Cardinality(Range(h)) = n + 1
  <1>1. h \in [0 .. n -> Range(h)] /\ \A y \in Range(h) : \E i \in 0 .. n : h[i] = y
    BY Zenon DEF Range, Spans
  <1>2. \A i, j \in 0 .. n : h[i] = h[j] => i = j
    BY Zenon DEF Numbered
  <1>3. ExistsBijection(0 .. n, Range(h))
    BY Zenon, <1>1, <1>2 DEF ExistsBijection, Bijection, Surjection, Injection, IsInjective
  <1>4. IsFiniteSet(0 .. n) /\ Cardinality(0 .. n) = n + 1
    <2>1. 0 \in Int /\ n \in Int /\ ~(0 > n) /\ n - 0 + 1 = n + 1
      OBVIOUS
    <2> QED BY Zenon, <2>1, FS_Interval
  <1> QED BY Zenon, <1>3, <1>4, FS_Bijection

(* What is said of a part of the chain holds of every chain that has it. *)
LEMMA SamePart ==
  ASSUME NEW h, NEW g, NEW n \in Nat, NEW num \in 0 .. n, Spans(g, n),
         \A i \in 0 .. num : g[i] = h[i]
  PROVE  /\ ChainTo(g, num) = ChainTo(h, num) /\ HashesTo(g, num) = HashesTo(h, num)
         /\ \A d, hash : StateAt(h, d, num, hash) => StateAt(g, d, num, hash)
         /\ \A s, r, hash : RecordAt(h, s, r, num, hash) => RecordAt(g, s, r, num, hash)
  <1>1. ChainTo(g, num) = ChainTo(h, num)
    BY Zenon DEF ChainTo
  <1>2. HashesTo(g, num) = HashesTo(h, num)
    <2>1. \A i \in 1 .. num : g[i] = h[i]
      OBVIOUS
    <2> QED BY Zenon, <2>1 DEF HashesTo
  <1>3. num \in DOMAIN g /\ g[num] = h[num]
    BY DEF Spans
  <1>4. \A d, hash : StateAt(h, d, num, hash) => StateAt(g, d, num, hash)
    BY Zenon, <1>2, <1>3 DEF StateAt
  <1> QED BY Zenon, <1>1, <1>2, <1>4 DEF RecordAt

LEMMA GrownHashes ==
  ASSUME NEW h, NEW n \in Nat, Spans(h, n), NEW b
  PROVE  Put(HashesTo(h, n), n + 1, b) = HashesTo(Put(h, n + 1, b), n + 1)
  <1>1. PICK g : g = Put(h, n + 1, b)
    BY Zenon
  <1>2. g[n + 1] = b /\ \A i \in 0 .. n : g[i] = h[i]
    BY <1>1, GrownChain
  <1>3. 1 .. n + 1 = (1 .. n) \cup {n + 1} /\ \A i \in (1 .. n) \cup {n + 1} : i # n + 1 => i \in 0 .. n /\ i \in 1 .. n
    OBVIOUS
  <1>4. Put(HashesTo(h, n), n + 1, b)
        = [i \in (1 .. n) \cup {n + 1} |-> IF i = n + 1 THEN b ELSE h[i]]
    BY Zenon, <1>3 DEF Put, HashesTo
  <1>5. HashesTo(g, n + 1) = [i \in (1 .. n) \cup {n + 1} |-> IF i = n + 1 THEN b ELSE h[i]]
    BY Zenon, <1>2, <1>3 DEF HashesTo
  <1> QED BY Zenon, <1>1, <1>4, <1>5

LEMMA GrownLinked ==
  ASSUME NEW h, NEW bs, NEW n, NEW best, Linked(h, bs, n, best),
         NEW b, b.number = n + 1, b.parent = best, NEW g, g = Put(h, n + 1, b)
  PROVE  Linked(g, bs \cup {b}, n + 1, b)
  <1>1. n \in Nat /\ Spans(h, n)
    BY Zenon DEF Linked
  <1>2. Spans(g, n + 1) /\ g[n + 1] = b /\ (\A i \in 0 .. n : g[i] = h[i]) /\ Range(g) = Range(h) \cup {b}
    BY <1>1, GrownChain
  <1>3. Numbered(g, n + 1)
    BY <1>1, <1>2 DEF Linked, Numbered
  <1>4. \A i \in 1 .. n + 1 : g[i].parent = g[i - 1]
    BY SMTT(30), <1>1, <1>2 DEF Linked
  <1>5. n + 1 \in Nat /\ bs = Range(h)
    BY <1>1 DEF Linked
  <1> QED BY Zenon, <1>2, <1>3, <1>4, <1>5 DEF Linked

(* What MineStore keeps on record. *)
Grown(txs, b, out) ==
    Without([t \in DOMAIN txs \cup Range(b.txs) |-> IF t \in Range(b.txs) THEN b ELSE txs[t]], out)

LEMMA GrownRecord ==
  ASSUME NEW h, NEW bs, NEW n, NEW best, Linked(h, bs, n, best), NEW txs, OnRecord(txs, bs, n),
         NEW b, b.number = n + 1, b.parent = best, NEW g, g = Put(h, n + 1, b)
  PROVE  OnRecord(Grown(txs, b, Outdated(bs \cup {b}, g, n + 1)), bs \cup {b}, n + 1)
  <1>1. PICK out : out = Outdated(bs \cup {b}, g, n + 1)
    BY Zenon
  <1>2. PICK new : new = Grown(txs, b, out)
    BY Zenon
  <1> SUFFICES OnRecord(new, bs \cup {b}, n + 1)
    BY Zenon, <1>1, <1>2
  <1>3. SUFFICES ASSUME NEW t \in DOMAIN new
                 PROVE  /\ new[t] \in bs \cup {b} /\ t \in Range(new[t].txs)
                        /\ new[t].number > (n + 1) - Keeper
    BY Zenon DEF OnRecord
  <1>4. t \in DOMAIN txs \cup Range(b.txs) /\ t \notin out
        /\ new[t] = IF t \in Range(b.txs) THEN b ELSE txs[t]
    BY Zenon, <1>2, <1>3 DEF Grown, Without
  <1>5. n \in Nat /\ Keeper \in Nat \ {0}
    BY Zenon, ChainAssumption DEF Linked
  <1>6. CASE t \in Range(b.txs)
    BY SMTT(30), <1>4, <1>5, <1>6
  <1>7. CASE t \notin Range(b.txs)
    <2>1. new[t] = txs[t] /\ t \in DOMAIN txs
      BY Zenon, <1>4, <1>7
    <2>2. txs[t] \in bs /\ t \in Range(txs[t].txs) /\ txs[t].number > n - Keeper
      BY Zenon, <2>1 DEF OnRecord
    <2>3. PICK i \in 0 .. n : txs[t] = h[i] /\ txs[t].number = i
      BY Zenon, <2>2 DEF Linked, Numbered, Spans, Range
    <2>4. i # (n + 1) - Keeper
      <3> SUFFICES ASSUME i = (n + 1) - Keeper PROVE FALSE
        BY Zenon
      <3>1. Linked(g, bs \cup {b}, n + 1, b)
        BY Zenon, GrownLinked
      <3>2. Cardinality(bs \cup {b}) = n + 1 + 1
        BY Zenon, <1>5, <3>1, ChainSize DEF Linked
      <3>3. DOMAIN g = 0 .. n + 1 /\ g[i] = h[i]
        BY <1>5, <3>1, GrownChain DEF Linked, Spans
      <3>4. Cardinality(bs \cup {b}) > Keeper /\ (n + 1) - Keeper \in DOMAIN g
        BY SMTT(30), <1>5, <3>2, <3>3
      <3>5. Outdated(bs \cup {b}, g, n + 1) = Range(g[(n + 1) - Keeper].txs)
        BY Zenon, <3>4 DEF Outdated
      <3> QED BY Zenon, <1>1, <1>4, <2>2, <2>3, <3>3, <3>5
    <2> QED BY SMTT(30), <1>5, <2>1, <2>2, <2>3, <2>4
  <1> QED BY Zenon, <1>6, <1>7

-----------------------------------------------------------------------------
(* Requests: one lemma per step                                             *)

(* A step that leaves the chain and the snapshots alone. *)
LEMMA QuietStep ==
  ASSUME NEW c, ChainInv(c),
         UNCHANGED <<storage, next_id, snapshots, active_snapshots, taken>>,
         DOMAIN task' = {c}, Live(task[c])' = Live(task[c]), StateInv(task[c])'
  PROVE  ChainInv(c)'
  <1>1. IdsInv' /\ StorageInv'
    BY Zenon DEF ChainInv, IdsInv, StorageInv, storage
  <1>2. SnapshotInv(Live(task[c]))'
    BY Zenon DEF ChainInv, SnapshotInv, Restorable, storage
  <1> QED BY Zenon, <1>1, <1>2 DEF ChainInv

LEMMA ClockChainInv ==
  ASSUME NEW c, ChainInv(c), UNCHANGED <<storage, number, dbVars, active_snapshots, task, taken>>
  PROVE  ChainInv(c)'
  <1>1. Live(task[c])' = Live(task[c])
    BY Zenon DEF Live, dbVars
  <1>2. StateInv(task[c])'
    BY Zenon DEF ChainInv, StateInv, storage, dbVars
  <1>3. DOMAIN task' = {c}
    BY Zenon DEF ChainInv
  <1> QED BY Zenon, <1>1, <1>2, <1>3, QuietStep DEF dbVars

LEMMA MineBeginInv ==
  ASSUME NEW c, ChainInv(c), NEW txs, MineBegin(c, txs) PROVE ChainInv(c)'
  <1>1. task'[c] = [at |-> "stamp", number |-> number + 1, txs |-> txs] /\ DOMAIN task' = {c}
    BY Zenon DEF ChainInv, MineBegin, Go
  <1>2. task[c].at = "idle"
    BY DEF MineBegin, Idle
  <1>3. UNCHANGED <<storage, number, dbVars, active_snapshots, taken>>
    BY Zenon DEF MineBegin
  <1>4. Live(task[c])' = Live(task[c])
    <2>1. task'[c].at = "stamp"
      BY ONLY <1>1
    <2> QED BY Zenon, <1>2, <1>3, <2>1 DEF Live, dbVars
  <1>5. StateInv(task[c])'
    BY SMTT(30), <1>1, <1>2, <1>3 DEF ChainInv, StateInv, Settled, storage, dbVars
  <1> QED BY Zenon, <1>1, <1>3, <1>4, <1>5, QuietStep DEF dbVars

LEMMA MineStampInv ==
  ASSUME NEW c, ChainInv(c), MineStamp(c) PROVE ChainInv(c)'
  <1>1. /\ task'[c].at = "execute" /\ task'[c].number = task[c].number
        /\ task'[c].parent = best_hash /\ DOMAIN task' = {c}
    BY Zenon DEF ChainInv, MineStamp, Go
  <1>2. task[c].at = "stamp" /\ UNCHANGED <<storage, number, dbVars, active_snapshots, taken>>
    BY Zenon DEF MineStamp
  <1>3. Live(task[c])' = Live(task[c])
    BY Zenon, <1>1, <1>2 DEF Live, dbVars
  <1>4. StateInv(task[c])'
    BY Zenon, <1>1, <1>2 DEF ChainInv, StateInv, Settled, storage, dbVars
  <1> QED BY Zenon, <1>1, <1>2, <1>3, <1>4, QuietStep DEF dbVars

LEMMA SnapshotBeginInv ==
  ASSUME NEW c, ChainInv(c), SnapshotBegin(c) PROVE ChainInv(c)'
  <1>1. task'[c] = [at |-> "snapshot", num |-> number, hash |-> best_hash] /\ DOMAIN task' = {c}
    BY Zenon DEF ChainInv, SnapshotBegin, Go
  <1>2. task[c].at = "idle" /\ UNCHANGED <<storage, number, dbVars, active_snapshots, taken>>
    BY DEF SnapshotBegin, Idle
  <1>3. Live(task[c])' = Live(task[c])
    <2>1. task'[c].at = "snapshot"
      BY ONLY <1>1
    <2> QED BY Zenon, <1>2, <2>1 DEF Live, dbVars
  <1>4. StateInv(task[c])'
    BY <1>1, <1>2 DEF ChainInv, StateInv, Settled, storage, dbVars
  <1> QED BY Zenon, <1>1, <1>2, <1>3, <1>4, QuietStep DEF dbVars

(* The block that a snapshot goes back to is always found. *)
LEMMA RevertTimeInv ==
  ASSUME NEW c, ChainInv(c), RevertTime(c) PROVE ChainInv(c)'
  <1>1. task[c].at = "time" /\ UNCHANGED <<storage, dbVars, active_snapshots, taken>>
    BY Zenon DEF RevertTime
  <1>2. task[c].hash = best_hash /\ task[c].num = best_number
    BY Zenon, <1>1 DEF ChainInv, StateInv
  <1>3. best_hash \in blocks
    BY DEF ChainInv, StorageInv, Linked, Spans, Range
  <1>4. number' = best_number /\ Go(c, [at |-> "db", id |-> task[c].id])
    BY Zenon, <1>2, <1>3 DEF RevertTime
  <1>5. task'[c] = [at |-> "db", id |-> task[c].id] /\ DOMAIN task' = {c}
    BY Zenon, <1>4 DEF ChainInv, Go
  <1>6. Live(task[c])' = Live(task[c])
    <2>1. task'[c].at = "db" /\ task'[c].id = task[c].id
      BY ONLY <1>5
    <2> QED BY Zenon, <1>1, <2>1 DEF Live, dbVars
  <1>7. StateInv(task[c])'
    BY <1>1, <1>4, <1>5 DEF ChainInv, StateInv, Settled, storage, dbVars
  <1> QED BY ZenonT(30), <1>1, <1>5, <1>6, <1>7, QuietStep DEF dbVars

LEMMA MineExecuteInv ==
  ASSUME NEW c, ChainInv(c), MineExecute(c) PROVE ChainInv(c)'
  <1>1. PICK block : /\ block.number = task[c].number /\ block.parent = task[c].parent
                     /\ db'.txs = block.state
                     /\ db'.block_hashes = Put(db.block_hashes, task[c].number, block)
                     /\ Go(c, [at |-> "store", block |-> block])
    BY Zenon DEF MineExecute
  <1>2. /\ task[c].at = "execute"
        /\ UNCHANGED <<storage, number, next_id, snapshots, active_snapshots, taken>>
    BY Zenon DEF MineExecute
  <1>3. task'[c] = [at |-> "store", block |-> block] /\ DOMAIN task' = {c}
    BY ZenonT(30), <1>1 DEF ChainInv, Go
  <1>4. Live(task[c])' = Live(task[c])
    BY SMTT(30), <1>2, <1>3 DEF Live
  <1>5. db.block_hashes = HashesTo(hashes, best_number)
    BY ZenonT(30), <1>2 DEF ChainInv, StateInv, StateAt, Settled
  <1>6. StateInv(task[c])'
    BY SMTT(30), <1>1, <1>2, <1>3, <1>5 DEF ChainInv, StateInv, Settled, storage
  <1> QED BY Zenon, <1>2, <1>3, <1>4, <1>6, QuietStep

LEMMA MineStoreInv ==
  ASSUME NEW c, ChainInv(c), MineStore(c) PROVE ChainInv(c)'
  <1>1. PICK b : b = task[c].block
    BY Zenon
  <1>2. task[c].at = "store" /\ b.number = best_number + 1 /\ b.parent = best_hash
        /\ db.txs = b.state
        /\ db.block_hashes = Put(HashesTo(hashes, best_number), best_number + 1, b)
    BY Zenon, <1>1 DEF MineStore, ChainInv, StateInv
  <1>3. /\ best_number' = best_number + 1 /\ best_hash' = b /\ number' = best_number + 1
        /\ blocks' = blocks \cup {b} /\ hashes' = Put(hashes, best_number + 1, b)
    BY Zenon, <1>1, <1>2 DEF MineStore
  <1>4. transactions' = Grown(transactions, b, Outdated(blocks \cup {b}, hashes', best_number + 1))
    BY Zenon, <1>1, <1>2, <1>3 DEF MineStore, Grown
  <1>5. task'[c] = Idle /\ DOMAIN task' = {c}
    BY Zenon DEF MineStore, ChainInv, Go
  <1>6. UNCHANGED <<db, next_id, snapshots, active_snapshots, taken>>
    BY Zenon DEF MineStore, dbVars
  <1>7. Linked(hashes, blocks, best_number, best_hash) /\ OnRecord(transactions, blocks, best_number)
    BY Zenon DEF ChainInv, StorageInv
  <1>8. Linked(hashes', blocks', best_number', best_hash')
    BY Zenon, <1>2, <1>3, <1>7, GrownLinked
  <1>9. OnRecord(transactions', blocks', best_number')
    BY Zenon, <1>2, <1>3, <1>4, <1>7, GrownRecord
  <1>10. best_number \in Nat /\ Spans(hashes, best_number) /\ Spans(hashes', best_number + 1)
    BY Zenon, <1>3, <1>7, <1>8 DEF Linked
  <1>11. \A i \in 0 .. best_number : hashes'[i] = hashes[i]
    BY <1>3, <1>10, GrownChain
  <1>12. StateAt(hashes', db', best_number', best_hash')
    <2>1. db'.block_hashes = HashesTo(hashes', best_number')
      BY ZenonT(30), <1>2, <1>3, <1>6, <1>10, GrownHashes
    <2>2. best_number' \in DOMAIN hashes' /\ best_hash' = hashes'[best_number']
      <3>1. best_number' \in Nat /\ DOMAIN hashes' = 0 .. best_number'
        BY Zenon, <1>8 DEF Linked, Spans
      <3>2. best_number' \in 0 .. best_number'
        BY ONLY <3>1
      <3> QED BY Zenon, <1>8, <3>1, <3>2 DEF Linked
    <2> QED BY Zenon, <1>2, <1>3, <1>6, <2>1, <2>2 DEF StateAt
  <1>13. StateInv(task[c])'
    BY SMTT(30), <1>3, <1>5, <1>12 DEF StateInv, Settled, Idle
  <1>14. Live(task[c])' = Live(task[c])
    BY <1>2, <1>5, <1>6 DEF Live, Idle
  <1>15. ASSUME NEW id \in Live(task[c]) PROVE Restorable(id)'
    <2>1. PICK num, hash : num = active_snapshots[id].num /\ hash = active_snapshots[id].hash
      BY Zenon
    <2>2. RecordAt(hashes, snapshots[id], taken[id], num, hash)
        /\ id \in DOMAIN active_snapshots /\ id \in DOMAIN taken
      BY Zenon, <1>15, <2>1 DEF ChainInv, SnapshotInv, Restorable
    <2>3. num \in 0 .. best_number
      BY Zenon, <1>10, <2>2 DEF RecordAt, StateAt, Spans
    <2>4. \A i \in 0 .. num : hashes'[i] = hashes[i]
      BY <1>10, <1>11, <2>3
    <2>5. best_number + 1 \in Nat /\ num \in 0 .. best_number + 1
      BY <1>10, <2>3
    <2>6. RecordAt(hashes', snapshots[id], taken[id], num, hash)
      BY ZenonT(30), <1>10, <2>2, <2>4, <2>5, SamePart
    <2> QED BY Zenon, <1>6, <2>1, <2>2, <2>6 DEF Restorable
  <1>16. SnapshotInv(Live(task[c]))'
    BY Zenon, <1>6, <1>14, <1>15 DEF ChainInv, SnapshotInv
  <1>17. IdsInv' /\ StorageInv'
    BY Zenon, <1>6, <1>8, <1>9 DEF ChainInv, IdsInv, StorageInv
  <1> QED BY Zenon, <1>5, <1>13, <1>16, <1>17 DEF ChainInv

LEMMA IdleAt == Idle.at = "idle"
  BY Zenon DEF Idle

LEMMA SnapshotDbInv ==
  ASSUME NEW c, ChainInv(c), SnapshotDb(c) PROVE ChainInv(c)'
  <1>1. /\ task'[c] = [at |-> "activate", id |-> next_id, num |-> task[c].num, hash |-> task[c].hash]
        /\ DOMAIN task' = {c}
    BY Zenon DEF ChainInv, SnapshotDb, Go
  <1>2. /\ task[c].at = "snapshot" /\ snapshots' = Put(snapshots, next_id, db)
        /\ next_id' = next_id + 1
        /\ UNCHANGED <<storage, number, db, active_snapshots, taken>>
    BY Zenon DEF SnapshotDb
  <1>3. next_id \in Nat /\ DOMAIN snapshots \subseteq 0 .. next_id - 1
    BY Zenon DEF ChainInv, IdsInv
  <1>4. /\ DOMAIN snapshots' = DOMAIN snapshots \cup {next_id} /\ snapshots'[next_id] = db
        /\ \A id \in DOMAIN snapshots : id # next_id /\ snapshots'[id] = snapshots[id]
    BY <1>2, <1>3 DEF Put
  <1>5. IdsInv'
    BY <1>2, <1>3, <1>4 DEF IdsInv
  <1>6. StorageInv'
    BY Zenon, <1>2 DEF ChainInv, StorageInv, storage
  <1>7. Live(task[c]) = DOMAIN snapshots /\ Live(task[c])' = DOMAIN snapshots
    BY SMTT(30), <1>1, <1>2, <1>4 DEF Live
  <1>8. StateInv(task[c])'
    BY SMTT(30), <1>1, <1>2, <1>3, <1>4 DEF ChainInv, StateInv, Settled, storage
  <1>9. SnapshotInv(Live(task[c]))'
    BY Zenon, <1>2, <1>4, <1>7 DEF ChainInv, SnapshotInv, Restorable, storage
  <1> QED BY ZenonT(30), <1>1, <1>5, <1>6, <1>8, <1>9 DEF ChainInv

LEMMA SnapshotEndInv ==
  ASSUME NEW c, ChainInv(c), SnapshotEnd(c) PROVE ChainInv(c)'
  <1>1. PICK t : t = task[c]
    BY Zenon
  <1>2. /\ t.at = "activate" /\ t.num = best_number /\ t.hash = best_hash
        /\ t.id = next_id - 1 /\ t.id \in DOMAIN snapshots /\ snapshots[t.id] = db
        /\ StateAt(hashes, db, best_number, best_hash) /\ number = best_number
    BY Zenon, <1>1 DEF ChainInv, StateInv, SnapshotEnd, Settled
  <1>3. PICK r : /\ r.chain = hashes /\ r.best = best_hash /\ r.db = db
                 /\ taken' = Put(taken, t.id, r)
    BY Zenon, <1>1 DEF SnapshotEnd
  <1>4. PICK a : /\ a.num = best_number /\ a.hash = best_hash
                 /\ active_snapshots' = Put(active_snapshots, t.id, a)
    BY Zenon, <1>1, <1>2 DEF SnapshotEnd
  <1>5. task'[c] = Idle /\ DOMAIN task' = {c} /\ UNCHANGED <<storage, number, dbVars>>
    BY Zenon DEF ChainInv, SnapshotEnd, Go
  <1>6. IdsInv' /\ StorageInv' /\ StateInv(task[c])'
    <2>1. IdsInv' /\ StorageInv'
      BY Zenon, <1>5 DEF ChainInv, IdsInv, StorageInv, storage, dbVars
    <2>2. /\ task'[c].at = "idle" /\ number' = best_number'
          /\ StateAt(hashes', db', best_number', best_hash')
      BY ZenonT(30), <1>2, <1>5, IdleAt DEF storage, dbVars
    <2>3. StateInv(task[c])'
      BY Zenon, <2>2 DEF StateInv, Settled
    <2> QED BY Zenon, <2>1, <2>3
  <1>7. /\ taken'[t.id] = r /\ t.id \in DOMAIN taken'
        /\ \A id \in DOMAIN taken :
              id \in DOMAIN taken' /\ (id # t.id => taken'[id] = taken[id])
        /\ active_snapshots'[t.id] = a /\ t.id \in DOMAIN active_snapshots'
        /\ \A id \in DOMAIN active_snapshots :
              id \in DOMAIN active_snapshots' /\ (id # t.id => active_snapshots'[id] = active_snapshots[id])
    BY ZenonT(30), <1>3, <1>4 DEF Put
  <1>8. Live(task[c])' = Live(task[c]) \cup {t.id} /\ t.id \notin Live(task[c])
    BY <1>1, <1>2, <1>5 DEF Live, Idle, dbVars
  <1>9. best_number \in Nat /\ Spans(hashes, best_number)
    BY Zenon DEF ChainInv, StorageInv, Linked
  <1>10. Restorable(t.id)'
    <2>1. hashes = ChainTo(hashes, best_number)
      BY Zenon, <1>9 DEF Spans, ChainTo
    <2>2. RecordAt(hashes, db, r, best_number, best_hash)
      BY Zenon, <1>2, <1>3, <2>1 DEF RecordAt
    <2> QED BY Zenon, <1>2, <1>4, <1>5, <1>7, <2>2 DEF Restorable, storage, dbVars
  <1>11. ASSUME NEW id \in Live(task[c]) PROVE Restorable(id)' /\ active_snapshots'[id] = active_snapshots[id]
    BY ZenonT(30), <1>5, <1>7, <1>8, <1>11 DEF ChainInv, SnapshotInv, Restorable, storage, dbVars
  <1>12. ASSUME NEW id \in Live(task[c])
         PROVE  /\ id \in Nat /\ id < t.id
                /\ active_snapshots[id].num \in Nat /\ active_snapshots[id].num <= best_number
    <2>1. active_snapshots[id].num \in 0 .. best_number
      BY Zenon, <1>9, <1>12 DEF ChainInv, SnapshotInv, Restorable, RecordAt, StateAt, Spans
    <2>2. id \in 0 .. next_id - 1 /\ id # t.id /\ next_id \in Nat
      BY Zenon, <1>8, <1>12 DEF ChainInv, IdsInv, Live
    <2> QED BY SMTT(30), <1>2, <1>9, <2>1, <2>2
  <1>13. SnapshotInv(Live(task[c]))'
    <2>1. \A id \in Live(task[c])' : Restorable(id)'
      BY Zenon, <1>8, <1>10, <1>11
    <2>2. ASSUME NEW i \in Live(task[c])', NEW j \in Live(task[c])', i < j
          PROVE  active_snapshots'[i].num <= active_snapshots'[j].num
      <3>1. t.id \in Int
        BY <1>2 DEF ChainInv, IdsInv
      <3>2. CASE i \in Live(task[c]) /\ j \in Live(task[c])
        BY Zenon, <1>11, <2>2, <3>2 DEF ChainInv, SnapshotInv
      <3>3. CASE i \in Live(task[c]) /\ j = t.id
        BY ZenonT(30), <1>4, <1>7, <1>11, <1>12, <3>3
      <3>4. CASE i = t.id
        BY SMTT(30), <1>4, <1>7, <1>8, <1>9, <1>12, <2>2, <3>1, <3>4
      <3> QED BY Zenon, <1>8, <3>2, <3>3, <3>4
    <2> QED BY Zenon, <2>1, <2>2 DEF SnapshotInv
  <1> QED BY Zenon, <1>5, <1>6, <1>13 DEF ChainInv

LEMMA RevertStorageInv ==
  ASSUME NEW c, ChainInv(c), NEW id \in DOMAIN snapshots, RevertStorage(c, id) PROVE ChainInv(c)'
  <1>1. /\ task[c].at = "idle" /\ number = best_number /\ Live(task[c]) = DOMAIN snapshots
        /\ active_snapshots' = Without(active_snapshots, {id})
        /\ UNCHANGED <<number, dbVars, taken>>
    <2>1. /\ task[c].at = "idle" /\ active_snapshots' = Without(active_snapshots, {id})
          /\ UNCHANGED <<number, dbVars, taken>>
      BY Zenon, IdleAt DEF RevertStorage
    <2>2. task[c].at # "time" /\ Live(task[c]) = DOMAIN snapshots
      BY Zenon, <2>1 DEF Live
    <2> QED BY Zenon, <2>1, <2>2 DEF ChainInv, StateInv
  <1>2. \A i \in DOMAIN snapshots : Restorable(i)
    BY Zenon, <1>1 DEF ChainInv, SnapshotInv
  <1>3. PICK num, hash : num = active_snapshots[id].num /\ hash = active_snapshots[id].hash
    BY Zenon
  <1>4. RecordAt(hashes, snapshots[id], taken[id], num, hash) /\ id \in DOMAIN active_snapshots
    BY Zenon, <1>2, <1>3 DEF Restorable
  <1>5. Linked(hashes, blocks, best_number, best_hash) /\ OnRecord(transactions, blocks, best_number)
    BY Zenon DEF ChainInv, StorageInv
  <1>6. best_number \in Nat /\ Spans(hashes, best_number) /\ DOMAIN hashes = 0 .. best_number
    BY Zenon, <1>5 DEF Linked, Spans
  <1>7. num \in 0 .. best_number /\ hash = hashes[num]
    BY Zenon, <1>4, <1>6 DEF RecordAt, StateAt
  <1>8. PICK gone : gone = num + 1 .. best_number
    BY Zenon
  <1>9. gone = {n \in DOMAIN hashes : num < n /\ n <= number}
    BY <1>1, <1>6, <1>7, <1>8
  <1>10. /\ hashes' = Without(hashes, gone) /\ blocks' = blocks \ {hashes[n] : n \in gone}
         /\ transactions' = Without(transactions, Forgotten(gone))
         /\ best_number' = num /\ best_hash' = hash
         /\ Go(c, [at |-> "time", id |-> id, num |-> num, hash |-> hash])
    BY Zenon, <1>3, <1>4, <1>9 DEF RevertStorage
  <1>11. /\ task'[c] = [at |-> "time", id |-> id, num |-> num, hash |-> hash]
         /\ DOMAIN task' = {c}
    BY Zenon, <1>10 DEF ChainInv, Go
  <1>12. /\ Spans(hashes', num) /\ (\A i \in 0 .. num : hashes'[i] = hashes[i])
         /\ Range(hashes') = Range(hashes) \ {hashes[n] : n \in gone}
    <2>1. Numbered(hashes, best_number)
      BY Zenon, <1>5 DEF Linked
    <2>2. num \in 0 .. best_number /\ gone = num + 1 .. best_number
      BY Zenon, <1>7, <1>8
    <2>3. PICK g : g = Without(hashes, gone)
      BY Zenon
    <2>4. /\ Spans(g, num) /\ (\A i \in 0 .. num : g[i] = hashes[i])
          /\ Range(g) = Range(hashes) \ BlocksAt(hashes, gone)
      <3>1. best_number \in Nat /\ Spans(hashes, best_number)
        BY Zenon, <1>6
      <3>2. Spans(g, num) /\ Range(g) = Range(hashes) \ BlocksAt(hashes, gone)
        BY Zenon, <2>1, <2>2, <2>3, <3>1, CutChain
      <3>3. ASSUME NEW i \in 0 .. num PROVE g[i] = hashes[i]
        <4>1. i \in DOMAIN hashes \ gone
          BY <1>6, <2>2
        <4> QED BY Zenon, <2>3, <4>1 DEF Without
      <3> QED BY Zenon, <3>2, <3>3
    <2> QED BY Zenon, <1>10, <2>3, <2>4 DEF BlocksAt
  <1>13. Linked(hashes', blocks', best_number', best_hash')
    <2>1. num \in Nat /\ hashes'[num] = hash
      BY SMTT(30), <1>6, <1>7, <1>12
    <2>2. Numbered(hashes', num)
      BY SMTT(30), <1>5, <1>6, <1>7, <1>12 DEF Linked, Numbered
    <2>3. \A i \in 1 .. num : hashes'[i].parent = hashes'[i - 1]
      BY <1>5, <1>6, <1>7, <1>12 DEF Linked
    <2>4. blocks' = Range(hashes')
      BY Zenon, <1>5, <1>10, <1>12 DEF Linked
    <2> QED BY Zenon, <1>10, <1>12, <2>1, <2>2, <2>3, <2>4 DEF Linked
  <1>14. OnRecord(transactions', blocks', best_number')
    <2> SUFFICES ASSUME NEW t \in DOMAIN transactions'
                 PROVE  /\ transactions'[t] \in blocks' /\ t \in Range(transactions'[t].txs)
                        /\ transactions'[t].number > best_number' - Keeper
      BY Zenon DEF OnRecord
    <2>1. /\ t \in DOMAIN transactions /\ transactions'[t] = transactions[t]
          /\ t \notin Forgotten(gone)
      BY Zenon, <1>10 DEF Without
    <2>2. /\ transactions[t] \in blocks /\ t \in Range(transactions[t].txs)
          /\ transactions[t].number > best_number - Keeper
      BY Zenon, <1>5, <2>1 DEF OnRecord
    <2>3. transactions[t] \in blocks'
      BY Zenon, <1>10, <2>1, <2>2 DEF Forgotten
    <2>4. PICK i \in 0 .. best_number : transactions[t].number = i
      BY Zenon, <1>5, <2>2 DEF Linked, Numbered, Spans, Range
    <2>5. transactions[t].number > num - Keeper
      BY SMTT(30), <1>6, <1>7, <2>2, <2>4, ChainAssumption
    <2> QED BY Zenon, <1>10, <2>1, <2>2, <2>3, <2>5
  <1>15. num \in Nat /\ num \in 0 .. num
    BY <1>6, <1>7
  <1>16. RecordAt(hashes', snapshots[id], taken[id], num, hash)
    BY ZenonT(30), <1>4, <1>12, <1>15, SamePart
  <1>17. StateInv(task[c])'
    BY SMTT(30), <1>1, <1>10, <1>11, <1>16 DEF StateInv, Settled, dbVars
  <1>18. Live(task[c])' = {i \in DOMAIN snapshots : i < id}
    <2>1. task'[c].at = "time" /\ task'[c].id = id
      BY <1>11
    <2>2. snapshots' = snapshots
      BY Zenon, <1>1 DEF dbVars
    <2> QED BY Zenon, <2>1, <2>2 DEF Live
  <1>19. ASSUME NEW i \in DOMAIN snapshots, i < id
         PROVE  Restorable(i)' /\ active_snapshots'[i] = active_snapshots[i]
    <2>1. PICK n, h : n = active_snapshots[i].num /\ h = active_snapshots[i].hash
      BY Zenon
    <2>2. /\ RecordAt(hashes, snapshots[i], taken[i], n, h)
          /\ i \in DOMAIN active_snapshots /\ i \in DOMAIN taken
      BY Zenon, <1>2, <2>1 DEF Restorable
    <2>3. n <= num
      BY Zenon, <1>1, <1>3, <1>19, <2>1 DEF ChainInv, SnapshotInv
    <2>4. n \in 0 .. best_number
      BY Zenon, <1>6, <2>2 DEF RecordAt, StateAt
    <2>5. n \in 0 .. num /\ \A k \in 0 .. n : hashes'[k] = hashes[k]
      BY SMTT(30), <1>6, <1>7, <1>12, <2>3, <2>4
    <2>6. RecordAt(hashes', snapshots[i], taken[i], n, h)
      BY Zenon, <1>12, <1>15, <2>2, <2>5, SamePart
    <2>7. i # id
      BY <1>19 DEF ChainInv, IdsInv
    <2>8. i \in DOMAIN active_snapshots' /\ active_snapshots'[i] = active_snapshots[i]
      BY Zenon, <1>1, <2>2, <2>7 DEF Without
    <2> QED BY Zenon, <1>1, <2>1, <2>2, <2>6, <2>8 DEF Restorable, dbVars
  <1>20. SnapshotInv(Live(task[c]))'
    BY Zenon, <1>1, <1>18, <1>19 DEF ChainInv, SnapshotInv
  <1>21. IdsInv' /\ StorageInv'
    BY Zenon, <1>1, <1>13, <1>14 DEF ChainInv, IdsInv, StorageInv, dbVars
  <1> QED BY Zenon, <1>11, <1>17, <1>20, <1>21 DEF ChainInv

LEMMA RevertDbInv ==
  ASSUME NEW c, ChainInv(c), RevertDb(c)
  PROVE  /\ ChainInv(c)'
         /\ \E id : /\ id = task[c].id /\ db' = taken[id].db
                    /\ best_hash' = taken[id].best /\ hashes' = taken[id].chain
  <1>1. PICK id : id = task[c].id
    BY Zenon
  <1>2. /\ task[c].at = "db" /\ number = best_number /\ id \in DOMAIN snapshots
        /\ RecordAt(hashes, snapshots[id], taken[id], best_number, best_hash)
    BY Zenon, <1>1 DEF ChainInv, StateInv, RevertDb
  <1>3. /\ snapshots' = Without(snapshots, Removed(id)) /\ db' = snapshots[id]
        /\ UNCHANGED <<storage, number, next_id, active_snapshots, taken>>
    BY Zenon, <1>1, <1>2 DEF RevertDb, Restored
  <1>4. task'[c] = Idle /\ DOMAIN task' = {c}
    BY Zenon DEF ChainInv, RevertDb, Go
  <1>5. next_id \in Nat /\ DOMAIN snapshots \subseteq 0 .. next_id - 1
    BY DEF ChainInv, IdsInv
  <1>6. Live(task[c]) = DOMAIN snapshots \ Removed(id)
    BY <1>1, <1>2, <1>5 DEF Live, Removed
  <1>7. /\ DOMAIN snapshots' = Live(task[c])
        /\ \A i \in Live(task[c]) : snapshots'[i] = snapshots[i]
    BY Zenon, <1>3, <1>6 DEF Without
  <1>8. Live(task[c])' = Live(task[c])
    BY <1>4, <1>7 DEF Live, Idle
  <1>9. SnapshotInv(Live(task[c]))'
    BY Zenon, <1>3, <1>7, <1>8 DEF ChainInv, SnapshotInv, Restorable, storage
  <1>10. StateInv(task[c])'
    <2>1. /\ task'[c].at = "idle" /\ number' = best_number'
          /\ StateAt(hashes', db', best_number', best_hash')
      BY Zenon, <1>2, <1>3, <1>4, IdleAt DEF RecordAt, storage
    <2> QED BY <2>1 DEF StateInv, Settled
  <1>11. IdsInv' /\ StorageInv'
    BY Zenon, <1>3, <1>5, <1>7, <1>6 DEF ChainInv, IdsInv, StorageInv, storage
  <1>12. hashes = ChainTo(hashes, best_number)
    BY Zenon DEF ChainInv, StorageInv, Linked, Spans, ChainTo
  <1>13. db' = taken[id].db /\ best_hash' = taken[id].best /\ hashes' = taken[id].chain
    BY Zenon, <1>2, <1>3, <1>12 DEF RecordAt, storage
  <1> QED BY Zenon, <1>1, <1>4, <1>9, <1>10, <1>11, <1>13 DEF ChainInv

-----------------------------------------------------------------------------
(* Every step                                                               *)

LEMMA InitChainInv ==
  ASSUME NEW c, Miners = {c}, Init PROVE ChainInv(c)
  <1>1. /\ hashes = [n \in {0} |-> Genesis] /\ best_number = 0 /\ best_hash = Genesis
        /\ blocks = {Genesis} /\ DOMAIN transactions = {} /\ number = 0
        /\ db.txs = <<>> /\ db.block_hashes = NoFun /\ next_id = 0
        /\ DOMAIN snapshots = {} /\ task = [d \in {c} |-> Idle]
    BY Zenon DEF Init, NoFun, Client
  <1>2. {0} = 0 .. 0 /\ 1 .. 0 = {}
    OBVIOUS
  <1>3. DOMAIN hashes = {0} /\ hashes[0] = Genesis /\ Range(hashes) = {Genesis} /\ Spans(hashes, 0)
    BY Zenon, <1>1, <1>2 DEF Range, Spans
  <1>4. StorageInv
    BY Zenon, <1>1, <1>2, <1>3 DEF StorageInv, Linked, Numbered, OnRecord, Genesis
  <1>5. HashesTo(hashes, 0) = NoFun
    BY Zenon, <1>2 DEF HashesTo, NoFun
  <1>6. StateAt(hashes, db, best_number, best_hash)
    BY Zenon, <1>1, <1>3, <1>5 DEF StateAt, Genesis
  <1>7. task[c].at = "idle" /\ DOMAIN task = {c}
    BY Zenon, <1>1 DEF Idle
  <1>8. StateInv(task[c])
    BY Zenon, <1>1, <1>6, <1>7 DEF StateInv, Settled
  <1>9. IdsInv /\ SnapshotInv(Live(task[c]))
    BY Zenon, <1>1 DEF IdsInv, SnapshotInv, Live
  <1> QED BY Zenon, <1>4, <1>7, <1>8, <1>9 DEF ChainInv

LEMMA NextChainInv ==
  ASSUME NEW c, Miners = {c}, ChainInv(c), [LiveNext]_vars PROVE ChainInv(c)'
  <1>1. CASE UNCHANGED vars \/ Clock
    BY Zenon, <1>1, ClockChainInv DEF vars, Clock
  <1>2. CASE \E d \in Client : Step(d)
    <2>1. Step(c)
      BY Zenon, <1>2 DEF Client
    <2> QED
      BY ZenonT(30), <2>1, MineBeginInv, MineStampInv, MineExecuteInv, MineStoreInv, SnapshotBeginInv,
         SnapshotDbInv, SnapshotEndInv, RevertTimeInv, RevertDbInv DEF Step
  <1>3. CASE \E d \in Client : \E id \in 0 .. MaxSnapshots :
                 id \in DOMAIN snapshots /\ RevertStorage(d, id)
    BY Zenon, <1>3, RevertStorageInv DEF Client
  <1> QED BY Zenon, <1>1, <1>2, <1>3 DEF LiveNext

(* With one request at a time the parts of the node agree whenever it is at *)
(* rest, through every order of mining, snapshots and reverts: the chain of *)
(* hashes, the blocks, the environment, the state of the database and the   *)
(* window of transactions.                                                  *)
THEOREM StaysInStep ==
    ASSUME NEW CONSTANT c, Miners = {c}
    PROVE  SnapshotsSpec => []InStep
<1>1. Init => ChainInv(c)
  BY Zenon, InitChainInv
<1>2. ChainInv(c) /\ [LiveNext]_vars => ChainInv(c)'
  BY Zenon, NextChainInv
<1>3. ChainInv(c) => InStep
  <2> SUFFICES ASSUME ChainInv(c), AtRest PROVE InStep
    BY Zenon DEF InStep
  <2>1. task[c].at = "idle"
    BY DEF AtRest, Client, Idle
  <2>2. Linked(hashes, blocks, best_number, best_hash) /\ OnRecord(transactions, blocks, best_number)
    BY Zenon DEF ChainInv, StorageInv
  <2>3. StateAt(hashes, db, best_number, best_hash) /\ number = best_number
    BY Zenon, <2>1 DEF ChainInv, StateInv, Settled
  <2>4. DOMAIN hashes = 0 .. best_number /\ best_number \in Nat
    BY Zenon, <2>2 DEF Linked, Spans
  <2>5. best_hash.number = best_number
    BY <2>2, <2>4 DEF Linked, Numbered
  <2>6. DOMAIN hashes \ {0} = 1 .. best_number
    BY <2>4
  <2>7. db.txs = best_hash.state /\ db.block_hashes = Without(hashes, {0})
    BY Zenon, <2>3, <2>6 DEF StateAt, HashesTo, Without
  <2> QED
    BY Zenon, <2>2, <2>3, <2>4, <2>5, <2>7 DEF InStep, Linked, OnRecord
<1>. QED
  BY <1>1, <1>2, <1>3, PTL DEF SnapshotsSpec

(* What evm_revert returns true for is the chain and the state of the       *)
(* moment when evm_snapshot returned the id, whatever was mined, taken and  *)
(* reverted in between.                                                     *)
THEOREM RevertsRestore ==
    ASSUME NEW CONSTANT client, Miners = {client}
    PROVE  SnapshotsSpec => RevertRestores
<1>1. Init => ChainInv(client)
  BY InitChainInv
<1>2. ChainInv(client) /\ [LiveNext]_vars => ChainInv(client)'
  BY NextChainInv
<1>3. ASSUME ChainInv(client), [LiveNext]_vars,
             NEW d \in Client, task[d].at = "db", task'[d] = Idle
      PROVE  /\ best_hash' = taken[task[d].id].best /\ hashes' = taken[task[d].id].chain
             /\ db' = taken[task[d].id].db
  <2>1. d = client /\ task'[client] # task[client]
    BY <1>3 DEF Client, Idle
  <2>2. Step(client) \/ \E id \in 0 .. MaxSnapshots : RevertStorage(client, id)
    BY Zenon, <1>3, <2>1 DEF LiveNext, Clock, vars, Client
  <2>3. RevertDb(client)
    BY Zenon, <1>3, <2>1, <2>2
    DEF Step, MineBegin, MineStamp, MineExecute, MineStore, SnapshotBegin, SnapshotDb, SnapshotEnd,
        RevertTime, RevertStorage, Idle
  <2> QED BY Zenon, <1>3, <2>1, <2>3, RevertDbInv
<1>4. ChainInv(client) /\ [LiveNext]_vars => [\A c \in Client : Restores(c)]_vars
  BY Zenon, <1>3 DEF Restores
<1>. QED
  BY <1>1, <1>2, <1>4, PTL DEF SnapshotsSpec, RevertRestores

-----------------------------------------------------------------------------
(* The clock of the chain                                                   *)

(* Blocks, stored or not yet, have numbers for timestamps. *)
Dated(c) ==
    /\ \A b \in blocks : b.timestamp \in Int
    /\ task[c].at = "execute" => task[c].timestamp \in Int
    /\ task[c].at = "store" => task[c].block.timestamp \in Int

LEMMA StepDated ==
  ASSUME NEW c, Miners = {c}, ChainInv(c), ClockInv, Dated(c), Step(c)
  PROVE  Dated(c)' /\ ClockInv'
  <1>0. DOMAIN task = {c} /\ c \in Miners
    BY Zenon DEF ChainInv
  <1>1. ASSUME NEW txs, MineBegin(c, txs) PROVE Dated(c)' /\ ClockInv'
    <2>1. blocks' = blocks /\ task'[c].at = "stamp" /\ Compute(c)
      BY Zenon, <1>0, <1>1 DEF MineBegin, Go, storage
    <2> QED BY Zenon, <1>0, <2>1, NextClock DEF Dated, TimeNext
  <1>2. CASE MineStamp(c)
    <2>1. Take(c) /\ task'[c].at = "execute" /\ task'[c].timestamp = stamping[c].next
          /\ blocks' = blocks
      BY Zenon, <1>0, <1>2 DEF MineStamp, Go, storage
    <2>2. stamping[c].next \in Int
      BY Zenon, <1>0, <2>1 DEF Take, ClockInv, ClockTypeOK, Computed
    <2> QED BY Zenon, <1>0, <2>1, <2>2, NextClock DEF Dated, TimeNext
  <1>3. CASE MineExecute(c)
    <2>1. /\ task[c].at = "execute" /\ task'[c].at = "store" /\ blocks' = blocks
          /\ task'[c].block.timestamp = task[c].timestamp /\ UNCHANGED timeVars
      BY Zenon, <1>0, <1>3 DEF MineExecute, Go, storage
    <2> QED BY ZenonT(30), <1>0, <2>1, NextClock DEF Dated
  <1>4. CASE MineStore(c)
    <2>1. /\ task[c].at = "store" /\ task'[c].at = "idle" /\ blocks' = blocks \cup {task[c].block}
          /\ UNCHANGED timeVars
      BY Zenon, <1>0, <1>4 DEF MineStore, Go, Idle
    <2> QED BY ZenonT(30), <1>0, <2>1, NextClock DEF Dated
  <1>5. CASE SnapshotBegin(c) \/ SnapshotDb(c) \/ SnapshotEnd(c) \/ RevertDb(c)
    <2>1. task'[c].at \in {"snapshot", "activate", "idle"} /\ blocks' = blocks /\ UNCHANGED timeVars
      BY <1>0, <1>5 DEF SnapshotBegin, SnapshotDb, SnapshotEnd, RevertDb, Go, Idle, storage
    <2> QED BY Zenon, <1>0, <2>1, NextClock DEF Dated
  <1>6. CASE RevertTime(c)
    <2>1. task'[c].at \in {"db", "idle"} /\ blocks' = blocks
      BY SMTT(30), <1>0, <1>6 DEF RevertTime, Go, Idle, storage
    <2>2. Dated(c)'
      BY Zenon, <2>1 DEF Dated
    <2>3. CASE task[c].hash \in blocks
      <3>1. PICK ts : ts = task[c].hash.timestamp
        BY Zenon
      <3>2. ts \in Int /\ reset(IF ts = 0 THEN 0 ELSE ts - 1)
        BY Zenon, <1>6, <2>3, <3>1 DEF RevertTime, Dated
      <3> QED BY SMTT(30), <2>2, <3>2, ResetClock
    <2>4. CASE task[c].hash \notin blocks
      <3>1. UNCHANGED timeVars
        BY Zenon, <1>6, <2>4 DEF RevertTime
      <3> QED BY Zenon, <1>0, <2>2, <3>1, NextClock
    <2> QED BY Zenon, <2>3, <2>4
  <1> QED BY ZenonT(30), <1>1, <1>2, <1>3, <1>4, <1>5, <1>6 DEF Step

LEMMA NextDated ==
  ASSUME NEW c, Miners = {c}, ChainInv(c), ClockInv, Dated(c), [LiveNext]_vars
  PROVE  Dated(c)' /\ ClockInv'
  <1>1. CASE UNCHANGED vars \/ Clock
    <2>1. UNCHANGED <<blocks, task>> /\ [TimeNext]_timeVars
      BY Zenon, <1>1 DEF vars, Clock, storage, TimeNext
    <2> QED BY Zenon, <2>1, NextClock DEF Dated
  <1>2. CASE Step(c)
    BY Zenon, <1>2, StepDated
  <1>3. ASSUME NEW id \in DOMAIN snapshots, RevertStorage(c, id) PROVE Dated(c)' /\ ClockInv'
    <2>1. blocks' \subseteq blocks /\ task'[c].at \in {"time", "db"} /\ UNCHANGED timeVars
      <3>1. CASE id \in DOMAIN active_snapshots
        <4>1. PICK t : t.at = "time" /\ Go(c, t) /\ blocks' \subseteq blocks
          <5>1. PICK t : /\ t = [at |-> "time", id |-> id, num |-> active_snapshots[id].num,
                                 hash |-> active_snapshots[id].hash]
                         /\ Go(c, t)
            BY Zenon, <1>3, <3>1 DEF RevertStorage
          <5>2. t.at = "time"
            BY ONLY Zenon, <5>1
          <5> QED BY Zenon, <1>3, <3>1, <5>1, <5>2 DEF RevertStorage
        <4> QED BY Zenon, <1>3, <4>1 DEF ChainInv, RevertStorage, Go
      <3>2. CASE id \notin DOMAIN active_snapshots
        <4>1. PICK t : t = [at |-> "db", id |-> id] /\ Go(c, t) /\ blocks' = blocks
          BY Zenon, <1>3, <3>2 DEF RevertStorage, storage
        <4>2. t.at = "db"
          BY ONLY Zenon, <4>1
        <4> QED BY Zenon, <1>3, <4>1, <4>2 DEF ChainInv, RevertStorage, Go
      <3> QED BY Zenon, <3>1, <3>2
    <2> QED BY Zenon, <2>1, NextClock DEF Dated
  <1> QED BY Zenon, <1>1, <1>2, <1>3 DEF LiveNext, Client

(* Block timestamps strictly increase on the chain itself, where evm_revert *)
(* takes the clock back to the block that it restores.                      *)
THEOREM ChainTimestampsIncrease ==
    ASSUME NEW CONSTANT c, Miners = {c}
    PROVE  SnapshotsSpec => []Increasing
<1>1. Init => ChainInv(c) /\ ClockInv /\ Dated(c)
  <2> SUFFICES ASSUME Init PROVE ChainInv(c) /\ ClockInv /\ Dated(c)
    BY Zenon
  <2>1. TimeInit /\ blocks = {Genesis} /\ task = [d \in {c} |-> Idle]
    BY Zenon DEF Init, Client
  <2>2. Dated(c)
    BY <2>1, TimeAssumption DEF Dated, Genesis, Idle
  <2> QED BY Zenon, <2>1, <2>2, InitChainInv, InitClock
<1>2. ChainInv(c) /\ ClockInv /\ Dated(c) /\ [LiveNext]_vars
      => (ChainInv(c) /\ ClockInv /\ Dated(c))'
  BY Zenon, NextChainInv, NextDated
<1>3. ClockInv => Increasing
  BY Zenon DEF ClockInv
<1>. QED
  BY <1>1, <1>2, <1>3, PTL DEF SnapshotsSpec
=============================================================================
