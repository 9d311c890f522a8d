------------------------------- MODULE TxPool -------------------------------
(***************************************************************************)
(* The transaction pool of anvil, as operators on its state:                *)
(* anvil/src/eth/pool/transactions.rs (PendingTransactions,                 *)
(* ReadyTransactions, TransactionsIterator) and PoolInner of pool/mod.rs.   *)
(*                                                                         *)
(* A transaction is known by its hash; its marker is <<nonce, sender>>. The *)
(* API gives every transaction one marker that it provides and at most one  *)
(* that it requires. A pool is a record: "provided", "ready", "independent" *)
(* and "id" are the fields of ReadyTransactions, "required", "identified"   *)
(* (waiting_markers) and "waiting" those of PendingTransactions. The order  *)
(* in which a HashSet of hashes is iterated is a parameter.                 *)
(***************************************************************************)
EXTENDS Integers, Sequences, FiniteSets, SequencesExt

CONSTANTS
    Hash,      \* transactions, by hash
    TxOf,      \* hash -> [from, nonce, price, gas]
    None,      \* no entry
    Orders     \* orders in which the hashes of a set may be iterated

Provides(h) == <<TxOf[h].nonce, TxOf[h].from>>
Marker == {Provides(h) : h \in Hash} \cup {<<TxOf[h].nonce - 1, TxOf[h].from>> : h \in Hash}

EmptyPool ==
    [id |-> 0, provided |-> [m \in Marker |-> None], ready |-> [h \in Hash |-> None],
     independent |-> {}, required |-> [m \in Marker |-> {}],
     identified |-> [m \in Marker |-> None], waiting |-> [h \in Hash |-> None]]

IsReady(p, h) == p.ready[h] # None
IsWaiting(p, h) == p.waiting[h] # None
contains(p, h) == IsReady(p, h) \/ IsWaiting(p, h)

(* PoolTransactionRef: the better of two has the higher priority (its gas   *)
(* price), or the smaller id.                                               *)
Ref(p, h) == [hash |-> h, id |-> p.ready[h].id]
Better(r, s) ==
    \/ TxOf[r.hash].price > TxOf[s.hash].price
    \/ TxOf[r.hash].price = TxOf[s.hash].price /\ r.id < s.id

(* TransactionsIterator. A transaction that is yielded makes those it       *)
(* unlocks independent: none requires more than one marker, so none is ever *)
(* left awaiting another.                                                   *)
RECURSIVE Yield(_, _)
Yield(p, independent) ==
    IF independent = {} THEN <<>>
    ELSE LET best == CHOOSE r \in independent :
                         \A s \in independent \ {r} : Better(r, s)
             rest == independent \ {best}
             free == {h \in ToSet(p.ready[best.hash].unlocks) :
                         /\ IsReady(p, h)
                         /\ p.ready[h].requires_offset + 1
                              >= Cardinality(p.ready[h].requires)}
         IN  IF ~IsReady(p, best.hash) THEN Yield(p, rest)
             ELSE <<best.hash>> \o Yield(p, rest \cup {Ref(p, h) : h \in free})

ready_transactions(p) == Yield(p, p.independent)

-----------------------------------------------------------------------------
(* PendingTransactions *)

(* A replacement is refused only when it is cheaper; the transaction that   *)
(* it replaces stays in the queue.                                          *)
PendingUnderpriced(p, h) ==
    LET old == p.identified[Provides(h)]
    IN  old # None /\ IsWaiting(p, old) /\ TxOf[h].price < TxOf[old].price

PendingAdd(p, h, requires, missing) ==
    [p EXCEPT !.required = [m \in Marker |-> IF m \in missing THEN @[m] \cup {h} ELSE @[m]],
              !.identified[Provides(h)] = h,
              !.waiting[h] = [missing |-> missing, requires |-> requires]]

(* The transactions that wait for marker m and miss no other leave the      *)
(* queue, in the order of a HashSet.                                        *)
mark_and_unlock(p, m, order) ==
    LET free == {h \in p.required[m] : p.waiting[h].missing \subseteq {m}}
        marked == [h \in Hash |-> IF h \in free THEN None
                                  ELSE IF h \in p.required[m]
                                  THEN [p.waiting[h] EXCEPT !.missing = @ \ {m}]
                                  ELSE p.waiting[h]]
        taken == SelectSeq(order, LAMBDA h : h \in free)
    IN  [pool |-> [p EXCEPT !.required[m] = {}, !.waiting = marked,
                            !.identified = [n \in Marker |->
                                IF \E h \in free : Provides(h) = n THEN None ELSE @[n]]],
         unlocked |-> [i \in DOMAIN taken |->
                          [hash |-> taken[i], requires |-> p.waiting[taken[i]].requires]]]

PendingRemove(p, hashes) ==
    LET gone == {h \in hashes : IsWaiting(p, h)}
    IN  [p EXCEPT !.waiting = [h \in Hash |-> IF h \in gone THEN None ELSE @[h]],
                  !.required = [m \in Marker |-> @[m] \ gone],
                  !.identified = [n \in Marker |->
                      IF \E h \in gone : Provides(h) = n THEN None ELSE @[n]]]

-----------------------------------------------------------------------------
(* ReadyTransactions *)

Unlink(ready, prev, h) == [ready EXCEPT ![prev].unlocks = RemoveFirst(@, h)]

(* Variant for mutation testing: the markers stay provided. *)
RECURSIVE remove_with_markersKeeps(_, _, _)
remove_with_markersKeeps(p, stack, filter) ==
    IF stack = <<>> THEN p
    ELSE LET h == Last(stack)
             tx == p.ready[h]
             lost == {Provides(h)} \ filter
             provided == [m \in Marker |-> p.provided[m]]
             gone == [p.ready EXCEPT ![h] = None]
             prevs == {provided[m] : m \in tx.requires} \ {None}
             linked == IF \E x \in prevs : gone[x] # None
                       THEN LET x == CHOOSE x \in prevs : gone[x] # None
                            IN  Unlink(gone, x, x)
                       ELSE gone
         IN  IF ~IsReady(p, h) THEN remove_with_markersKeeps(p, Front(stack), filter)
             ELSE remove_with_markersKeeps(
                    [p EXCEPT !.ready = linked, !.provided = provided,
                              !.independent = {r \in @ : r.hash # h}],
                    Front(stack) \o (IF lost = {} THEN <<>> ELSE tx.unlocks), filter)

(* remove_with_markers: the transactions on the stack go, and when a marker *)
(* of theirs outside the filter goes with them, so do those they unlock.    *)
(* "remove from unlocks" shadows the hash of the transaction that is being  *)
(* removed: it looks for the previous transaction in its own unlocks.       *)
RECURSIVE remove_with_markers(_, _, _)
remove_with_markers(p, stack, filter) ==
    IF stack = <<>> THEN p
    ELSE LET h == Last(stack)
             tx == p.ready[h]
             lost == {Provides(h)} \ filter
             provided == [m \in Marker |-> IF m \in lost THEN None ELSE p.provided[m]]
             gone == [p.ready EXCEPT ![h] = None]
             prevs == {provided[m] : m \in tx.requires} \ {None}
             linked == IF \E x \in prevs : gone[x] # None
                       THEN LET x == CHOOSE x \in prevs : gone[x] # None
                            IN  Unlink(gone, x, x)
                       ELSE gone
         IN  IF ~IsReady(p, h) THEN remove_with_markers(p, Front(stack), filter)
             ELSE remove_with_markers(
                    [p EXCEPT !.ready = linked, !.provided = provided,
                              !.independent = {r \in @ : r.hash # h}],
                    Front(stack) \o (IF lost = {} THEN <<>> ELSE tx.unlocks), filter)

(* A ready transaction of the same marker is replaced by a dearer one, which *)
(* inherits what it unlocks.                                                *)
ReadyUnderpriced(p, h) ==
    LET old == p.provided[Provides(h)]
    IN  old # None /\ IsReady(p, old) /\ TxOf[h].price <= TxOf[old].price

(* Variant for mutation testing: a replacement removes what it unlocks. *)
ReadyAddCascades(p, t) ==
    LET h == t.hash
        old == p.provided[Provides(h)]
        r == IF old = None THEN p ELSE remove_with_markers(p, <<old>>, {})
        inherited == IF old = None \/ ~IsReady(p, old) THEN <<>> ELSE p.ready[old].unlocks
        prevs == {r.provided[m] : m \in t.requires} \ {None}
        linked == [x \in Hash |-> IF x \in prevs
                                  THEN [r.ready[x] EXCEPT !.unlocks = Append(@, h)]
                                  ELSE r.ready[x]]
        entry == [id |-> r.id, requires |-> t.requires, unlocks |-> inherited,
                  requires_offset |-> Cardinality({m \in t.requires : r.provided[m] = None})]
    IN  [r EXCEPT !.id = @ + 1, !.provided[Provides(h)] = h,
                  !.ready = [linked EXCEPT ![h] = entry],
                  !.independent = IF prevs = {} THEN @ \cup {[hash |-> h, id |-> r.id]} ELSE @]

ReadyAdd(p, t) ==
    LET h == t.hash
        old == p.provided[Provides(h)]
        r == IF old = None THEN p ELSE remove_with_markers(p, <<old>>, {Provides(h)})
        inherited == IF old = None \/ ~IsReady(p, old) THEN <<>> ELSE p.ready[old].unlocks
        prevs == {r.provided[m] : m \in t.requires} \ {None}
        linked == [x \in Hash |-> IF x \in prevs
                                  THEN [r.ready[x] EXCEPT !.unlocks = Append(@, h)]
                                  ELSE r.ready[x]]
        entry == [id |-> r.id, requires |-> t.requires, unlocks |-> inherited,
                  requires_offset |-> Cardinality({m \in t.requires : r.provided[m] = None})]
    IN  [r EXCEPT !.id = @ + 1, !.provided[Provides(h)] = h,
                  !.ready = [linked EXCEPT ![h] = entry],
                  !.independent = IF prevs = {} THEN @ \cup {[hash |-> h, id |-> r.id]} ELSE @]

(* prune_tags: the transaction that provides the marker goes, and with it   *)
(* those before it that unlock nothing else.                                *)
RECURSIVE prune_tags(_, _)
prune_tags(p, stack) ==
    IF stack = <<>> THEN p
    ELSE LET m == Last(stack)
             h == p.provided[m]
             q == [p EXCEPT !.provided[m] = None]
             tx == p.ready[h]
             gone == [p.ready EXCEPT ![h] = None]
             prevs == {x \in {q.provided[n] : n \in tx.requires} \ {None} : gone[x] # None}
             cut == IF prevs = {} THEN gone ELSE Unlink(gone, CHOOSE x \in prevs : TRUE, h)
             more == {x \in prevs : cut[x].unlocks = <<>>}
             Times(x) == Cardinality({i \in DOMAIN tx.unlocks : tx.unlocks[i] = x})
             freed == [x \in Hash |-> IF cut[x] = None THEN None
                                      ELSE [cut[x] EXCEPT !.requires_offset = @ + Times(x)]]
             now == {x \in Hash : /\ freed[x] # None /\ Times(x) > 0
                                  /\ cut[x].requires_offset < Cardinality(cut[x].requires)
                                  /\ freed[x].requires_offset >= Cardinality(cut[x].requires)}
         IN  IF h = None \/ ~IsReady(p, h) THEN prune_tags(q, Front(stack))
             ELSE prune_tags(
                    [q EXCEPT !.ready = freed,
                              !.independent = {r \in @ : r.hash # h}
                                  \cup {[hash |-> x, id |-> freed[x].id] : x \in now}],
                    Front(stack) \o SetToSeq({Provides(x) : x \in more}))

-----------------------------------------------------------------------------
(* PoolInner *)

(* add_ready_transaction: queue holds the new transaction and what it has   *)
(* unlocked. Only the new one can make the operation fail, and then what    *)
(* it unlocked is gone from both queues.                                    *)
RECURSIVE Import(_, _, _, _)
Import(p, queue, new, order) ==
    IF queue = <<>> THEN [ok |-> TRUE, pool |-> p]
    ELSE LET t == Head(queue)
             u == mark_and_unlock(p, Provides(t.hash), order)
             refused == ReadyUnderpriced(u.pool, t.hash)
         IN  IF refused /\ new THEN [ok |-> FALSE, pool |-> u.pool]
             ELSE Import(IF refused THEN u.pool ELSE ReadyAdd(u.pool, t),
                         Tail(queue) \o u.unlocked, FALSE, order)

add_ready_transaction(p, t, order) == Import(p, <<t>>, TRUE, order)

(* add_transaction returns [ok, ready, pool]. *)
add_transaction(p, h, requires, order) ==
    LET missing == {m \in requires : p.provided[m] = None}
        add == add_ready_transaction(p, [hash |-> h, requires |-> requires], order)
    IN  IF contains(p, h) THEN [ok |-> FALSE, ready |-> FALSE, pool |-> p]
        ELSE IF missing = {} THEN [ok |-> add.ok, ready |-> TRUE, pool |-> add.pool]
        ELSE IF PendingUnderpriced(p, h) THEN [ok |-> FALSE, ready |-> FALSE, pool |-> p]
        ELSE [ok |-> TRUE, ready |-> FALSE, pool |-> PendingAdd(p, h, requires, missing)]

(* prune_markers: first every marker is checked off and pruned, then the    *)
(* transactions that waited for one are imported.                           *)
RECURSIVE Prune(_, _, _, _)
Prune(p, markers, imports, order) ==
    IF markers = <<>>
    THEN IF imports = <<>> THEN p
         ELSE Prune(add_ready_transaction(p, Head(imports), order).pool, <<>>,
                    Tail(imports), order)
    ELSE LET u == mark_and_unlock(p, Head(markers), order)
         IN  Prune(prune_tags(u.pool, <<Head(markers)>>), Tail(markers),
                   imports \o u.unlocked, order)

prune_markers(p, markers, order) == Prune(p, markers, <<>>, order)

remove_invalid(p, hashes) ==
    PendingRemove(remove_with_markers(p, hashes, {}), ToSet(hashes))

drop_transaction(p, h) == remove_with_markers(p, <<h>>, {})
=============================================================================
