---------------------------- MODULE MCAnvilNode ----------------------------
(* A small instance of AnvilNode: transactions a0 and a1 of one sender, and *)
(* x0, which competes with a0 for its nonce.                                *)
EXTENDS AnvilNode

CONSTANTS a0, a1, x0, alice, m1

Tx(n, price, gas) == [from |-> alice, nonce |-> n, price |-> price, gas |-> gas]
Txs == [h \in Hash |-> CASE h = a0 -> Tx(0, 1, 2) [] h = a1 -> Tx(1, 2, 2) [] h = x0 -> Tx(0, 2, 1)]
SomeOrders == LET o == SetToSeq(Hash) IN {o, Reverse(o)}

(* Blocks come at an interval and on request, for two transactions of one   *)
(* sender; or when transactions are ready or not at all, and a third        *)
(* competes with the first. Between the two the mode changes at the start.  *)
(* A transaction with nonce 0 requires nothing by either RPC and is sent    *)
(* raw. The bound on blocks holds for those under way, too.                 *)
Interval == mode = "interval"
PoolNext ==
    \/ \E h \in Hash : Sending(h)
    \/ \E h \in Hash : (Interval => h # x0) /\ Request(h, "raw")
    \/ Request(a1, "rpc")
    \/ ~Interval /\ \E h \in Drops : anvil_drop_transaction(h)
    \/ ~Interval /\ anvil_set_interval_mining("none")
    \/ Init /\ \E to \in Modes : anvil_set_interval_mining(to)
    \/ (Interval => Init) /\ \E on \in BOOLEAN : anvil_set_auto_mine(on)
    \/ ReadyTransactionMiner \/ FixedBlockTimeMiner \/ MineNext
    \/ Interval /\ mine_one(m1)
    \/ \E m \in AllMiners : /\ mining[m].pc = "store" => Len(blocks) < MaxBlocks
                            /\ Mining(m)

PoolSpec == Init /\ [][PoolNext]_vars
=============================================================================
