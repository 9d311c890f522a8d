------------------------------- MODULE EvmGas -------------------------------
(***************************************************************************)
(* The gas of a transaction in revm: the Gas counter of every frame          *)
(* (interpreter/src/gas.rs), the price and the refund of SSTORE (gas/calc.rs,*)
(* the rules since London), calls with their 63/64 part and stipend          *)
(* (instructions/host.rs), and the refund at the end (evm_impl.rs).          *)
(*                                                                         *)
(* The prices are parameters. The slots are those of one account; a frame   *)
(* that fails gives back the values and the warmth it found.                *)
(***************************************************************************)
EXTENDS Integers, Sequences, FiniteSets

CONSTANTS
    Slots, Values,          \* 0 is a value
    Initial,                \* initial cost of the transaction: its data, its access list
    Limit,                  \* its gas limit, less the initial cost
    SSTORE_SET, SSTORE_RESET, COLD_SLOAD_COST, WARM_STORAGE_READ_COST,
    ACCESS_LIST_STORAGE_KEY, CALL_STIPEND, CALLVALUE,
    Part,                   \* 64: a call leaves one part in Part behind
    MEMORY, Quad,           \* memory_gas: linear price, divisor of the square
    Quotient,               \* max_refund_quotient
    U64,                    \* 2^64
    Words,                  \* memory sizes that are asked for
    Asks,                   \* gas limits that calls ask for
    MaxDepth, MaxStores     \* bounds on frames, and on the SSTOREs that stand

ASSUME GasAssumption ==
    /\ IsFiniteSet(Slots) /\ Values \subseteq Nat /\ 0 \in Values
    /\ Words \subseteq Nat /\ Asks \subseteq Nat
    /\ {Initial, Limit, SSTORE_SET, SSTORE_RESET, COLD_SLOAD_COST, WARM_STORAGE_READ_COST,
        ACCESS_LIST_STORAGE_KEY, CALL_STIPEND, CALLVALUE, MEMORY, MaxDepth, MaxStores} \subseteq Nat
    /\ {Part, Quad, Quotient, U64} \subseteq Nat \ {0}
    /\ SSTORE_SET >= WARM_STORAGE_READ_COST
    /\ SSTORE_RESET >= COLD_SLOAD_COST + WARM_STORAGE_READ_COST
    /\ CALLVALUE >= CALL_STIPEND

VARIABLES
    frames,     \* the Gas of every frame, the running one last
    original, present, warm,
    marks,      \* what each frame found: values, warmth, net
    halted,     \* the running frame has failed
    net,        \* what the SSTOREs that stand cost, less their refunds and the price of a warm read each
    stores,
    result      \* of the transaction: gas spent, refund claimed and given

vars == <<frames, original, present, warm, marks, halted, net, stores, result>>

(* Gas::new, remaining *)
GasNew(limit) == [limit |-> limit, used |-> 0, memory |-> 0, all |-> 0, refunded |-> 0]
Remaining(g) == g.limit - g.all

(* record_cost; a sum that overflows u64 is above the limit. *)
Affords(g, cost) == g.all + cost <= g.limit
RecordCost(g, cost) == [g EXCEPT !.used = @ + cost, !.all = @ + cost]

(* record_memory *)
AffordsMemory(g, m) == m > g.memory => g.used + m <= g.limit
RecordMemory(g, m) == IF m > g.memory THEN [g EXCEPT !.memory = m, !.all = g.used + m] ELSE g

EraseCost(g, returned) == [g EXCEPT !.used = @ - returned, !.all = @ - returned]
RecordRefund(g, refund) == [g EXCEPT !.refunded = @ + refund]

memory_gas(a) == MEMORY * a + (a * a) \div Quad

-----------------------------------------------------------------------------
gas_sstore_reset == SSTORE_RESET - COLD_SLOAD_COST
sstore_clears_schedule == SSTORE_RESET - COLD_SLOAD_COST + ACCESS_LIST_STORAGE_KEY

sstore_cost(orig, cur, new) ==
    IF new # cur /\ orig = cur
    THEN IF orig = 0 THEN SSTORE_SET ELSE gas_sstore_reset
    ELSE WARM_STORAGE_READ_COST
cold_cost(s) == IF s \in warm THEN 0 ELSE COLD_SLOAD_COST

(* Variant for mutation testing: a clear that is undone keeps its refund. *)
sstore_refund_kept(orig, cur, new) ==
    IF cur = new THEN 0
    ELSE IF orig = cur /\ new = 0 THEN sstore_clears_schedule
    ELSE (IF orig # 0 /\ cur # 0 /\ new = 0 THEN sstore_clears_schedule ELSE 0)
       + (IF orig # new THEN 0
          ELSE IF orig = 0 THEN SSTORE_SET - WARM_STORAGE_READ_COST
          ELSE gas_sstore_reset - WARM_STORAGE_READ_COST)

sstore_refund(orig, cur, new) ==
    IF cur = new THEN 0
    ELSE IF orig = cur /\ new = 0 THEN sstore_clears_schedule
    ELSE (IF orig = 0 THEN 0
          ELSE IF cur = 0 THEN 0 - sstore_clears_schedule
          ELSE IF new = 0 THEN sstore_clears_schedule
          ELSE 0)
       + (IF orig # new THEN 0
          ELSE IF orig = 0 THEN SSTORE_SET - WARM_STORAGE_READ_COST
          ELSE gas_sstore_reset - WARM_STORAGE_READ_COST)

-----------------------------------------------------------------------------
Running == frames # <<>> /\ ~halted
Top == frames[Len(frames)]
SetTop(g) == frames' = [frames EXCEPT ![Len(frames)] = g]

Mark == [present |-> present, warm |-> warm, net |-> net, stores |-> stores, remaining |-> 0]

Init ==
    /\ original \in [Slots -> Values] /\ present = original /\ warm = {}
    /\ net = [s \in Slots |-> 0] /\ stores = 0
    /\ frames = <<GasNew(Limit)>> /\ marks = <<Mark>>
    /\ halted = FALSE /\ result = [spend |-> 0, claimed |-> 0, refund |-> 0]

Halt == halted' = TRUE /\ UNCHANGED <<frames, net, stores>>

(* The host stores the value before the gas is charged. *)
SStore(s, v) ==
    LET cost == sstore_cost(original[s], present[s], v) + cold_cost(s)
        refund == sstore_refund(original[s], present[s], v)
    IN  /\ Running /\ stores < MaxStores
        /\ present' = [present EXCEPT ![s] = v] /\ warm' = warm \cup {s}
        /\ \/ /\ Remaining(Top) <= CALL_STIPEND \/ ~Affords(Top, cost)
              /\ Halt
           \/ /\ Remaining(Top) > CALL_STIPEND /\ Affords(Top, cost)
              /\ SetTop(RecordRefund(RecordCost(Top, cost), refund))
              /\ net' = [net EXCEPT ![s] = @ + cost - cold_cost(s) - WARM_STORAGE_READ_COST - refund]
              /\ stores' = stores + 1 /\ UNCHANGED halted
        /\ UNCHANGED <<original, marks, result>>

(* memory_resize *)
Resize(words) ==
    /\ Running /\ memory_gas(words) > Top.memory
    /\ \/ ~AffordsMemory(Top, memory_gas(words)) /\ Halt
       \/ /\ AffordsMemory(Top, memory_gas(words))
          /\ SetTop(RecordMemory(Top, memory_gas(words))) /\ UNCHANGED <<halted, net, stores>>
    /\ UNCHANGED <<original, present, warm, marks, result>>

(* Variant for mutation testing: the transfer is free. *)
call_cost_free(value) == WARM_STORAGE_READ_COST

call_cost(value) == WARM_STORAGE_READ_COST + (IF value THEN CALLVALUE ELSE 0)

(* The gas that a call passes on: at most all but one part. *)
GasLimit(g, asked) ==
    LET most == Remaining(g) - Remaining(g) \div Part
    IN  IF most <= asked THEN most ELSE asked

Call(value, asked) ==
    LET paid == RecordCost(Top, call_cost(value))
        limit == GasLimit(paid, asked)
    IN  /\ Running /\ Len(frames) < MaxDepth
        /\ \/ ~Affords(Top, call_cost(value)) /\ Halt /\ UNCHANGED marks
           \/ /\ Affords(Top, call_cost(value))
              /\ frames' = Append([frames EXCEPT ![Len(frames)] = RecordCost(paid, limit)],
                                  GasNew(limit + (IF value THEN CALL_STIPEND ELSE 0)))
              /\ marks' = Append(marks, [Mark EXCEPT !.remaining = Remaining(Top)])
              /\ UNCHANGED <<halted, net, stores>>
        /\ UNCHANGED <<original, present, warm, result>>

-----------------------------------------------------------------------------
Restore ==
    LET mark == marks[Len(marks)]
    IN  /\ present' = mark.present /\ warm' = mark.warm
        /\ net' = mark.net /\ stores' = mark.stores

(* Variant for mutation testing: a frame that reverts passes its refund on. *)
ReturnedRefunds(g, child, how) ==
    IF how = "halt" THEN g ELSE RecordRefund(EraseCost(g, Remaining(child)), child.refunded)

(* The gas of the caller when its callee ends: what is left comes back      *)
(* unless it failed, the refund only if it succeeded.                       *)
Returned(g, child, how) ==
    CASE how = "ok" -> RecordRefund(EraseCost(g, Remaining(child)), child.refunded)
      [] how = "revert" -> EraseCost(g, Remaining(child))
      [] how = "halt" -> g

Ends(how) ==
    /\ frames # <<>> /\ (how = "halt" <=> halted) /\ halted' = FALSE
    /\ IF how = "ok" THEN UNCHANGED <<present, warm, net, stores>> ELSE Restore
    /\ marks' = SubSeq(marks, 1, Len(marks) - 1)

Return(how) ==
    /\ Len(frames) > 1 /\ Ends(how)
    /\ LET n == Len(frames) - 1
       IN  frames' = [SubSeq(frames, 1, n) EXCEPT ![n] = Returned(frames[n], Top, how)]
    /\ UNCHANGED <<original, result>>

(* transact and finalize. The transaction is charged its initial cost and   *)
(* then all the rest of its limit, before the first frame runs. The refund  *)
(* is taken as a u64.                                                       *)
Prepaid == RecordCost(RecordCost(GasNew(Initial + Limit), Initial), Limit)
AsU64(i) == i % U64
Finalize(how) ==
    /\ Len(frames) = 1 /\ Ends(how) /\ frames' = <<>>
    /\ LET gas == Returned(Prepaid, Top, how)
           most == gas.all \div Quotient
       IN  result' = [spend |-> gas.all, claimed |-> gas.refunded,
                      refund |-> IF AsU64(gas.refunded) <= most THEN AsU64(gas.refunded) ELSE most]
    /\ UNCHANGED original

Next ==
    \/ \E s \in Slots, v \in Values : SStore(s, v)
    \/ \E w \in Words : Resize(w)
    \/ \E value \in BOOLEAN, asked \in Asks : Call(value, asked)
    \/ \E how \in {"ok", "revert", "halt"} : Return(how) \/ Finalize(how)
Spec == Init /\ [][Next]_vars

-----------------------------------------------------------------------------
(* The counters of a frame agree, and none of the subtractions of           *)
(* erase_cost and remaining goes below zero, although a callee may return   *)
(* a stipend that was never charged.                                        *)
NoUnderflow ==
    \A i \in 1..Len(frames) :
        /\ frames[i].used >= 0 /\ frames[i].all = frames[i].used + frames[i].memory
        /\ frames[i].all <= frames[i].limit

(* A call never leaves its caller with more gas than it had. *)
CallsMakeNoGas ==
    [][\A how \in {"ok", "revert", "halt"} :
          Return(how) => Remaining(frames'[Len(frames')]) <= marks[Len(marks)].remaining]_vars

(* What a slot costs depends on its value before the transaction and its    *)
(* value now, and not on the way between them: the net metering that the    *)
(* prices and the refunds of SSTORE are made for.                           *)
Net(orig, cur) ==
    IF orig = cur THEN 0
    ELSE IF orig = 0 THEN SSTORE_SET - WARM_STORAGE_READ_COST
    ELSE gas_sstore_reset - WARM_STORAGE_READ_COST - (IF cur = 0 THEN sstore_clears_schedule ELSE 0)
NetMetered == ~halted => \A s \in Slots : net[s] = Net(original[s], present[s])

(* The refund of a transaction is no debt, which as a u64 would be the      *)
(* largest refund there is, and only a part of what was spent.              *)
RefundSound ==
    /\ result.claimed >= 0 /\ result.refund <= result.claimed
    /\ result.refund * Quotient <= result.spend
=============================================================================
