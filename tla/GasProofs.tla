----------------------------- MODULE GasProofs -----------------------------
(***************************************************************************)
(* The gas counters of EvmGas never underflow, no call makes gas, and the   *)
(* metering of SSTORE is net, for all prices that satisfy GasAssumption and *)
(* for any number of slots, values and frames.                              *)
(***************************************************************************)
EXTENDS EvmGas, Functions, SequenceTheorems, TLAPS

GasRecord == [limit : Nat, used : Nat, memory : Nat, all : Nat, refunded : Int]
MarkRecord ==
    [present : [Slots -> Values], warm : SUBSET Slots, net : [Slots -> Int], stores : Nat,
     remaining : Nat]

Types ==
    /\ frames \in Seq(GasRecord) /\ marks \in Seq(MarkRecord) /\ Len(marks) = Len(frames)
    /\ original \in [Slots -> Values] /\ present \in [Slots -> Values] /\ warm \in SUBSET Slots
    /\ net \in [Slots -> Int] /\ stores \in Nat /\ halted \in BOOLEAN

(* The gas that a callee was given was charged to its caller, or is less    *)
(* than what the caller paid for the call.                                  *)
ChargedOf(f, m) ==
    \A i \in 1..Len(f) - 1 :
        /\ f[i + 1].limit <= f[i].used
        /\ f[i + 1].limit + Remaining(f[i]) <= m[i + 1].remaining
Charged == ChargedOf(frames, marks)

SoundGas(g) == g.used >= 0 /\ g.all = g.used + g.memory /\ g.all <= g.limit

MarksNet ==
    \A i \in 1..Len(marks), s \in Slots :
        marks[i].net[s] = Net(original[s], marks[i].present[s])

IInv == Types /\ NoUnderflow /\ Charged /\ MarksNet /\ NetMetered

-----------------------------------------------------------------------------
(* The price of an SSTORE, less its refund and the price of a warm read, is *)
(* the difference that it makes to Net.                                     *)
LEMMA StoreIsNet ==
    ASSUME NEW orig \in Nat, NEW cur \in Nat, NEW new \in Nat
    PROVE  /\ sstore_cost(orig, cur, new) \in Nat /\ sstore_refund(orig, cur, new) \in Int
           /\ Net(orig, cur) \in Int
           /\ Net(orig, new) = Net(orig, cur) + sstore_cost(orig, cur, new)
                - WARM_STORAGE_READ_COST - sstore_refund(orig, cur, new)
BY GasAssumption, SMTT(30) DEF sstore_cost, sstore_refund, Net, gas_sstore_reset, sstore_clears_schedule

(* A part of the gas is not more than the gas. *)
LEMMA PartIsLess ==
    ASSUME NEW r \in Nat, NEW p \in Nat \ {0}
    PROVE  r \div p \in Nat /\ r \div p <= r
BY SMTT(30)

(* The price of memory is a number. *)
LEMMA MemoryIsNat ==
    ASSUME NEW a \in Nat
    PROVE  memory_gas(a) \in Nat
<1>1. a * a \in Nat
    BY SMT
<1>2. PICK sq \in Nat : sq = a * a
    BY Zenon, <1>1
<1>3. Quad \in Nat \ {0} /\ MEMORY \in Nat
    BY Zenon, GasAssumption
<1>4. sq \div Quad \in Nat
    BY Zenon, <1>3, PartIsLess
<1>5. MEMORY * a \in Nat
    BY <1>3, SMT
<1> QED
    BY <1>2, <1>4, <1>5 DEF memory_gas

(* The gas that is passed on is there. *)
LEMMA PassedOn ==
    ASSUME NEW g \in GasRecord, g.all <= g.limit, NEW asked \in Nat
    PROVE  GasLimit(g, asked) \in Nat /\ GasLimit(g, asked) <= Remaining(g)
<1>1. Remaining(g) \in Nat
    BY DEF GasRecord, Remaining
<1>2. Part \in Nat \ {0}
    BY Zenon, GasAssumption
<1>3. PICK d \in Nat : d = Remaining(g) \div Part /\ d <= Remaining(g)
    BY Zenon, <1>1, <1>2, PartIsLess
<1> QED
    BY <1>1, <1>3 DEF GasLimit

(* IInv holds when a transaction starts. *)
LEMMA InitIInv == Init => IInv
<1> SUFFICES ASSUME Init PROVE IInv
    BY Zenon
<1> USE DEF Init
<1>1. GasNew(Limit) \in GasRecord /\ Mark \in MarkRecord
    BY GasAssumption DEF GasNew, GasRecord, Mark, MarkRecord
<1>2. frames \in Seq(GasRecord) /\ marks \in Seq(MarkRecord) /\ Len(marks) = Len(frames)
    BY <1>1
<1>6. net \in [Slots -> Int] /\ stores \in Nat /\ halted \in BOOLEAN /\ warm \in SUBSET Slots
    <2>1. 0 \in Int
        OBVIOUS
    <2>2. net \in [Slots -> Int]
        BY <2>1, Zenon
    <2> QED
        BY Zenon, <2>2
<1>7. present \in [Slots -> Values] /\ original \in [Slots -> Values]
    BY Zenon
<1>8. Types
    BY <1>2, <1>6, <1>7, Zenon DEF Types
<1>3. NoUnderflow /\ Charged
    BY GasAssumption DEF NoUnderflow, Charged, ChargedOf, GasNew
<1>4. \A s \in Slots : net[s] = Net(original[s], present[s])
    BY Zenon DEF Net
<1>5. MarksNet /\ NetMetered
    BY <1>4 DEF MarksNet, NetMetered, Mark
<1> QED
    BY Zenon, <1>8, <1>3, <1>5 DEF IInv

-----------------------------------------------------------------------------
(* The running frame gets a counter with the same limit. *)
LEMMA TopChanges ==
    ASSUME IInv, frames # <<>>, NEW g \in GasRecord, SoundGas(g), g.limit = Top.limit,
           frames' = [frames EXCEPT ![Len(frames)] = g], marks' = marks
    PROVE  /\ frames' \in Seq(GasRecord) /\ Len(frames') = Len(frames)
           /\ NoUnderflow' /\ Charged'
<1>1. frames \in Seq(GasRecord) /\ Len(frames) \in Nat \ {0} /\ marks \in Seq(MarkRecord)
    BY DEF IInv, Types
<1>2. frames' \in Seq(GasRecord) /\ Len(frames') = Len(frames)
    BY <1>1
<1>3. \A i \in 1..Len(frames) : frames'[i] = IF i = Len(frames) THEN g ELSE frames[i]
    BY <1>1
<1>4. NoUnderflow'
    BY ZenonT(30), <1>2, <1>3 DEF IInv, NoUnderflow, SoundGas
<1>5. Charged'
    <2> SUFFICES ASSUME NEW i \in 1..Len(frames) - 1
                 PROVE  /\ frames'[i + 1].limit <= frames'[i].used
                        /\ frames'[i + 1].limit + Remaining(frames'[i]) <= marks'[i + 1].remaining
        BY Zenon, <1>2 DEF Charged, ChargedOf
    <2>1. frames'[i] = frames[i] /\ frames'[i + 1].limit = frames[i + 1].limit
        BY <1>1, <1>3 DEF Top
    <2> QED
        BY Zenon, <2>1 DEF IInv, Charged, ChargedOf
<1> QED
    BY Zenon, <1>2, <1>4, <1>5

(* The running frame has a sound counter. *)
LEMMA TopIsSound ==
    ASSUME IInv, frames # <<>>
    PROVE  Top \in GasRecord /\ SoundGas(Top) /\ Len(frames) \in Nat \ {0}
BY DEF IInv, Types, NoUnderflow, SoundGas, Top

(* record_cost keeps a counter sound. *)
LEMMA CostIsSound ==
    ASSUME NEW g \in GasRecord, SoundGas(g), NEW cost \in Nat, Affords(g, cost)
    PROVE  /\ RecordCost(g, cost) \in GasRecord /\ SoundGas(RecordCost(g, cost))
           /\ RecordCost(g, cost).limit = g.limit /\ RecordCost(g, cost).used = g.used + cost
           /\ Remaining(RecordCost(g, cost)) = Remaining(g) - cost
<1>1. RecordCost(g, cost) \in GasRecord
    <2>1. PICK u, a \in Nat : u = g.used + cost /\ a = g.all + cost
        BY DEF GasRecord
    <2>2. RecordCost(g, cost) = [[g EXCEPT !.used = u] EXCEPT !.all = a]
        BY <2>1, Zenon DEF GasRecord, RecordCost
    <2> QED
        BY Zenon, <2>2 DEF GasRecord
<1>2. /\ RecordCost(g, cost).limit = g.limit /\ RecordCost(g, cost).memory = g.memory
      /\ RecordCost(g, cost).used = g.used + cost /\ RecordCost(g, cost).all = g.all + cost
    BY Zenon DEF GasRecord, RecordCost
<1>3. g.limit \in Nat /\ g.used \in Nat /\ g.memory \in Nat /\ g.all \in Nat
    BY Zenon DEF GasRecord
<1> QED
    BY <1>1, <1>2, <1>3 DEF SoundGas, Affords, Remaining

(* SSTORE keeps IInv: what it charges is what it adds to Net. *)
LEMMA SStoreIInv ==
    ASSUME IInv, NEW s \in Slots, NEW v \in Values, SStore(s, v)
    PROVE  IInv'
<1> USE DEF SStore, Running
<1>1. Top \in GasRecord /\ SoundGas(Top) /\ frames # <<>>
    BY Zenon, TopIsSound
<1>2. Types
    BY Zenon DEF IInv
<1>3. original[s] \in Nat /\ present[s] \in Nat /\ v \in Nat
    BY Zenon, <1>2, GasAssumption DEF Types
<1>4. PICK price \in Nat : price = sstore_cost(original[s], present[s], v)
    BY Zenon, <1>3, StoreIsNet
<1>5. PICK refund \in Int : refund = sstore_refund(original[s], present[s], v)
    BY Zenon, <1>3, StoreIsNet
<1>6. PICK cold \in Nat : cold = cold_cost(s)
    BY Zenon, GasAssumption DEF cold_cost
<1>7. present' \in [Slots -> Values] /\ warm' \in SUBSET Slots /\ marks' = marks
      /\ original' = original /\ present' = [present EXCEPT ![s] = v]
    BY Zenon, <1>2 DEF Types
<1>8. MarksNet'
    BY Zenon, <1>7 DEF IInv, MarksNet
<1>9. CASE Halt
    <2>1. Types'
        BY Zenon, <1>2, <1>7, <1>9 DEF Types, Halt
    <2>2. NoUnderflow' /\ Charged' /\ NetMetered'
        BY Zenon, <1>7, <1>9 DEF IInv, NoUnderflow, Charged, NetMetered, Halt
    <2> QED
        BY Zenon, <1>8, <2>1, <2>2 DEF IInv
<1>10. CASE /\ Remaining(Top) > CALL_STIPEND /\ Affords(Top, price + cold)
            /\ SetTop(RecordRefund(RecordCost(Top, price + cold), refund))
            /\ net' = [net EXCEPT ![s] = @ + (price + cold) - cold - WARM_STORAGE_READ_COST - refund]
            /\ stores' = stores + 1 /\ UNCHANGED halted
    <2>1. PICK g : g = RecordRefund(RecordCost(Top, price + cold), refund)
        BY Zenon
    <2>2. g \in GasRecord /\ SoundGas(g) /\ g.limit = Top.limit
        <3>1. RecordCost(Top, price + cold) \in GasRecord /\ SoundGas(RecordCost(Top, price + cold))
              /\ RecordCost(Top, price + cold).limit = Top.limit
            BY <1>1, <1>10, CostIsSound
        <3> QED
            BY SMTT(30), <2>1, <3>1 DEF GasRecord, SoundGas, RecordRefund
    <2>3. frames' = [frames EXCEPT ![Len(frames)] = g]
        BY Zenon, <1>10, <2>1 DEF SetTop
    <2>4. /\ frames' \in Seq(GasRecord) /\ Len(frames') = Len(frames)
          /\ NoUnderflow' /\ Charged'
        BY Zenon, <1>1, <1>7, <2>2, <2>3, TopChanges
    <2>5. WARM_STORAGE_READ_COST \in Nat
        BY Zenon, GasAssumption
    <2>6. net' \in [Slots -> Int]
        BY <1>2, <1>10, <2>5 DEF Types
    <2>7. Types'
        BY <1>2, <1>7, <1>10, <2>4, <2>6 DEF Types
    <2>8. NetMetered'
        <3> SUFFICES ASSUME NEW t \in Slots PROVE net'[t] = Net(original[t], present'[t])
            BY Zenon, <1>7 DEF NetMetered
        <3>1. net[t] = Net(original[t], present[t])
            BY Zenon DEF IInv, NetMetered
        <3>2. CASE t # s
            BY Zenon, <3>1, <3>2, <1>2, <1>7, <1>10 DEF Types
        <3>3. CASE t = s
            <4>1. present'[s] = v
                BY Zenon, <1>2, <1>7 DEF Types
            <4>2. net'[s] = net[s] + (price + cold) - cold - WARM_STORAGE_READ_COST - refund
                BY Zenon, <1>2, <1>10 DEF Types
            <4>3. Net(original[s], v) = Net(original[s], present[s]) + price - WARM_STORAGE_READ_COST - refund
                <5>1. Net(original[s], v) = Net(original[s], present[s])
                        + sstore_cost(original[s], present[s], v) - WARM_STORAGE_READ_COST
                        - sstore_refund(original[s], present[s], v)
                    BY <1>3, StoreIsNet, ZenonT(30)
                <5> QED
                    BY <5>1, <1>4, <1>5, Zenon
            <4>4. net[s] \in Int
                BY Zenon, <1>2 DEF Types
            <4> QED
                BY <3>1, <3>3, <4>1, <4>2, <4>3, <4>4, <2>5
        <3> QED
            BY Zenon, <3>2, <3>3
    <2> QED
        BY Zenon, <1>8, <2>4, <2>7, <2>8 DEF IInv
<1> QED
    BY Zenon, <1>4, <1>5, <1>6, <1>9, <1>10

(* record_memory keeps a counter sound. *)
LEMMA MemoryIsSound ==
    ASSUME NEW g \in GasRecord, SoundGas(g), NEW m \in Nat, AffordsMemory(g, m)
    PROVE  /\ RecordMemory(g, m) \in GasRecord /\ SoundGas(RecordMemory(g, m))
           /\ RecordMemory(g, m).limit = g.limit
<1>1. CASE ~(m > g.memory)
    BY Zenon, <1>1 DEF RecordMemory
<1>2. CASE m > g.memory
    <2>1. PICK a \in Nat : a = g.used + m
        BY DEF GasRecord
    <2>2. RecordMemory(g, m) = [[g EXCEPT !.memory = m] EXCEPT !.all = a]
        BY <1>2, <2>1, Zenon DEF GasRecord, RecordMemory
    <2>3. RecordMemory(g, m) \in GasRecord
        BY Zenon, <2>2 DEF GasRecord
    <2>4. /\ RecordMemory(g, m).limit = g.limit /\ RecordMemory(g, m).memory = m
          /\ RecordMemory(g, m).used = g.used /\ RecordMemory(g, m).all = g.used + m
        BY Zenon, <2>1, <2>2 DEF GasRecord
    <2>5. g.limit \in Nat /\ g.used \in Nat
        BY Zenon DEF GasRecord
    <2> QED
        BY Zenon, <1>2, <2>3, <2>4, <2>5 DEF SoundGas, AffordsMemory
<1> QED
    BY Zenon, <1>1, <1>2

(* Growing the memory keeps IInv. *)
LEMMA ResizeIInv ==
    ASSUME IInv, NEW w \in Words, Resize(w)
    PROVE  IInv'
<1> USE DEF Resize, Running
<1>1. Top \in GasRecord /\ SoundGas(Top) /\ frames # <<>> /\ Types
    BY Zenon, TopIsSound DEF IInv
<1>2. PICK m \in Nat : m = memory_gas(w)
    BY Zenon, MemoryIsNat, GasAssumption
<1>3. MarksNet' /\ UNCHANGED <<original, present, warm, marks>>
    BY Zenon DEF IInv, MarksNet
<1>4. CASE Halt
    <2>1. Types'
        BY Zenon, <1>1, <1>3, <1>4 DEF Types, Halt
    <2>2. NoUnderflow' /\ Charged' /\ NetMetered'
        BY Zenon, <1>3, <1>4 DEF IInv, NoUnderflow, Charged, NetMetered, Halt
    <2> QED
        BY Zenon, <1>3, <2>1, <2>2 DEF IInv
<1>5. CASE AffordsMemory(Top, m) /\ SetTop(RecordMemory(Top, m)) /\ UNCHANGED <<halted, net, stores>>
    <2>1. PICK g : g = RecordMemory(Top, m)
        BY Zenon
    <2>2. g \in GasRecord /\ SoundGas(g) /\ g.limit = Top.limit
        BY Zenon, <1>1, <1>5, <2>1, MemoryIsSound
    <2>3. frames' = [frames EXCEPT ![Len(frames)] = g]
        BY Zenon, <1>5, <2>1 DEF SetTop
    <2>4. /\ frames' \in Seq(GasRecord) /\ Len(frames') = Len(frames)
          /\ NoUnderflow' /\ Charged'
        BY Zenon, <1>1, <1>3, <2>2, <2>3, TopChanges
    <2>5. Types'
        BY Zenon, <1>1, <1>3, <1>5, <2>4 DEF Types
    <2>6. NetMetered'
        BY Zenon, <1>3, <1>5 DEF IInv, NetMetered
    <2> QED
        BY Zenon, <1>3, <2>4, <2>5, <2>6 DEF IInv
<1> QED
    BY Zenon, <1>2, <1>4, <1>5

-----------------------------------------------------------------------------
(* A call costs more than the stipend it gives. *)
LEMMA StipendIsPaid ==
    ASSUME NEW value \in BOOLEAN
    PROVE  \E cost, stipend \in Nat :
              /\ cost = call_cost(value) /\ stipend = (IF value THEN CALL_STIPEND ELSE 0)
              /\ stipend <= cost
<1>1. /\ WARM_STORAGE_READ_COST \in Nat /\ CALLVALUE \in Nat /\ CALL_STIPEND \in Nat
      /\ CALLVALUE >= CALL_STIPEND
    BY Zenon, GasAssumption
<1>2. CASE value
    <2>1. call_cost(value) = WARM_STORAGE_READ_COST + CALLVALUE
        BY <1>2, Zenon DEF call_cost
    <2>2. (IF value THEN CALL_STIPEND ELSE 0) = CALL_STIPEND
        BY <1>2, Zenon
    <2> QED
        BY <1>1, <2>1, <2>2
<1>3. CASE ~value
    <2>1. call_cost(value) = WARM_STORAGE_READ_COST + 0
        BY <1>3, Zenon DEF call_cost
    <2>2. (IF value THEN CALL_STIPEND ELSE 0) = 0
        BY <1>3, Zenon
    <2> QED
        BY <1>1, <2>1, <2>2
<1> QED
    BY Zenon, <1>2, <1>3

(* A call keeps IInv: the caller pays for the callee's limit. *)
LEMMA CallIInv ==
    ASSUME IInv, NEW value \in BOOLEAN, NEW asked \in Asks, Call(value, asked)
    PROVE  IInv'
<1> USE DEF Call, Running
<1>1. /\ Top \in GasRecord /\ SoundGas(Top) /\ frames # <<>> /\ Types
      /\ Len(frames) \in Nat \ {0}
    BY Zenon, TopIsSound DEF IInv
<1>2. PICK cost, stipend \in Nat :
         /\ cost = call_cost(value) /\ stipend = (IF value THEN CALL_STIPEND ELSE 0)
         /\ stipend <= cost
    BY Zenon, StipendIsPaid
<1>3. UNCHANGED <<original, present, warm>>
    BY Zenon
<1>4. CASE Halt /\ UNCHANGED marks
    <2>1. Types'
        BY Zenon, <1>1, <1>3, <1>4 DEF Types, Halt
    <2>2. NoUnderflow' /\ Charged' /\ NetMetered' /\ MarksNet'
        BY ZenonT(30), <1>3, <1>4 DEF IInv, NoUnderflow, Charged, NetMetered, MarksNet, Halt
    <2> QED
        BY Zenon, <2>1, <2>2 DEF IInv
<1>5. CASE /\ Affords(Top, cost)
           /\ frames' = Append([frames EXCEPT ![Len(frames)] =
                   RecordCost(RecordCost(Top, cost), GasLimit(RecordCost(Top, cost), asked))],
                 GasNew(GasLimit(RecordCost(Top, cost), asked) + stipend))
           /\ marks' = Append(marks, [Mark EXCEPT !.remaining = Remaining(Top)])
           /\ UNCHANGED <<halted, net, stores>>
    <2>1. PICK paid : paid = RecordCost(Top, cost)
        BY Zenon
    <2>2. /\ paid \in GasRecord /\ SoundGas(paid) /\ paid.limit = Top.limit
          /\ paid.used = Top.used + cost /\ Remaining(paid) = Remaining(Top) - cost
        BY Zenon, <1>1, <1>5, <2>1, CostIsSound
    <2>3. PICK limit : limit = GasLimit(paid, asked)
        BY Zenon
    <2>4. asked \in Nat
        BY Zenon, GasAssumption
    <2>5. limit \in Nat /\ limit <= Remaining(paid)
        BY Zenon, <2>2, <2>3, <2>4, PassedOn DEF SoundGas
    <2>6. Affords(paid, limit)
        BY <2>2, <2>5 DEF Affords, Remaining, GasRecord
    <2>7. PICK g : g = RecordCost(paid, limit)
        BY Zenon
    <2>8. /\ g \in GasRecord /\ SoundGas(g) /\ g.limit = Top.limit
          /\ g.used = Top.used + cost + limit /\ Remaining(g) = Remaining(Top) - cost - limit
        <3>1. /\ g \in GasRecord /\ SoundGas(g) /\ g.limit = paid.limit
              /\ g.used = paid.used + limit /\ Remaining(g) = Remaining(paid) - limit
            BY Zenon, <2>2, <2>5, <2>6, <2>7, CostIsSound
        <3> QED
            BY Zenon, <2>2, <3>1
    <2>10. PICK new : new = GasNew(limit + stipend)
        BY Zenon
    <2>11. new \in GasRecord /\ SoundGas(new) /\ new.limit = limit + stipend
        BY <2>5, <2>10 DEF GasNew, GasRecord, SoundGas
    <2>12. PICK mark : mark = [Mark EXCEPT !.remaining = Remaining(Top)]
        BY Zenon
    <2>13. Remaining(Top) \in Nat
        BY <1>1 DEF GasRecord, SoundGas, Remaining
    <2>14. /\ mark \in MarkRecord /\ mark.remaining = Remaining(Top)
           /\ mark.net = net /\ mark.present = present
        BY Zenon, <1>1, <2>12, <2>13 DEF MarkRecord, Mark, Types
    <2>15. frames' = Append([frames EXCEPT ![Len(frames)] = g], new) /\ marks' = Append(marks, mark)
        BY Zenon, <1>5, <2>1, <2>3, <2>7, <2>10, <2>12
    <2>16. PICK n \in Nat \ {0} : n = Len(frames)
        BY Zenon, <1>1
    <2>17. /\ frames' \in Seq(GasRecord) /\ Len(frames') = n + 1
           /\ \A i \in 1..n + 1 : frames'[i] = IF i = n + 1 THEN new ELSE IF i = n THEN g ELSE frames[i]
        BY SMTT(30), <1>1, <2>8, <2>11, <2>15, <2>16 DEF Types
    <2>18. /\ marks' \in Seq(MarkRecord) /\ Len(marks') = n + 1
           /\ \A i \in 1..n + 1 : marks'[i] = IF i = n + 1 THEN mark ELSE marks[i]
        BY SMTT(30), <1>1, <2>14, <2>15, <2>16 DEF Types
    <2>19. Types'
        BY Zenon, <1>1, <1>3, <1>5, <2>17, <2>18 DEF Types
    <2>20. NoUnderflow'
        BY SMTT(30), <2>8, <2>11, <2>16, <2>17 DEF IInv, NoUnderflow, SoundGas
    <2>21. Charged'
        <3> SUFFICES ASSUME NEW i \in 1..n
                     PROVE  /\ frames'[i + 1].limit <= frames'[i].used
                            /\ frames'[i + 1].limit + Remaining(frames'[i]) <= marks'[i + 1].remaining
            BY SMTT(30), <2>17 DEF Charged, ChargedOf
        <3>1. CASE i = n
            <4>1. frames'[i] = g /\ frames'[i + 1] = new /\ marks'[i + 1] = mark
                BY <3>1, <2>17, <2>18
            <4>2. Top.used \in Nat
                BY Zenon, <1>1 DEF GasRecord
            <4> QED
                BY SMTT(30), <4>1, <4>2, <2>5, <1>2, <2>8, <2>11, <2>13, <2>14
        <3>2. CASE i # n
            <4>1. frames'[i] = frames[i] /\ frames'[i + 1].limit = frames[i + 1].limit
                  /\ marks'[i + 1] = marks[i + 1]
                <5>1. i \in 1..n + 1 /\ i + 1 \in 1..n + 1 /\ i # n + 1 /\ i + 1 # n + 1 /\ i # n
                    BY SMTT(30), <3>2
                <5>2. /\ frames'[i] = frames[i] /\ marks'[i + 1] = marks[i + 1]
                      /\ frames'[i + 1] = IF i + 1 = n THEN g ELSE frames[i + 1]
                    BY Zenon, <2>17, <2>18, <5>1
                <5>3. frames'[i + 1].limit = frames[i + 1].limit
                    BY Zenon, <2>8, <2>16, <5>2 DEF Top
                <5> QED BY Zenon, <5>2, <5>3
            <4> QED
                BY SMTT(30), <3>2, <4>1, <2>16 DEF IInv, Charged, ChargedOf
        <3> QED
            BY Zenon, <3>1, <3>2
    <2>22. NetMetered'
        BY Zenon, <1>3, <1>5 DEF IInv, NetMetered
    <2>23. MarksNet'
        <3> SUFFICES ASSUME NEW i \in 1..n + 1, NEW s \in Slots
                     PROVE  marks'[i].net[s] = Net(original[s], marks'[i].present[s])
            BY Zenon, <1>3, <2>18 DEF MarksNet
        <3>1. CASE i = n + 1
            <4>1. marks'[i].net[s] = net[s] /\ marks'[i].present[s] = present[s]
                BY Zenon, <3>1, <2>14, <2>18
            <4> QED
                BY Zenon, <4>1 DEF IInv, NetMetered
        <3>2. CASE i # n + 1
            <4>1. marks'[i] = marks[i] /\ i \in 1..Len(marks)
                BY <3>2, <1>1, <2>16, <2>18 DEF Types
            <4> QED
                BY Zenon, <4>1 DEF IInv, MarksNet
        <3> QED
            BY Zenon, <3>1, <3>2
    <2> QED
        BY Zenon, <2>19, <2>20, <2>21, <2>22, <2>23 DEF IInv
<1> QED
    BY Zenon, <1>2, <1>4, <1>5

-----------------------------------------------------------------------------
Outcomes == {"ok", "revert", "halt"}

(* The caller gets back no more than it gave. *)
LEMMA EraseIsSound ==
    ASSUME NEW g \in GasRecord, SoundGas(g), NEW r \in Nat, r <= g.used
    PROVE  /\ EraseCost(g, r) \in GasRecord /\ SoundGas(EraseCost(g, r))
           /\ EraseCost(g, r).limit = g.limit /\ Remaining(EraseCost(g, r)) = Remaining(g) + r
<1>1. g.limit \in Nat /\ g.used \in Nat /\ g.memory \in Nat /\ g.all \in Nat
    BY Zenon DEF GasRecord
<1>2. EraseCost(g, r) \in GasRecord
    <2>1. PICK u, a \in Nat : u = g.used - r /\ a = g.all - r
        BY <1>1 DEF SoundGas
    <2>2. EraseCost(g, r) = [[g EXCEPT !.used = u] EXCEPT !.all = a]
        BY <2>1, Zenon DEF GasRecord, EraseCost
    <2> QED
        BY Zenon, <2>2 DEF GasRecord
<1>3. /\ EraseCost(g, r).limit = g.limit /\ EraseCost(g, r).memory = g.memory
      /\ EraseCost(g, r).used = g.used - r /\ EraseCost(g, r).all = g.all - r
    BY Zenon DEF GasRecord, EraseCost
<1> QED
    BY <1>1, <1>2, <1>3 DEF SoundGas, Remaining

(* What a callee gives back keeps its caller's counter sound. *)
LEMMA ReturnedIsSound ==
    ASSUME NEW g \in GasRecord, SoundGas(g), NEW child \in GasRecord, SoundGas(child),
           child.limit <= g.used, NEW how \in Outcomes
    PROVE  /\ Returned(g, child, how) \in GasRecord /\ SoundGas(Returned(g, child, how))
           /\ Returned(g, child, how).limit = g.limit
           /\ Remaining(Returned(g, child, how)) <= Remaining(g) + child.limit
<1>1. PICK r \in Nat : r = Remaining(child) /\ r <= child.limit
    BY DEF GasRecord, SoundGas, Remaining
<1>2. child.limit \in Nat /\ g.used \in Nat /\ Remaining(g) \in Int
    BY DEF GasRecord, Remaining
<1>3. PICK e : e = EraseCost(g, r)
    BY Zenon
<1>4. e \in GasRecord /\ SoundGas(e) /\ e.limit = g.limit /\ Remaining(e) = Remaining(g) + r
    BY <1>1, <1>2, <1>3, EraseIsSound
<1>5. CASE how = "halt"
    <2>1. Returned(g, child, how) = g
        BY <1>5, Zenon DEF Returned
    <2> QED
        BY <1>2, <2>1
<1>6. CASE how = "revert"
    <2>1. Returned(g, child, how) = e
        BY Zenon, <1>1, <1>3, <1>6 DEF Returned
    <2> QED
        BY <1>1, <1>2, <1>4, <2>1
<1>7. CASE how = "ok"
    <2>1. Returned(g, child, how) = RecordRefund(e, child.refunded)
        BY Zenon, <1>1, <1>3, <1>7 DEF Returned
    <2>2. child.refunded \in Int
        BY Zenon DEF GasRecord
    <2>3. /\ RecordRefund(e, child.refunded) \in GasRecord
          /\ RecordRefund(e, child.refunded).limit = e.limit
          /\ RecordRefund(e, child.refunded).used = e.used
          /\ RecordRefund(e, child.refunded).memory = e.memory
          /\ RecordRefund(e, child.refunded).all = e.all
        BY <1>4, <2>2 DEF GasRecord, RecordRefund
    <2> QED
        BY <1>1, <1>2, <1>4, <2>1, <2>3 DEF SoundGas, Remaining
<1> QED
    BY Zenon, <1>5, <1>6, <1>7 DEF Outcomes

(* What the end of a frame does to the storage. *)
LEMMA EndsIInv ==
    ASSUME IInv, NEW how \in Outcomes, Ends(how), original' = original
    PROVE  /\ present' \in [Slots -> Values] /\ warm' \in SUBSET Slots
           /\ net' \in [Slots -> Int] /\ stores' \in Nat /\ halted' \in BOOLEAN
           /\ marks' \in Seq(MarkRecord) /\ Len(marks') = Len(frames) - 1
           /\ \A i \in 1..Len(frames) - 1 : marks'[i] = marks[i]
           /\ MarksNet' /\ NetMetered'
<1> USE DEF Ends
<1>1. Types /\ MarksNet /\ NetMetered /\ Len(frames) \in Nat \ {0}
    BY DEF IInv, Types
<1>2. /\ marks' \in Seq(MarkRecord) /\ Len(marks') = Len(frames) - 1
      /\ \A i \in 1..Len(frames) - 1 : marks'[i] = marks[i]
    BY <1>1 DEF Types
<1>3. MarksNet'
    <2> SUFFICES ASSUME NEW i \in 1..Len(frames) - 1, NEW s \in Slots
                 PROVE  marks'[i].net[s] = Net(original[s], marks'[i].present[s])
        BY Zenon, <1>2 DEF MarksNet
    <2>1. i \in 1..Len(marks) /\ marks'[i] = marks[i]
        BY <1>1, <1>2 DEF Types
    <2>2. marks[i].net[s] = Net(original[s], marks[i].present[s])
        BY <1>1, <2>1, Zenon DEF MarksNet
    <2> QED
        BY <2>1, <2>2, Zenon
<1>4. CASE how = "ok"
    <2>1. ~halted /\ UNCHANGED <<present, warm, net, stores>>
        BY Zenon, <1>4
    <2> QED
        BY Zenon, <1>1, <1>2, <1>3, <2>1 DEF Types, NetMetered
<1>5. CASE how # "ok"
    <2>1. Restore
        BY Zenon, <1>5
    <2>2. PICK mark \in MarkRecord : mark = marks[Len(marks)]
        BY <1>1 DEF Types
    <2>3. present' = mark.present /\ warm' = mark.warm /\ net' = mark.net /\ stores' = mark.stores
        BY Zenon, <2>1, <2>2 DEF Restore
    <2>4. \A s \in Slots : mark.net[s] = Net(original[s], mark.present[s])
        BY SMTT(30), <1>1, <2>2 DEF MarksNet, Types
    <2>5. NetMetered'
        BY Zenon, <2>3, <2>4 DEF NetMetered
    <2> QED
        BY Zenon, <1>2, <1>3, <2>3, <2>5 DEF MarkRecord
<1> QED
    BY Zenon, <1>4, <1>5

(* What remains is a number. *)
LEMMA RemainingIsInt ==
    ASSUME NEW g \in GasRecord
    PROVE  Remaining(g) \in Int /\ g.limit \in Nat
BY DEF GasRecord, Remaining

(* A return keeps IInv, and the caller has at most what it had. *)
LEMMA ReturnIInv ==
    ASSUME IInv, NEW how \in Outcomes, Return(how)
    PROVE  /\ IInv'
           /\ Remaining(frames'[Len(frames')]) <= marks[Len(marks)].remaining
<1>0. /\ Len(frames) > 1 /\ Ends(how) /\ original' = original /\ frames # <<>>
      /\ frames' = [SubSeq(frames, 1, Len(frames) - 1) EXCEPT
                       ![Len(frames) - 1] = Returned(frames[Len(frames) - 1], Top, how)]
    BY Zenon DEF Return, Ends
<1>1. /\ Top \in GasRecord /\ SoundGas(Top) /\ Types /\ NoUnderflow /\ Charged
      /\ Len(frames) \in Nat
    BY Zenon, <1>0, TopIsSound DEF IInv
<1>2. PICK n \in Nat \ {0} : Len(frames) = n + 1 /\ Len(marks) = n + 1 /\ n = Len(frames) - 1
    <2>1. Len(marks) = Len(frames)
        BY Zenon, <1>1 DEF Types
    <2>2. PICK m \in Nat : m = Len(frames) /\ m > 1
        BY <1>0, <1>1, Zenon
    <2>3. m - 1 \in Nat \ {0} /\ m = (m - 1) + 1
        BY <2>2
    <2> QED
        BY <2>1, <2>2, <2>3, Zenon
<1>3. frames[n] \in GasRecord /\ SoundGas(frames[n])
    <2>1. n \in 1..Len(frames)
        BY <1>2
    <2>2. frames[n] \in GasRecord
        BY <1>1, <2>1 DEF Types
    <2> QED
        BY <1>1, <2>1, <2>2, Zenon DEF NoUnderflow, SoundGas
<1>4. /\ Top.limit <= frames[n].used
      /\ Top.limit + Remaining(frames[n]) <= marks[n + 1].remaining
    <2>1. n \in 1..Len(frames) - 1 /\ Top = frames[n + 1]
        BY <1>2 DEF Top
    <2> QED
        BY <1>1, <2>1, Zenon DEF Charged, ChargedOf
<1>5. PICK g : g = Returned(frames[n], Top, how)
    BY Zenon
<1>6. /\ g \in GasRecord /\ SoundGas(g) /\ g.limit = frames[n].limit
      /\ Remaining(g) <= Remaining(frames[n]) + Top.limit
    BY Zenon, <1>1, <1>3, <1>4, <1>5, ReturnedIsSound
<1>7. frames' = [SubSeq(frames, 1, n) EXCEPT ![n] = g]
    BY <1>0, <1>2, <1>5, Zenon
<1>8. /\ frames' \in Seq(GasRecord) /\ Len(frames') = n
      /\ \A i \in 1..n : frames'[i] = IF i = n THEN g ELSE frames[i]
    <2>1. PICK below : below = SubSeq(frames, 1, n)
        BY Zenon
    <2>2. below \in Seq(GasRecord) /\ Len(below) = n /\ \A i \in 1..n : below[i] = frames[i]
        BY <1>1, <1>2, <2>1 DEF Types
    <2>3. frames' = [below EXCEPT ![n] = g]
        BY Zenon, <1>7, <2>1
    <2> QED
        BY <1>2, <1>6, <2>2, <2>3
<1>9. /\ present' \in [Slots -> Values] /\ warm' \in SUBSET Slots
      /\ net' \in [Slots -> Int] /\ stores' \in Nat /\ halted' \in BOOLEAN
      /\ marks' \in Seq(MarkRecord) /\ Len(marks') = n
      /\ \A i \in 1..n : marks'[i] = marks[i]
      /\ MarksNet' /\ NetMetered'
    BY Zenon, <1>0, <1>2, EndsIInv
<1>10. Types'
    BY <1>0, <1>1, <1>8, <1>9, ZenonT(30) DEF Types
<1>11. NoUnderflow'
    BY SMTT(30), <1>1, <1>2, <1>6, <1>8 DEF NoUnderflow, SoundGas
<1>12. Charged'
    <2> SUFFICES ASSUME NEW i \in 1..n - 1
                 PROVE  /\ frames'[i + 1].limit <= frames'[i].used
                        /\ frames'[i + 1].limit + Remaining(frames'[i]) <= marks'[i + 1].remaining
        BY Zenon, <1>8 DEF Charged, ChargedOf
    <2>1. frames'[i] = frames[i] /\ frames'[i + 1].limit = frames[i + 1].limit
          /\ marks'[i + 1] = marks[i + 1]
        BY SMTT(30), <1>6, <1>8, <1>9
    <2> QED
        BY SMTT(30), <1>1, <1>2, <2>1 DEF Charged, ChargedOf
<1>13. Remaining(frames'[Len(frames')]) <= marks[Len(marks)].remaining
    <2>1. frames'[Len(frames')] = g
        BY SMTT(30), <1>8
    <2>2. /\ Remaining(g) \in Int /\ Remaining(frames[n]) \in Int /\ Top.limit \in Int
          /\ marks[n + 1].remaining \in Int
        <3>1. marks[n + 1] \in MarkRecord
            BY <1>1, <1>2 DEF Types
        <3> QED
            BY SMTT(30), <1>1, <1>3, <1>6, <3>1, RemainingIsInt DEF MarkRecord
    <2> QED
        BY SMTT(30), <1>2, <1>4, <1>6, <2>1, <2>2
<1> QED
    BY Zenon, <1>9, <1>10, <1>11, <1>12, <1>13 DEF IInv

(* The end of the transaction keeps IInv. *)
LEMMA FinalizeIInv ==
    ASSUME IInv, NEW how \in Outcomes, Finalize(how)
    PROVE  IInv'
<1> USE DEF Finalize
<1>1. /\ present' \in [Slots -> Values] /\ warm' \in SUBSET Slots
      /\ net' \in [Slots -> Int] /\ stores' \in Nat /\ halted' \in BOOLEAN
      /\ marks' \in Seq(MarkRecord) /\ Len(marks') = 0
      /\ MarksNet' /\ NetMetered'
    <2>1. Ends(how) /\ original' = original /\ Len(frames) = 1
        BY Zenon
    <2>2. /\ present' \in [Slots -> Values] /\ warm' \in SUBSET Slots
          /\ net' \in [Slots -> Int] /\ stores' \in Nat /\ halted' \in BOOLEAN
          /\ marks' \in Seq(MarkRecord) /\ Len(marks') = Len(frames) - 1
          /\ MarksNet' /\ NetMetered'
        BY Zenon, <2>1, EndsIInv
    <2>3. Len(frames) - 1 = 0
        BY SMTT(30), <2>1
    <2> QED
        BY Zenon, <2>2, <2>3
<1>2. frames' \in Seq(GasRecord) /\ Len(frames') = 0
    BY SMTT(30)
<1>3. Types'
    BY Zenon, <1>1, <1>2 DEF IInv, Types
<1>4. NoUnderflow' /\ Charged'
    <2>1. (\A i \in 1..0 : FALSE) /\ (\A i \in 1..0 - 1 : FALSE)
        BY SMTT(30)
    <2> QED
        BY Zenon, <1>2, <2>1 DEF NoUnderflow, Charged, ChargedOf
<1> QED
    BY Zenon, <1>1, <1>3, <1>4 DEF IInv

(* IInv is about the variables alone. *)
LEMMA StutterIInv == IInv /\ UNCHANGED vars => IInv'
<1> SUFFICES ASSUME IInv, UNCHANGED vars PROVE IInv'
    BY Zenon
<1>1. Types'
    BY Zenon DEF IInv, vars, Types
<1>2. NoUnderflow' /\ Charged'
    BY Zenon DEF IInv, vars, NoUnderflow, Charged, ChargedOf
<1>3. MarksNet' /\ NetMetered'
    BY Zenon DEF IInv, vars, MarksNet, NetMetered
<1> QED
    BY Zenon, <1>1, <1>2, <1>3 DEF IInv

(* Every step keeps IInv. *)
LEMMA NextIInv == IInv /\ [Next]_vars => IInv'
<1> SUFFICES ASSUME IInv, [Next]_vars PROVE IInv'
    BY Zenon
<1>1. CASE \E s \in Slots, v \in Values : SStore(s, v)
    BY Zenon, <1>1, SStoreIInv
<1>2. CASE \E w \in Words : Resize(w)
    BY Zenon, <1>2, ResizeIInv
<1>3. CASE \E value \in BOOLEAN, asked \in Asks : Call(value, asked)
    BY Zenon, <1>3, CallIInv
<1>4. CASE \E how \in Outcomes : Return(how)
    BY Zenon, <1>4, ReturnIInv
<1>5. CASE \E how \in Outcomes : Finalize(how)
    BY Zenon, <1>5, FinalizeIInv
<1>6. CASE UNCHANGED vars
    BY Zenon, <1>6, StutterIInv
<1> QED
    BY Zenon, <1>1, <1>2, <1>3, <1>4, <1>5, <1>6 DEF Next, Outcomes

(* IInv always holds. *)
LEMMA AlwaysIInv == Spec => []IInv
BY InitIInv, NextIInv, PTL DEF Spec

(* The counters of Gas never underflow: a callee never returns more than    *)
(* its caller was charged, because a call that gives a stipend costs more   *)
(* than the stipend.                                                        *)
THEOREM GasSound == Spec => []NoUnderflow
<1>1. IInv => NoUnderflow
    BY Zenon DEF IInv
<1> QED
    BY <1>1, AlwaysIInv, PTL

(* A call leaves its caller with at most the gas it had (host.rs, call_inner). *)
THEOREM CallsGainNothing == Spec => CallsMakeNoGas
<1>1. IInv /\ [Next]_vars => [\A how \in {"ok", "revert", "halt"} :
         Return(how) => Remaining(frames'[Len(frames')]) <= marks[Len(marks)].remaining]_vars
    BY Zenon, ReturnIInv DEF Outcomes
<1> QED
    BY <1>1, AlwaysIInv, PTL DEF Spec, CallsMakeNoGas

(* SSTORE is metered net: what the stores to a slot cost in the frames that *)
(* stand, less the refunds, depends on the first and the last value only    *)
(* (calc.rs, sstore_cost and sstore_refund).                                *)
THEOREM NetMetering == Spec => []NetMetered
<1>1. IInv => NetMetered
    BY Zenon DEF IInv
<1> QED
    BY <1>1, AlwaysIInv, PTL

-----------------------------------------------------------------------------
(* The refund of a transaction                                             *)


(* The refund that a slot is worth: a value of before the transaction is    *)
(* cleared.                                                                 *)
Worth(orig, cur) == IF orig # 0 /\ cur = 0 THEN sstore_clears_schedule ELSE 0
(* What slots p are worth if they were o before the transaction. *)
Credit(o, p) == SumFunctionOnSet([s \in Slots |-> Worth(o[s], p[s])], Slots)

CreditLaws ==
    \A o, p \in [Slots -> Values] :
        /\ Credit(o, p) \in Nat /\ Credit(o, o) = 0
        /\ \A s \in Slots, v \in Values :
              Credit(o, [p EXCEPT ![s] = v]) = Credit(o, p) + (Worth(o[s], v) - Worth(o[s], p[s]))

(* The refund of a frame covers what slots became worth under it. *)
Covers(g, from, to) == g.refunded >= Credit(original, to) - Credit(original, from)

CallersCover ==
    \A i \in 1..Len(frames) - 1 : Covers(frames[i], marks[i].present, marks[i + 1].present)
TopCovers == frames # <<>> /\ ~halted => Covers(Top, marks[Len(marks)].present, present)
FirstFrame == frames # <<>> => marks[1].present = original /\ frames[1].limit = Limit

RefundInv == CallersCover /\ TopCovers /\ FirstFrame /\ RefundSound

(* An SSTORE records at least what the slot becomes worth by it. *)
LEMMA StoreIsCovered ==
    ASSUME NEW orig \in Nat, NEW cur \in Nat, NEW new \in Nat
    PROVE  /\ Worth(orig, cur) \in Nat
           /\ sstore_refund(orig, cur, new) >= Worth(orig, new) - Worth(orig, cur)
BY GasAssumption, SMTT(30) DEF sstore_refund, Worth, gas_sstore_reset, sstore_clears_schedule

(* What SSTORE, memory and calls do to the refund of a counter. *)
LEMMA RefundOf ==
    ASSUME NEW g \in GasRecord, NEW c \in Nat, NEW r \in Int
    PROVE  /\ RecordCost(g, c).refunded = g.refunded
           /\ RecordRefund(RecordCost(g, c), r).refunded = g.refunded + r
           /\ RecordMemory(g, c).refunded = g.refunded
           /\ EraseCost(g, c).refunded = g.refunded
           /\ RecordRefund(EraseCost(g, c), r).refunded = g.refunded + r
BY Zenon DEF GasRecord, RecordCost, RecordRefund, RecordMemory, EraseCost

(* A part of a number, as many times, is not more than it. *)
LEMMA PartsAreLess ==
    ASSUME NEW n \in Nat, NEW q \in Nat \ {0}, NEW m \in Nat, m <= n \div q
    PROVE  m * q <= n
<1>1. (n \div q) \in Nat /\ (n \div q) * q <= n
    BY SMTT(30)
<1>2. PICK d \in Nat : d = n \div q
    BY Zenon, <1>1
<1>3. m * q <= d * q
    BY SMTT(30), <1>2
<1> QED BY <1>1, <1>2, <1>3, SMTT(30)

LEMMA RemainderIsLess ==
    ASSUME NEW n \in Nat, NEW q \in Nat \ {0}
    PROVE  n % q \in Nat /\ n % q <= n
BY SMTT(30)

(* The frames and marks below the running one cover as before. *)
LEMMA CallersStay ==
    ASSUME CallersCover, NEW n \in Nat, original' = original,
           \A i \in 1..n - 1 : /\ i \in 1..Len(frames) - 1
                               /\ frames'[i] = frames[i] /\ marks'[i] = marks[i]
                               /\ marks'[i + 1] = marks[i + 1]
    PROVE  \A i \in 1..n - 1 : Covers(frames[i], marks[i].present, marks[i + 1].present)'
<1> SUFFICES ASSUME NEW i \in 1..n - 1
             PROVE  Covers(frames[i], marks[i].present, marks[i + 1].present)'
    BY Zenon
<1>1. Covers(frames[i], marks[i].present, marks[i + 1].present)
    BY Zenon DEF CallersCover
<1> QED
    BY Zenon, <1>1 DEF Covers

(* The running frame gets another counter, or slots change under it. *)
LEMMA TopRefund ==
    ASSUME IInv, RefundInv, frames # <<>>, NEW g, g.limit = Top.limit,
           frames' = [frames EXCEPT ![Len(frames)] = g], marks' = marks,
           original' = original, result' = result,
           ~halted' => g.refunded >= Credit(original, present')
                                        - Credit(original, marks[Len(marks)].present)
    PROVE  RefundInv'
<1>1. PICK n \in Nat \ {0} : n = Len(frames) /\ Len(marks) = n
    BY SMTT(30) DEF IInv, Types
<1>2. Len(frames') = n /\ \A i \in 1..n : frames'[i] = IF i = n THEN g ELSE frames[i]
    BY <1>1 DEF IInv, Types
<1>3. CallersCover'
    <2>1. \A i \in 1..n - 1 : i \in 1..Len(frames) - 1 /\ frames'[i] = frames[i]
        BY SMTT(30), <1>1, <1>2
    <2>2. \A i \in 1..n - 1 : Covers(frames[i], marks[i].present, marks[i + 1].present)'
        BY Zenon, <2>1, CallersStay DEF RefundInv
    <2> QED
        BY Zenon, <1>2, <2>2 DEF CallersCover
<1>4. TopCovers'
    <2>1. Top' = g
        BY <1>2 DEF Top
    <2> QED
        BY Zenon, <2>1 DEF TopCovers, Covers
<1>5. FirstFrame'
    <2>1. marks[1].present = original /\ frames[1].limit = Limit
        BY Zenon DEF RefundInv, FirstFrame
    <2>2. frames'[1].limit = frames[1].limit
        BY <1>1, <1>2 DEF Top
    <2> QED
        BY Zenon, <2>1, <2>2 DEF FirstFrame
<1>6. RefundSound'
    BY Zenon DEF RefundInv, RefundSound
<1> QED
    BY Zenon, <1>3, <1>4, <1>5, <1>6 DEF RefundInv

(* A frame that fails keeps its counter. *)
LEMMA HaltRefund ==
    ASSUME IInv, RefundInv, Halt, marks' = marks, original' = original, result' = result
    PROVE  RefundInv'
<1>1. frames' = frames /\ halted' = TRUE
    BY Zenon DEF Halt
<1>2. CallersCover' /\ FirstFrame' /\ RefundSound'
    BY Zenon, <1>1 DEF RefundInv, CallersCover, Covers, FirstFrame, RefundSound
<1>3. TopCovers'
    BY Zenon, <1>1 DEF TopCovers
<1> QED
    BY Zenon, <1>2, <1>3 DEF RefundInv

(* SSTORE keeps RefundInv. *)
LEMMA SStoreRefund ==
    ASSUME CreditLaws, IInv, RefundInv, NEW s \in Slots, NEW v \in Values, SStore(s, v)
    PROVE  RefundInv'
<1> DEFINE cost == sstore_cost(original[s], present[s], v) + cold_cost(s)
           refund == sstore_refund(original[s], present[s], v)
<1>1. /\ frames # <<>> /\ ~halted /\ present' = [present EXCEPT ![s] = v]
      /\ original' = original /\ marks' = marks /\ result' = result
      /\ \/ Halt
         \/ /\ SetTop(RecordRefund(RecordCost(Top, cost), refund))
            /\ Affords(Top, cost)
    BY Zenon DEF SStore, Running
<1>2. CASE Halt
    BY Zenon, <1>1, <1>2, HaltRefund
<1>3. CASE SetTop(RecordRefund(RecordCost(Top, cost), refund)) /\ Affords(Top, cost)
    <2>1. Top \in GasRecord /\ SoundGas(Top) /\ Types
        BY Zenon, <1>1, TopIsSound DEF IInv
    <2>2. original[s] \in Nat /\ present[s] \in Nat /\ v \in Nat
        BY Zenon, <2>1, GasAssumption DEF Types
    <2>3. cost \in Nat /\ refund \in Int
        <3>1. cold_cost(s) \in Nat
            BY Zenon, GasAssumption DEF cold_cost
        <3>2. sstore_cost(original[s], present[s], v) \in Nat /\ refund \in Int
            BY ZenonT(30), <2>2, StoreIsNet
        <3> QED
            BY SMTT(30), <3>1, <3>2
    <2>4. refund >= Worth(original[s], v) - Worth(original[s], present[s])
          /\ Worth(original[s], v) \in Nat /\ Worth(original[s], present[s]) \in Nat
        BY Zenon, <2>2, StoreIsCovered
    <2> HIDE DEF cost, refund
    <2> DEFINE g == RecordRefund(RecordCost(Top, cost), refund)
    <2>5. g.refunded = Top.refunded + refund /\ Top.refunded \in Int
        BY Zenon, <2>1, <2>3, RefundOf DEF GasRecord
    <2>6. g.limit = Top.limit
        BY Zenon, <2>1 DEF GasRecord, RecordRefund, RecordCost
    <2>7. PICK last : last = marks[Len(marks)].present /\ last \in [Slots -> Values]
        <3>1. Len(marks) \in 1..Len(marks) /\ marks \in Seq(MarkRecord)
            BY <1>1, <2>1, TopIsSound DEF Types
        <3>2. marks[Len(marks)] \in MarkRecord
            BY <3>1
        <3> QED
            BY Zenon, <3>2 DEF MarkRecord
    <2>8. Top.refunded >= Credit(original, present) - Credit(original, last)
        BY Zenon, <1>1, <2>7 DEF RefundInv, TopCovers, Covers
    <2>9. /\ Credit(original, present') = Credit(original, present)
                + (Worth(original[s], v) - Worth(original[s], present[s]))
          /\ Credit(original, present) \in Nat /\ Credit(original, last) \in Nat
        BY ZenonT(30), <1>1, <2>1, <2>7 DEF CreditLaws, Types
    <2>10. g.refunded >= Credit(original, present') - Credit(original, last)
        BY <2>4, <2>5, <2>8, <2>9, <2>3
    <2>11. frames' = [frames EXCEPT ![Len(frames)] = g]
        BY Zenon, <1>3 DEF SetTop
    <2> HIDE DEF g
    <2> QED
        BY Zenon, <1>1, <2>6, <2>7, <2>10, <2>11, TopRefund
<1> QED
    BY Zenon, <1>1, <1>2, <1>3

(* Memory has no refund. *)
LEMMA ResizeRefund ==
    ASSUME IInv, RefundInv, NEW w \in Words, Resize(w)
    PROVE  RefundInv'
<1>1. /\ frames # <<>> /\ ~halted
      /\ original' = original /\ marks' = marks /\ result' = result /\ present' = present
      /\ \/ Halt
         \/ SetTop(RecordMemory(Top, memory_gas(w)))
    BY Zenon DEF Resize, Running
<1>2. CASE Halt
    BY Zenon, <1>1, <1>2, HaltRefund
<1>3. CASE SetTop(RecordMemory(Top, memory_gas(w)))
    <2> DEFINE g == RecordMemory(Top, memory_gas(w))
    <2>1. Top \in GasRecord /\ memory_gas(w) \in Nat
        BY Zenon, <1>1, TopIsSound, MemoryIsNat, GasAssumption
    <2>2. g.refunded = Top.refunded /\ g.limit = Top.limit
        BY Zenon, <2>1 DEF RecordMemory, GasRecord
    <2>3. Top.refunded >= Credit(original, present) - Credit(original, marks[Len(marks)].present)
        BY Zenon, <1>1 DEF RefundInv, TopCovers, Covers
    <2>4. frames' = [frames EXCEPT ![Len(frames)] = g]
        BY Zenon, <1>3 DEF SetTop
    <2> HIDE DEF g
    <2> QED
        BY Zenon, <1>1, <2>2, <2>3, <2>4, TopRefund
<1> QED
    BY Zenon, <1>1, <1>2, <1>3

(* What a running frame is given, or has left, does not change its refund. *)
LEMMA CallRefund ==
    ASSUME CreditLaws, IInv, RefundInv, NEW value \in BOOLEAN, NEW asked \in Asks, Call(value, asked)
    PROVE  RefundInv'
<1> DEFINE paid == RecordCost(Top, call_cost(value))
           limit == GasLimit(paid, asked)
           given == limit + (IF value THEN CALL_STIPEND ELSE 0)
           g == RecordCost(paid, limit)
           mark == [Mark EXCEPT !.remaining = Remaining(Top)]
<1>1. /\ frames # <<>> /\ ~halted
      /\ original' = original /\ result' = result /\ present' = present
      /\ \/ Halt /\ marks' = marks
         \/ /\ frames' = Append([frames EXCEPT ![Len(frames)] = g], GasNew(given))
            /\ marks' = Append(marks, mark)
    BY Zenon DEF Call, Running
<1>2. CASE Halt /\ marks' = marks
    BY Zenon, <1>1, <1>2, HaltRefund
<1>3. CASE /\ frames' = Append([frames EXCEPT ![Len(frames)] = g], GasNew(given))
           /\ marks' = Append(marks, mark)
    <2>1. Top \in GasRecord /\ Types
        BY Zenon, <1>1, TopIsSound DEF IInv
    <2>2. g.refunded = Top.refunded /\ g.limit = Top.limit
        BY Zenon, <2>1 DEF RecordCost, GasRecord
    <2>3. GasNew(given).refunded = 0 /\ mark.present = present
        BY Zenon DEF GasNew, Mark
    <2> HIDE DEF g, given, mark
    <2>4. PICK n \in Nat \ {0} : n = Len(frames) /\ Len(marks) = n
        BY SMTT(30), <1>1, <2>1 DEF Types
    <2>5. /\ Len(frames') = n + 1 /\ frames'[n + 1] = GasNew(given)
          /\ \A i \in 1..n : frames'[i] = IF i = n THEN g ELSE frames[i]
        <3>1. PICK f : f = [frames EXCEPT ![n] = g]
            BY Zenon
        <3>2. /\ DOMAIN f = 1..n /\ Len(f) = n /\ f \in Seq(GasRecord \cup {g})
              /\ \A i \in 1..n : f[i] = IF i = n THEN g ELSE frames[i]
            BY <2>1, <2>4, <3>1 DEF Types
        <3>3. frames' = Append(f, GasNew(given))
            BY Zenon, <1>3, <2>4, <3>1
        <3> QED
            BY <3>2, <3>3
    <2>6. /\ Len(marks') = n + 1 /\ marks'[n + 1] = mark
          /\ \A i \in 1..n : marks'[i] = marks[i]
        BY <1>3, <2>1, <2>4 DEF Types
    <2>7. CallersCover'
        <3>1. \A i \in 1..n - 1 : /\ i \in 1..Len(frames) - 1
                                  /\ frames'[i] = frames[i] /\ marks'[i] = marks[i]
                                  /\ marks'[i + 1] = marks[i + 1]
            BY <2>4, <2>5, <2>6
        <3>2. \A i \in 1..n - 1 : Covers(frames[i], marks[i].present, marks[i + 1].present)'
            BY Zenon, <1>1, <3>1, CallersStay DEF RefundInv
        <3>3. Covers(frames[n], marks[n].present, marks[n + 1].present)'
            <4>1. Covers(Top, marks[n].present, present)
                BY Zenon, <1>1, <2>4 DEF RefundInv, TopCovers
            <4>2. frames'[n] = g /\ marks'[n] = marks[n]
                BY <2>5, <2>6
            <4> QED
                BY Zenon, <1>1, <2>2, <2>3, <2>6, <4>1, <4>2 DEF Covers
        <3>4. \A i \in 1..(n + 1) - 1 : i \in 1..n - 1 \/ i = n
            OBVIOUS
        <3> QED
            BY Zenon, <2>5, <3>2, <3>3, <3>4 DEF CallersCover
    <2>8. TopCovers'
        <3>1. Top' = GasNew(given) /\ marks'[Len(marks')] = mark
            BY Zenon, <2>5, <2>6 DEF Top
        <3>2. Credit(original, present) \in Nat
            BY Zenon, <2>1 DEF CreditLaws, Types
        <3>3. 0 >= Credit(original, present) - Credit(original, present)
            BY <3>2
        <3> QED
            BY Zenon, <1>1, <2>3, <3>1, <3>3 DEF TopCovers, Covers
    <2>9. FirstFrame'
        <3>1. marks[1].present = original /\ frames[1].limit = Limit
            BY Zenon, <1>1 DEF RefundInv, FirstFrame
        <3>2. marks'[1] = marks[1]
            BY SMTT(30), <2>6
        <3>3. frames'[1].limit = frames[1].limit
            BY <2>2, <2>4, <2>5 DEF Top
        <3> QED
            BY Zenon, <1>1, <3>1, <3>2, <3>3 DEF FirstFrame
    <2> QED
        BY Zenon, <1>1, <2>7, <2>8, <2>9 DEF RefundInv, RefundSound
<1> QED
    BY Zenon, <1>1, <1>2, <1>3

(* The slots when a frame ends: as they are if it succeeded, as it found    *)
(* them if not.                                                             *)
LEMMA EndsPresent ==
    ASSUME NEW how \in Outcomes, Ends(how)
    PROVE  /\ how = "ok" => present' = present /\ ~halted
           /\ how # "ok" => present' = marks[Len(marks)].present
           /\ frames # <<>>
BY Zenon DEF Ends, Restore

(* The refund of a caller when its callee ends *)
LEMMA ReturnedRefund ==
    ASSUME NEW g \in GasRecord, NEW child \in GasRecord, NEW how \in Outcomes
    PROVE  /\ how = "ok" => Returned(g, child, how).refunded = g.refunded + child.refunded
           /\ how # "ok" => Returned(g, child, how).refunded = g.refunded
           /\ Returned(g, child, how).limit = g.limit
BY Zenon DEF Returned, RecordRefund, EraseCost, GasRecord, Outcomes

(* A caller takes over the refund of a callee that succeeds, with the slots; *)
(* it takes over neither from one that fails.                               *)
LEMMA ReturnRefund ==
    ASSUME CreditLaws, IInv, RefundInv, NEW how \in Outcomes, Return(how)
    PROVE  RefundInv'
<1>1. /\ Len(frames) > 1 /\ Ends(how) /\ original' = original /\ result' = result
      /\ frames' = [SubSeq(frames, 1, Len(frames) - 1) EXCEPT
                       ![Len(frames) - 1] = Returned(frames[Len(frames) - 1], Top, how)]
    BY Zenon DEF Return
<1>2. Types /\ frames # <<>> /\ Len(frames) \in Nat
    BY <1>1, EndsPresent DEF IInv, Types
<1>3. PICK n \in Nat \ {0} : Len(frames) = n + 1 /\ Len(marks) = n + 1 /\ n = Len(frames) - 1
    <2>1. Len(marks) = Len(frames)
        BY Zenon, <1>2 DEF Types
    <2>2. PICK m \in Nat : m = Len(frames) /\ m > 1
        BY <1>1, <1>2, Zenon
    <2>3. m - 1 \in Nat \ {0} /\ m = (m - 1) + 1
        BY <2>2
    <2> QED
        BY <2>1, <2>2, <2>3, Zenon
<1>4. frames[n] \in GasRecord /\ Top \in GasRecord /\ Top = frames[n + 1]
    BY <1>2, <1>3 DEF Types, Top
<1>5. PICK g : g = Returned(frames[n], Top, how)
    BY Zenon
<1>6. /\ how = "ok" => g.refunded = frames[n].refunded + Top.refunded
      /\ how # "ok" => g.refunded = frames[n].refunded
      /\ g.limit = frames[n].limit
    BY ZenonT(30), <1>4, <1>5, ReturnedRefund
<1>7. /\ Len(frames') = n
      /\ \A i \in 1..n : frames'[i] = IF i = n THEN g ELSE frames[i]
    <2>1. PICK below : below = SubSeq(frames, 1, n)
        BY Zenon
    <2>2. below \in Seq(GasRecord) /\ Len(below) = n /\ \A i \in 1..n : below[i] = frames[i]
        BY <1>2, <1>3, <2>1 DEF Types
    <2>3. frames' = [below EXCEPT ![n] = g]
        BY Zenon, <1>1, <1>3, <1>5, <2>1
    <2> QED
        BY <1>3, <2>2, <2>3
<1>8. /\ present' \in [Slots -> Values] /\ Len(marks') = n
      /\ \A i \in 1..n : marks'[i] = marks[i]
    BY Zenon, <1>1, <1>3, EndsIInv
<1>9. CallersCover'
    <2>1. \A i \in 1..n - 1 : /\ i \in 1..Len(frames) - 1
                              /\ frames'[i] = frames[i] /\ marks'[i] = marks[i]
                              /\ marks'[i + 1] = marks[i + 1]
        BY <1>3, <1>7, <1>8
    <2>2. \A i \in 1..n - 1 : Covers(frames[i], marks[i].present, marks[i + 1].present)'
        BY Zenon, <1>1, <2>1, CallersStay DEF RefundInv
    <2> QED
        BY Zenon, <1>7, <2>2 DEF CallersCover
<1>10. TopCovers'
    <2>1. Top' = g /\ marks'[Len(marks')] = marks[n]
        BY <1>7, <1>8 DEF Top
    <2>2. Covers(frames[n], marks[n].present, marks[n + 1].present)
        <3>1. n \in 1..Len(frames) - 1
            BY <1>3
        <3> QED
            BY Zenon, <3>1 DEF RefundInv, CallersCover
    <2>3. PICK a, b : a = marks[n].present /\ b = marks[n + 1].present
                      /\ a \in [Slots -> Values] /\ b \in [Slots -> Values]
        <3>1. marks[n] \in MarkRecord /\ marks[n + 1] \in MarkRecord
            BY <1>2, <1>3 DEF Types
        <3> QED
            BY Zenon, <3>1 DEF MarkRecord
    <2>4. frames[n].refunded >= Credit(original, b) - Credit(original, a)
        BY Zenon, <2>2, <2>3 DEF Covers
    <2>5. /\ Credit(original, a) \in Nat /\ Credit(original, b) \in Nat
          /\ Credit(original, present) \in Nat
        BY Zenon, <1>2, <2>3 DEF CreditLaws, Types
    <2>6. frames[n].refunded \in Int /\ Top.refunded \in Int
        BY Zenon, <1>4 DEF GasRecord
    <2>7. CASE how = "ok"
        <3>1. present' = present /\ ~halted
            BY Zenon, <1>1, <2>7, EndsPresent
        <3>2. Top.refunded >= Credit(original, present) - Credit(original, b)
            BY ZenonT(30), <1>2, <1>3, <2>3, <3>1 DEF RefundInv, TopCovers, Covers
        <3>3. g.refunded >= Credit(original, present) - Credit(original, a)
            BY <1>6, <2>4, <2>5, <2>6, <2>7, <3>2
        <3> QED
            BY Zenon, <1>1, <2>1, <2>3, <3>1, <3>3 DEF TopCovers, Covers
    <2>8. CASE how # "ok"
        <3>1. present' = b
            BY Zenon, <1>1, <1>3, <2>3, <2>8, EndsPresent
        <3>2. g.refunded >= Credit(original, b) - Credit(original, a)
            BY Zenon, <1>6, <2>4, <2>8
        <3> QED
            BY Zenon, <1>1, <2>1, <2>3, <3>1, <3>2 DEF TopCovers, Covers
    <2> QED
        BY Zenon, <2>7, <2>8
<1>11. FirstFrame'
    <2>1. marks[1].present = original /\ frames[1].limit = Limit
        BY Zenon, <1>2 DEF RefundInv, FirstFrame
    <2>2. marks'[1] = marks[1]
        BY SMTT(30), <1>8
    <2>3. frames'[1].limit = frames[1].limit
        BY <1>6, <1>7
    <2> QED
        BY Zenon, <1>1, <2>1, <2>2, <2>3 DEF FirstFrame
<1> QED
    BY Zenon, <1>1, <1>9, <1>10, <1>11 DEF RefundInv, RefundSound

(* A refund that is no debt is itself as a u64, or less. *)
LEMMA RefundIsSmall ==
    ASSUME NEW claimed \in Nat, NEW spend \in Nat, NEW refund,
           refund = IF AsU64(claimed) <= spend \div Quotient THEN AsU64(claimed) ELSE spend \div Quotient
    PROVE  refund <= claimed /\ refund * Quotient <= spend
<1>1. Quotient \in Nat \ {0} /\ U64 \in Nat \ {0}
    BY Zenon, GasAssumption
<1>2. AsU64(claimed) \in Nat /\ AsU64(claimed) <= claimed
    BY Zenon, <1>1, RemainderIsLess DEF AsU64
<1>3. PICK a \in Nat : a = AsU64(claimed) /\ a <= claimed
    BY Zenon, <1>2
<1>4. PICK most \in Nat : most = spend \div Quotient
    BY Zenon, <1>1, PartIsLess
<1>5. refund \in Nat /\ refund <= most /\ refund <= a
    BY <1>3, <1>4
<1> QED
    BY SMTT(30), <1>1, <1>3, <1>4, <1>5, PartsAreLess

(* The end of the transaction claims what the first frame has, and spends   *)
(* what it used.                                                            *)
LEMMA FinalizeRefund ==
    ASSUME CreditLaws, IInv, RefundInv, NEW how \in Outcomes, Finalize(how)
    PROVE  RefundInv'
<1> DEFINE gas == Returned(Prepaid, Top, how)
<1>1. /\ Len(frames) = 1 /\ Ends(how) /\ frames' = <<>> /\ original' = original
      /\ result' = [spend |-> gas.all, claimed |-> gas.refunded,
                    refund |-> IF AsU64(gas.refunded) <= gas.all \div Quotient
                               THEN AsU64(gas.refunded) ELSE gas.all \div Quotient]
    BY ZenonT(30) DEF Finalize
<1>2. Types /\ frames # <<>> /\ Top = frames[1] /\ Len(marks) = 1
    BY Zenon, <1>1, EndsPresent DEF IInv, Types, Top
<1>3. Top \in GasRecord /\ SoundGas(Top)
    BY Zenon, <1>2, TopIsSound
<1>4. /\ Prepaid \in GasRecord /\ Prepaid.refunded = 0 /\ Prepaid.all = Initial + Limit
      /\ Initial \in Nat /\ Limit \in Nat
    <2>0. GasNew(Initial + Limit) \in GasRecord /\ Initial \in Nat /\ Limit \in Nat
        BY GasAssumption DEF GasNew, GasRecord
    <2>1. PICK g \in GasRecord : g = GasNew(Initial + Limit)
        BY Zenon, <2>0
    <2>2. g.limit = Initial + Limit /\ g.used = 0 /\ g.memory = 0 /\ g.all = 0 /\ g.refunded = 0
        BY Zenon, <2>1 DEF GasNew
    <2>3. RecordCost(g, Initial) \in GasRecord /\ SoundGas(RecordCost(g, Initial))
        BY <2>0, <2>2, CostIsSound DEF SoundGas, Affords
    <2>4. PICK h \in GasRecord : h = RecordCost(g, Initial) /\ SoundGas(h)
        BY Zenon, <2>3
    <2>5. h.limit = g.limit /\ h.all = g.all + Initial /\ h.refunded = g.refunded
        BY Zenon, <2>4 DEF RecordCost, GasRecord
    <2>6. RecordCost(h, Limit) \in GasRecord
        BY <2>0, <2>2, <2>4, <2>5, CostIsSound DEF Affords
    <2>7. RecordCost(h, Limit).all = h.all + Limit /\ RecordCost(h, Limit).refunded = h.refunded
        BY Zenon DEF RecordCost, GasRecord
    <2>8. Prepaid = RecordCost(h, Limit)
        BY <2>1, <2>4 DEF Prepaid
    <2>9. RecordCost(h, Limit).all = Initial + Limit /\ RecordCost(h, Limit).refunded = 0
        BY <2>0, <2>2, <2>5, <2>7
    <2> QED
        BY Zenon, <2>0, <2>6, <2>8, <2>9
<1>5. Top.limit = Limit /\ marks[1].present = original
    BY Zenon, <1>2 DEF RefundInv, FirstFrame
<1>6. gas.refunded \in Nat
    <2>1. /\ how = "ok" => gas.refunded = 0 + Top.refunded
          /\ how # "ok" => gas.refunded = 0
        BY Zenon, <1>3, <1>4, ReturnedRefund
    <2>2. CASE how = "ok"
        <3>1. ~halted
            BY Zenon, <1>1, <2>2, EndsPresent
        <3>2. Top.refunded >= Credit(original, present) - Credit(original, original)
            BY Zenon, <1>2, <1>5, <3>1 DEF RefundInv, TopCovers, Covers
        <3>3. Credit(original, present) \in Nat /\ Credit(original, original) = 0
            BY Zenon, <1>2 DEF CreditLaws, Types
        <3>4. Top.refunded \in Int
            BY Zenon, <1>3 DEF GasRecord
        <3> QED
            BY <2>1, <2>2, <3>2, <3>3, <3>4
    <2> QED
        BY <2>1, <2>2
<1>7. gas.all \in Nat
    <2>1. Top.limit \in Nat /\ Top.all \in Nat /\ Top.all <= Top.limit
        BY Zenon, <1>3 DEF GasRecord, SoundGas
    <2>2. /\ how # "halt" => gas.all = Prepaid.all - Remaining(Top)
          /\ how = "halt" => gas.all = Prepaid.all
        BY Zenon, <1>4 DEF Returned, RecordRefund, EraseCost, GasRecord, Outcomes
    <2> HIDE DEF gas
    <2> QED
        BY <1>4, <1>5, <2>1, <2>2 DEF Remaining
<1> HIDE DEF gas
<1>8. /\ result'.spend = gas.all /\ result'.claimed = gas.refunded
      /\ result'.refund = IF AsU64(gas.refunded) <= gas.all \div Quotient
                          THEN AsU64(gas.refunded) ELSE gas.all \div Quotient
    BY Zenon, <1>1
<1>9. RefundSound'
    <2>1. result'.refund <= gas.refunded /\ result'.refund * Quotient <= gas.all
        BY Zenon, <1>6, <1>7, <1>8, RefundIsSmall
    <2>2. gas.refunded >= 0
        BY <1>6
    <2> QED
        BY Zenon, <1>8, <2>1, <2>2 DEF RefundSound
<1>10. CallersCover'
    <2>1. Len(frames') - 1 = -1
        BY <1>1
    <2>2. \A i \in 1..-1 : FALSE
        OBVIOUS
    <2> QED
        BY Zenon, <2>1, <2>2 DEF CallersCover
<1>11. TopCovers' /\ FirstFrame'
    BY Zenon, <1>1 DEF TopCovers, FirstFrame
<1> QED
    BY Zenon, <1>9, <1>10, <1>11 DEF RefundInv

(* RefundInv is about the variables alone. *)
LEMMA StutterRefund ==
    ASSUME RefundInv, UNCHANGED vars
    PROVE  RefundInv'
<1>1. CallersCover' /\ FirstFrame' /\ RefundSound'
    BY Zenon DEF RefundInv, vars, CallersCover, Covers, FirstFrame, RefundSound
<1>2. TopCovers'
    BY Zenon DEF RefundInv, vars, TopCovers, Top, Covers
<1> QED
    BY Zenon, <1>1, <1>2 DEF RefundInv

(* RefundInv holds at the start. *)
LEMMA InitRefund ==
    ASSUME CreditLaws, Init
    PROVE  RefundInv
<1>1. /\ original \in [Slots -> Values] /\ present = original
      /\ frames = <<GasNew(Limit)>> /\ marks = <<Mark>>
      /\ result.spend = 0 /\ result.claimed = 0 /\ result.refund = 0
    BY Zenon DEF Init
<1>2. /\ Len(frames) = 1 /\ Len(marks) = 1 /\ Top = GasNew(Limit)
      /\ frames[1] = GasNew(Limit) /\ marks[1] = Mark
    BY Zenon, <1>1 DEF Top
<1>3. GasNew(Limit).refunded = 0 /\ GasNew(Limit).limit = Limit /\ Mark.present = present
    BY Zenon DEF GasNew, Mark
<1>4. Credit(original, original) = 0
    BY Zenon, <1>1 DEF CreditLaws
<1>5. CallersCover
    BY <1>2 DEF CallersCover
<1>6. TopCovers
    <2>1. 0 >= Credit(original, original) - Credit(original, original)
        BY <1>4
    <2> QED
        BY Zenon, <1>1, <1>2, <1>3, <2>1 DEF TopCovers, Covers
<1>7. FirstFrame
    BY ZenonT(30), <1>1, <1>2, <1>3 DEF FirstFrame
<1>8. RefundSound
    BY <1>1, GasAssumption DEF RefundSound
<1> QED
    BY Zenon, <1>5, <1>6, <1>7, <1>8 DEF RefundInv

(* Every step keeps RefundInv. *)
LEMMA NextRefund ==
    ASSUME CreditLaws, IInv, RefundInv, [Next]_vars
    PROVE  RefundInv'
<1>1. CASE \E s \in Slots, v \in Values : SStore(s, v)
    BY Zenon, <1>1, SStoreRefund
<1>2. CASE \E w \in Words : Resize(w)
    BY Zenon, <1>2, ResizeRefund
<1>3. CASE \E value \in BOOLEAN, asked \in Asks : Call(value, asked)
    BY Zenon, <1>3, CallRefund
<1>4. CASE \E how \in Outcomes : Return(how) \/ Finalize(how)
    BY Zenon, <1>4, ReturnRefund, FinalizeRefund
<1>5. CASE UNCHANGED vars
    BY Zenon, <1>5, StutterRefund
<1> QED
    BY Zenon, <1>1, <1>2, <1>3, <1>4, <1>5 DEF Next, Outcomes

-----------------------------------------------------------------------------
(* The laws of sums, for the refund                                         *)

INSTANCE SumProofs

(* What the slots are worth is a sum of natural numbers that is zero at the *)
(* start, and changes with one slot by what that slot's worth changes.      *)
LEMMA Credits == CreditLaws
<1> SUFFICES ASSUME NEW o \in [Slots -> Values], NEW p \in [Slots -> Values]
             PROVE  /\ Credit(o, p) \in Nat /\ Credit(o, o) = 0
                    /\ \A s \in Slots, v \in Values :
                          Credit(o, [p EXCEPT ![s] = v])
                            = Credit(o, p) + (Worth(o[s], v) - Worth(o[s], p[s]))
    BY ZenonT(30) DEF CreditLaws
<1> DEFINE W(q) == [s \in Slots |-> Worth(o[s], q[s])]
<1>1. IsFiniteSet(Slots)
    BY Zenon, GasAssumption
<1>2. \A a, b \in Values : Worth(a, b) \in Nat /\ Worth(a, a) = 0
    BY GasAssumption DEF Worth, sstore_clears_schedule
<1>3. ASSUME NEW q \in [Slots -> Values]
      PROVE  \A s \in Slots : W(q)[s] = Worth(o[s], q[s]) /\ W(q)[s] \in Nat
    BY Zenon, <1>2
<1>4. \A q : Credit(o, q) = SumFunctionOnSet(W(q), Slots)
    BY Zenon DEF Credit
<1>5. Credit(o, p) \in Nat
    <2>1. PICK f : f = W(p) /\ \A s \in Slots : f[s] \in Nat
        BY Zenon, <1>3
    <2>2. SumFunctionOnSet(f, Slots) \in Nat
        BY ZenonT(30), <1>1, <2>1, SumNat
    <2> QED
        BY Zenon, <1>4, <2>1, <2>2
<1>6. Credit(o, o) = 0
    <2>1. \A s \in Slots : W(o)[s] = 0
        BY Zenon, <1>2
    <2> QED
        BY Zenon, <1>1, <1>4, <2>1, SumZero
<1>7. ASSUME NEW s \in Slots, NEW v \in Values
      PROVE  Credit(o, [p EXCEPT ![s] = v]) = Credit(o, p) + (Worth(o[s], v) - Worth(o[s], p[s]))
    <2> DEFINE q == [p EXCEPT ![s] = v]
    <2>1. q \in [Slots -> Values] /\ q[s] = v /\ \A y \in Slots : y # s => q[y] = p[y]
        BY Zenon
    <2> HIDE DEF q
    <2>2. /\ \A y \in Slots : W(p)[y] = Worth(o[y], p[y]) /\ W(p)[y] \in Nat
          /\ \A y \in Slots : W(q)[y] = Worth(o[y], q[y]) /\ W(q)[y] \in Nat
        BY Zenon, <1>3, <2>1
    <2> HIDE DEF W
    <2>3. \A n \in Nat : n \in Int
        OBVIOUS
    <2>4. SameExcept(W(p), W(q), Slots, s)
        BY Zenon, <2>1, <2>2, <2>3 DEF SameExcept
    <2>5. SumFunctionOnSet(W(q), Slots) = SumFunctionOnSet(W(p), Slots) + (W(q)[s] - W(p)[s])
        <3>1. PICK f, g : f = W(p) /\ g = W(q)
            BY Zenon
        <3>2. SameExcept(f, g, Slots, s)
            BY ZenonT(30), <2>4, <3>1
        <3>3. SumFunctionOnSet(g, Slots) = SumFunctionOnSet(f, Slots) + (g[s] - f[s])
            BY SMTT(30), <1>1, <3>2, SumChange
        <3> QED
            BY Zenon, <3>1, <3>3
    <2>6. Credit(o, q) = Credit(o, p) + (Worth(o[s], v) - Worth(o[s], p[s]))
        BY Zenon, <1>4, <2>1, <2>2, <2>5
    <2> QED
        BY Zenon, <2>6 DEF q
<1> QED
    BY Zenon, <1>5, <1>6, <1>7

(* The refund is never a debt, never more than was claimed and at most one  *)
(* part of what was spent (evm_impl.rs, finalize), for any slots, values,   *)
(* prices that meet GasAssumption, and depth of calls.                      *)
THEOREM RefundsStaySound == Spec => []RefundSound
<1>1. Spec => RefundInv
    BY ZenonT(30), Credits, InitRefund DEF Spec
<1>2. IInv /\ RefundInv /\ [Next]_vars => RefundInv'
    BY Zenon, Credits, NextRefund
<1>3. RefundInv => RefundSound
    BY Zenon DEF RefundInv
<1> QED
    BY <1>1, <1>2, <1>3, AlwaysIInv, PTL DEF Spec
=============================================================================
