--------------------------- MODULE TransferLedger ---------------------------
(***************************************************************************)
(* What a bridge promises: value leaves a user of one chain, is in transit, *)
(* and reaches a user of the other chain once.  Nothing is said of escrow,  *)
(* minting, token registration, blocks or a relayer.                        *)
(***************************************************************************)
EXTENDS Integers

CONSTANTS Chains, Users, Assets, Amounts

VARIABLES
    funds,            \* what each user of each chain owns
    transit,          \* transfers under way
    count             \* number of the last transfer that left each chain

Init ==
    /\ funds \in [Chains -> [Assets -> [Users -> Nat]]]
    /\ transit = {}
    /\ count = [c \in Chains |-> 0]

(* A transfer is named by the chain it leaves and a number there.  Numbers  *)
(* grow, so that no transfer is ever sent, or delivered, twice.             *)
Send(c, u, x, to, a) ==
    /\ funds[c][x][u] >= a
    /\ funds' = [funds EXCEPT ![c][x][u] = @ - a]
    /\ count'[c] > count[c]
    /\ count' = [count EXCEPT ![c] = count'[c]]
    /\ transit' = transit \cup
         {[from |-> c, number |-> count'[c], asset |-> x, to |-> to, amount |-> a]}

Deliver(x, c) ==
    /\ c # x.from
    /\ funds' = [funds EXCEPT ![c][x.asset][x.to] = @ + x.amount]
    /\ transit' = transit \ {x}
    /\ UNCHANGED count

Next ==
    \/ \E c \in Chains, u, to \in Users, x \in Assets, a \in Amounts : Send(c, u, x, to, a)
    \/ \E x \in transit, c \in Chains : Deliver(x, c)

Spec == Init /\ [][Next]_<<funds, transit, count>>
=============================================================================
