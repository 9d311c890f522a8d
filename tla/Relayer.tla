------------------------------ MODULE Relayer ------------------------------
(***************************************************************************)
(* The relayer between the two bridges: class Relayer of                    *)
(* enterprise-blockchain/relayer/main.py (and package/anvil.py), with the   *)
(* users whose transactions it follows.                                     *)
(*                                                                         *)
(* Task c follows chain c and relays to the other chain; both tasks run in  *)
(* one process and are interleaved at every await.                          *)
(***************************************************************************)
EXTENDS Bridge, Functions

CONSTANTS
    First,            \* the chain of the task that main awaits first
    MaxMessages,      \* bound on the messages users have a chain send
    MaxFaults         \* bound on failed calls and crashes

ASSUME RelayerAssumption == First \in Chains /\ MaxMessages \in Nat /\ MaxFaults \in Nat

VARIABLES
    pc,               \* what each task does next
    cursor,           \* _last_processed_block_number
    bound,            \* latest_block_number of the current round
    todo,             \* messages of the current block still to be handled
    refused,          \* ghost: messages whose relayMessage reverted
    skipped,          \* ghost: messages the relayer will never come to
    faults            \* faults so far

relayerVars == <<pc, cursor, bound, todo, refused, skipped, faults>>
vars == <<bridgeVars, relayerVars>>

Labels == {"init", "poll", "scan", "handle", "dead"}

TypeOK ==
    /\ BridgeTypeOK
    /\ pc \in [Chains -> Labels]
    /\ cursor \in [Chains -> Nat] /\ bound \in [Chains -> Nat]
    /\ todo \in [Chains -> SUBSET (Nat \ {0})]
    /\ refused \in [Chains -> SUBSET (Nat \ {0})]
    /\ skipped \in [Chains -> SUBSET (Nat \ {0})]
    /\ faults \in 0 .. MaxFaults

Init ==
    /\ BridgeInit
    /\ pc = [c \in Chains |-> "init"]
    /\ cursor = [c \in Chains |-> 0]
    /\ bound = [c \in Chains |-> 0]
    /\ todo = [c \in Chains |-> {}]
    /\ refused = [c \in Chains |-> {}]
    /\ skipped = [c \in Chains |-> {}]
    /\ faults = 0

(* The messages of chain c in blocks bs. *)
MessagesIn(c, bs) == {n \in DOMAIN sent[c] : sent[c][n].block \in bs}

Goto(c, label) == pc' = [pc EXCEPT ![c] = label]

-----------------------------------------------------------------------------
(* A user's transaction, sent to the bridge or to a contract that calls it. *)
UserSends(c, x, to, a) ==
    /\ Len(sent[c]) < MaxMessages
    /\ \E u \in Users \ {Zero}, direct \in BOOLEAN :
         \/ x = Eth /\ EthOut(c, u, to, a, direct)
         \/ /\ x \in Tokens
            /\ ERC20OutBurn(c, u, x, to, a, direct) \/ ERC20OutLock(c, u, x, to, a, direct)
    /\ UNCHANGED relayerVars

UserStep(c) == \E x \in Assets, to \in Users, a \in Amounts : UserSends(c, x, to, a)

-----------------------------------------------------------------------------
(* Relayer.run                                                              *)

(* Mutant: the chain is read again from its first block. *)
StartRescans(c) ==
    /\ pc[c] = "init"
    /\ cursor' = [cursor EXCEPT ![c] = 0]
    /\ Goto(c, "poll")
    /\ UNCHANGED <<bridgeVars, bound, todo, refused, skipped, faults>>

(* _init: the blocks mined so far are not looked at. *)
Start(c) ==
    /\ pc[c] = "init"
    /\ cursor' = [cursor EXCEPT ![c] = height[c]]
    /\ skipped' = [skipped EXCEPT ![c] = @ \cup MessagesIn(c, cursor[c] + 1 .. height[c])]
    /\ Goto(c, "poll")
    /\ UNCHANGED <<bridgeVars, bound, todo, refused, faults>>

(* Mutant: range(last + 1, latest), which leaves out the latest block. *)
PollShort(c) ==
    /\ pc[c] = "poll"
    /\ bound' = [bound EXCEPT ![c] = IF height[c] = 0 THEN 0 ELSE height[c] - 1]
    /\ cursor' = [cursor EXCEPT ![c] = IF @ > height[c] THEN height[c] ELSE @]
    /\ Goto(c, "scan")
    /\ UNCHANGED <<bridgeVars, todo, refused, skipped, faults>>

(* latest_block_number = get_block('latest').number *)
Poll(c) ==
    /\ pc[c] = "poll"
    /\ bound' = [bound EXCEPT ![c] = height[c]]
    /\ cursor' = [cursor EXCEPT ![c] = IF @ > height[c] THEN height[c] ELSE @]
    /\ Goto(c, "scan")
    /\ UNCHANGED <<bridgeVars, todo, refused, skipped, faults>>

(* One block: the logs count only if some transaction is sent to the bridge. *)
Scan(c) ==
    LET i == cursor[c] + 1
        ms == MessagesIn(c, {i})
        found == \A n \in ms : sent[c][n].direct
    IN
    /\ pc[c] = "scan" /\ cursor[c] < bound[c]
    /\ cursor' = [cursor EXCEPT ![c] = i]
    /\ IF found THEN todo' = [todo EXCEPT ![c] = ms] /\ UNCHANGED skipped
                ELSE skipped' = [skipped EXCEPT ![c] = @ \cup ms] /\ UNCHANGED todo
    /\ Goto(c, IF found /\ ms # {} THEN "handle" ELSE "scan")
    /\ UNCHANGED <<bridgeVars, bound, refused, faults>>

EndRound(c) ==
    /\ pc[c] = "scan" /\ cursor[c] >= bound[c]
    /\ Goto(c, "poll")
    /\ UNCHANGED <<bridgeVars, cursor, bound, todo, refused, skipped, faults>>

(* The for loop over the logs is at message n, and goes on to the next. *)
Done(c, n) ==
    /\ \A m \in todo[c] : n <= m
    /\ todo' = [todo EXCEPT ![c] = @ \ {n}]
    /\ Goto(c, IF todo[c] = {n} THEN "scan" ELSE "handle")

(* event_log_handler: the transaction is mined, or reverts and is dropped. *)
Handle(c) ==
    /\ pc[c] = "handle"
    /\ \E n \in todo[c] :
         /\ Done(c, n)
         /\ IF RelayAccepted(Other(c), n)
            THEN RelayMessage(Other(c), n) /\ UNCHANGED refused
            ELSE /\ refused' = [refused EXCEPT ![c] = @ \cup {n}]
                 /\ UNCHANGED bridgeVars
    /\ UNCHANGED <<cursor, bound, skipped, faults>>

-----------------------------------------------------------------------------
(* Faults                                                                   *)

NewFault == faults < MaxFaults /\ faults' = faults + 1

(* transact raises before the transaction is sent; an exception after that  *)
(* (the receipt times out) changes nothing more than Handle does.           *)
HandleFails(c) ==
    /\ pc[c] = "handle"
    /\ NewFault
    /\ \E n \in todo[c] :
         Done(c, n) /\ skipped' = [skipped EXCEPT ![c] = @ \cup {n}]
    /\ UNCHANGED <<bridgeVars, cursor, bound, refused>>

(* An exception reaches the except clause of run: the block that is being   *)
(* read, or what is left of the one being handled, is not looked at again.  *)
Abandon(c) ==
    LET next == IF pc[c] = "scan" /\ cursor[c] < bound[c] THEN cursor[c] + 1 ELSE cursor[c] IN
    /\ cursor' = [cursor EXCEPT ![c] = next]
    /\ todo' = [todo EXCEPT ![c] = {}]
    /\ skipped' = [skipped EXCEPT ![c] = @ \cup todo[c] \cup MessagesIn(c, cursor[c] + 1 .. next)]

(* get_block, get_transaction or get_logs raises. *)
ScanFails(c) ==
    /\ pc[c] = "scan" /\ cursor[c] < bound[c]
    /\ NewFault
    /\ Abandon(c)
    /\ Goto(c, "poll")
    /\ UNCHANGED <<bridgeVars, bound, refused>>

(* _init raises, and the task is over.  Nobody notices the end of the       *)
(* second task.  That of the first has asyncio.run cancel the second: this  *)
(* ends it in _init or asleep, and in a round its except clause takes it.   *)
InitFails(c) ==
    /\ pc[c] = "init"
    /\ NewFault
    /\ \/ /\ c # First
          /\ Goto(c, "dead")
          /\ UNCHANGED <<cursor, todo, skipped>>
       \/ /\ c = First /\ pc[Other(c)] \in {"init", "poll", "dead"}
          /\ pc' = [d \in Chains |-> "dead"]
          /\ UNCHANGED <<cursor, todo, skipped>>
       \/ /\ c = First /\ pc[Other(c)] \in {"poll", "scan", "handle"}
          /\ pc' = [d \in Chains |-> IF d = c THEN "dead" ELSE "poll"]
          /\ Abandon(Other(c))
    /\ UNCHANGED <<bridgeVars, bound, refused>>

(* The process dies. *)
Crash ==
    /\ NewFault
    /\ pc' = [c \in Chains |-> "dead"]
    /\ todo' = [c \in Chains |-> {}]
    /\ skipped' = [c \in Chains |-> skipped[c] \cup todo[c]]
    /\ UNCHANGED <<bridgeVars, cursor, bound, refused>>

(* AnvilInstance.ready, on some request, finds no process and starts one. *)
Relaunch ==
    /\ pc = [c \in Chains |-> "dead"]
    /\ pc' = [c \in Chains |-> "init"]
    /\ UNCHANGED <<bridgeVars, cursor, bound, todo, refused, skipped, faults>>

-----------------------------------------------------------------------------
TaskStep(c) == Start(c) \/ Poll(c) \/ Scan(c) \/ EndRound(c) \/ Handle(c)

Next ==
    \/ \E c \in Chains : \/ UserStep(c) \/ TaskStep(c)
                       \/ ScanFails(c) \/ HandleFails(c) \/ InitFails(c)
    \/ Crash \/ Relaunch

Spec == Init /\ [][Next]_vars

(* The event loop starves neither task; users and faults owe nothing. *)
FairSpec == Spec /\ \A c \in Chains : WF_vars(TaskStep(c))

-----------------------------------------------------------------------------
(* Properties                                                               *)

Kind(c, n) == sent[c][n].kind

(* The messages of chain c that carry asset x and have not been relayed. *)
Undelivered(c, x) ==
    {n \in DOMAIN sent[c] : sent[c][n].asset = x /\ n \notin relayed[Other(c)]}

InTransitFrom(c, x) ==
    SumFunctionOnSet([n \in DOMAIN sent[c] |-> sent[c][n].amount], Undelivered(c, x))

InTransit(x) == SumFunction([c \in Chains |-> InTransitFrom(c, x)])

(* Every asset is backed: what the home bridge of a token has taken into    *)
(* custody is what exists on the other chain plus what is in transit, with  *)
(* whatever was lost, refused or never seen still counted; and the ether of *)
(* the two bridges together covers the reserves they started with and all   *)
(* ether in transit, although relayMessage pays from the pool.              *)
Backed ==
    /\ \A t \in Tokens :
          held[Home[t]][t] - Reserve[Home[t]][t] =
              SumFunction(balance[Other(Home[t])][t]) + InTransit(t)
    /\ SumFunction([c \in Chains |-> held[c][Eth] - Reserve[c][Eth]]) = InTransit(Eth)

(* Messages are attempted once and in the order of their nonces: whatever a *)
(* task is about to relay is later than all that was relayed, so a restart  *)
(* or an overlapping round never sends one again.                           *)
InOrder ==
    \A c \in Chains : \A n \in todo[c], m \in relayed[Other(c)] : m < n

(* A token transfer is refused only if it names address(0), which ERC20Out  *)
(* does not check, or if the token's registration was passed over: custody  *)
(* always covers a release, and registration is relayed before the          *)
(* transfers that need it.                                                  *)
RefusalsExplained ==
    \A c \in Chains : \A n \in refused[c] :
        \/ Kind(c, n) = "ethIn"
        \/ /\ Kind(c, n) = "ERC20In"
           /\ \/ sent[c][n].to = Zero
              \/ \E r \in skipped[c] : /\ Kind(c, r) = "ERC20Register"
                                       /\ sent[c][r].asset = sent[c][n].asset

(* The transfers that have left chain c and have not reached the other. *)
Pending(c) ==
    {n \in DOMAIN sent[c] : Kind(c, n) # "ERC20Register" /\ n \notin relayed[Other(c)]}

TransferOf(c, n) ==
    [from |-> c, number |-> n, asset |-> sent[c][n].asset, to |-> sent[c][n].to,
     amount |-> sent[c][n].amount]

InFlightFrom(c) == {TransferOf(c, n) : n \in Pending(c)}

InFlight == UNION {InFlightFrom(c) : c \in Chains}

LastSent == [c \in Chains |-> Len(sent[c])]

Ledger == INSTANCE TransferLedger WITH
    funds <- balance, transit <- InFlight, count <- LastSent

(* The contracts and the relayer implement plain transfers between users:   *)
(* locking, minting, burning, releasing and registering are not observable, *)
(* and no message is ever paid out twice.                                   *)
ImplementsLedger == Ledger!Spec

(* A message is settled: relayed, refused by the contract, or passed over;  *)
(* unless the task that should come to it is no longer there.               *)
Settled ==
    \A c \in Chains, n \in 1 .. MaxMessages + 1 :
        n \in DOMAIN sent[c] ~> \/ n \in relayed[Other(c)] \cup refused[c] \cup skipped[c]
                               \/ pc[c] = "dead"
=============================================================================
