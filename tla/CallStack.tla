----------------------------- MODULE CallStack -----------------------------
(***************************************************************************)
(* What the journaled EVM promises its callers: transactions that run on a  *)
(* stack of saved worlds. A call saves the world and goes on; when it ends  *)
(* well the saved world is forgotten, and otherwise it is what is left. A   *)
(* transaction leaves behind the world it ended with.                       *)
(***************************************************************************)
EXTENDS Integers, Sequences

CONSTANTS Addr, Coinbase, NoStorage

VARIABLES
    world,     \* account -> [balance, nonce, destroyed, storage]
    logs,      \* number of logs emitted
    saved,     \* the worlds and logs to go back to, innermost last
    active,    \* a transaction is being executed
    payer,     \* who pays for it
    work,      \* instructions it has executed
    start      \* the world before it, or between transactions the world

stackVars == <<world, logs, saved, active, payer, work, start>>

Empty == [balance |-> 0, nonce |-> 0, destroyed |-> FALSE, storage |-> NoStorage]
Keep == UNCHANGED <<active, payer, start>>
Outer == SubSeq(saved, 1, Len(saved) - 1)

(* w is v but for the balance and the nonce of account a. *)
OnlyInfoOf(a, v, w) ==
    /\ \A b \in Addr \ {a} : w[b] = v[b]
    /\ w[a].storage = v[a].storage /\ w[a].destroyed = v[a].destroyed

StackInit == saved = <<>> /\ ~active /\ logs = 0 /\ work = 0 /\ start = world

(* The payer's balance and nonce are all that changes before the first call. *)
Begin ==
    /\ ~active /\ active' /\ start' = start /\ work' = 0
    /\ \/ saved' = <<>> /\ OnlyInfoOf(payer', world, world')
       \/ /\ Len(saved') = 1 /\ saved'[1].logs = 0
          /\ OnlyInfoOf(payer', world, saved'[1].world)
    /\ logs' = 0

(* An instruction may do anything to the world; nothing else may. *)
Work == active /\ work' = work + 1 /\ saved' = saved /\ logs' >= logs /\ Keep

(* A call; or a create, which first takes a nonce of its maker. *)
Enter ==
    /\ active /\ Len(saved') = Len(saved) + 1 /\ SubSeq(saved', 1, Len(saved)) = saved
    /\ LET top == saved'[Len(saved')]
       IN  /\ top.logs = logs
           /\ \/ top.world = world
              \/ \E a \in Addr : top.world = [world EXCEPT ![a].nonce = @ + 1]
    /\ work' = work + 1 /\ logs' = logs /\ Keep

Commit ==
    /\ active /\ saved # <<>> /\ saved' = Outer
    /\ UNCHANGED <<world, logs, work>> /\ Keep

Revert ==
    /\ active /\ saved # <<>> /\ saved' = Outer
    /\ world' = saved[Len(saved)].world /\ logs' = saved[Len(saved)].logs
    /\ UNCHANGED work /\ Keep

(* Fees are settled and destroyed accounts are emptied; nothing else        *)
(* happens to the world when the transaction is over. One that could not be *)
(* carried out leaves no trace.                                             *)
End ==
    /\ active /\ ~active' /\ saved = <<>> /\ saved' = saved
    /\ \/ \A a \in Addr :
            LET left == IF world[a].destroyed THEN Empty ELSE world[a]
            IN  IF a \in {payer, Coinbase}
                THEN world'[a].nonce = left.nonce /\ world'[a].storage = left.storage
                ELSE world'[a] = left
       \/ world' = start
    /\ start' = world' /\ UNCHANGED <<payer, work>>

StackNext == Begin \/ Work \/ Enter \/ Commit \/ Revert \/ End

StackSpec == StackInit /\ [][StackNext]_stackVars
=============================================================================
