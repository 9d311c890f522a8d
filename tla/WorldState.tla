---------------------------- MODULE WorldState ----------------------------
(***************************************************************************)
(* What a database of accounts promises the EVM and the cheat calls of a    *)
(* node: a map from addresses to accounts that holds the last value         *)
(* written. There are no caches, no account states and no remote here.      *)
(***************************************************************************)
EXTENDS Naturals

CONSTANTS Addresses, Slots, Values, Balances, Nonces, Codes, NoCode,
    Genesis     \* the maps it may start as

VARIABLES
    world,      \* address -> [balance, nonce, code, storage]
    op          \* the last operation

Cleared == [s \in Slots |-> 0]
EmptyAccount == [balance |-> 0, nonce |-> 0, code |-> NoCode, storage |-> Cleared]

(* The writes replace the values of the slots they name. *)
Written(storage, writes) ==
    [s \in Slots |-> IF s \in DOMAIN writes THEN writes[s] ELSE storage[s]]

Put(a, account) == world' = [world EXCEPT ![a] = account]
Is(o) == op' = o

WorldInit == world \in Genesis /\ op = [do |-> "read"]

Read == Is([do |-> "read"]) /\ UNCHANGED world

Cheat(a) ==
    \/ \E b \in Balances :
         Is([do |-> "balance", at |-> a, to |-> b]) /\ Put(a, [world[a] EXCEPT !.balance = b])
    \/ \E n \in Nonces :
         Is([do |-> "nonce", at |-> a, to |-> n]) /\ Put(a, [world[a] EXCEPT !.nonce = n])
    \/ \E c \in Codes \cup {NoCode} :
         Is([do |-> "code", at |-> a, to |-> c]) /\ Put(a, [world[a] EXCEPT !.code = c])
    \/ \E s \in Slots, v \in Values :
         /\ Is([do |-> "slot", at |-> a, slot |-> s, to |-> v])
         /\ Put(a, [world[a] EXCEPT !.storage[s] = v])

(* A transaction destroys the account, creates a contract in the place of   *)
(* one without code and nonce, or leaves the code.                          *)
Transact(a) ==
    \/ Is([do |-> "destroy", at |-> a]) /\ Put(a, EmptyAccount)
    \/ \E T \in SUBSET Slots, b \in Balances : \E w \in [T -> Values] :
         \/ /\ world[a].code = NoCode /\ world[a].nonce = 0
            /\ \E c \in Codes :
                 /\ Is([do |-> "create", at |-> a, balance |-> b, code |-> c, writes |-> w])
                 /\ Put(a, [balance |-> b, nonce |-> 1, code |-> c,
                            storage |-> Written(Cleared, w)])
         \/ /\ world[a].code = NoCode => T = {}
            /\ \E n \in {world[a].nonce, world[a].nonce + 1} \cap Nonces :
                 /\ Is([do |-> "touch", at |-> a, balance |-> b, nonce |-> n, writes |-> w])
                 /\ Put(a, [world[a] EXCEPT !.balance = b, !.nonce = n,
                                            !.storage = Written(world[a].storage, w)])

WorldNext == Read \/ \E a \in Addresses : Cheat(a) \/ Transact(a)
WorldSpec == WorldInit /\ [][WorldNext]_<<world, op>>
=============================================================================
