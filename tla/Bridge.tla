------------------------------- MODULE Bridge -------------------------------
(***************************************************************************)
(* The two bridge contracts of enterprise-blockchain,                       *)
(* bridge_contracts/src/Bridge.sol and BridgedERC20.sol, one per chain.     *)
(*                                                                         *)
(* A token is the address of a native ERC-20 contract; on the chain that is *)
(* not its home it exists as the BridgedERC20 that ERC20Register deploys.   *)
(* The nodes mine each transaction into a block of its own.  msgNonce is    *)
(* the number of messages sent, so a message is named by its place in       *)
(* sent[c] and the hash that relayedMessages records by that number.        *)
(***************************************************************************)
EXTENDS Integers, Sequences, FiniteSets

CONSTANTS
    Chains,           \* block.chainid of the two chains
    Users, Zero,      \* accounts, address(0) among them
    Tokens,           \* native ERC-20 contracts
    Eth,              \* the chains' own currency
    Home,             \* the chain a token is native to
    Amounts,          \* amounts users transfer
    Funds,            \* users' balances when the bridges are deployed
    Reserve           \* the bridges' own balances then

Assets == Tokens \cup {Eth}

ASSUME BridgeAssumption ==
    /\ \E a, b \in Chains : a # b /\ Chains = {a, b}
    /\ IsFiniteSet(Users) /\ Zero \in Users
    /\ Eth \notin Tokens
    /\ Home \in [Tokens -> Chains]
    /\ Amounts \subseteq Nat
    /\ Funds \in [Chains -> [Assets -> [Users -> Nat]]]
    /\ Reserve \in [Chains -> [Assets -> Nat]]
    /\ \A t \in Tokens, c \in Chains :
         c # Home[t] => Reserve[c][t] = 0 /\ \A u \in Users : Funds[c][t][u] = 0

VARIABLES
    balance,          \* balances of the users
    held,             \* balances of the bridge contracts
    registered,       \* isTokenRegisteredAtRemote
    local,            \* remote tokens with a BridgedERC20 (remoteTokenToLocalToken)
    sent,             \* SendRemoteMessage events
    relayed,          \* relayedMessages
    height            \* number of blocks

bridgeVars == <<balance, held, registered, local, sent, relayed, height>>

(* block.chainid ^ 1 *)
Other(c) == CHOOSE d \in Chains : d # c

Messages ==
    [kind : {"ERC20Register", "ERC20In", "ethIn"}, asset : Assets, to : Users, amount : Nat,
     block : Nat, direct : BOOLEAN]

BridgeTypeOK ==
    /\ balance \in [Chains -> [Assets -> [Users -> Nat]]]
    /\ held \in [Chains -> [Assets -> Nat]]
    /\ registered \in [Chains -> SUBSET Tokens]
    /\ local \in [Chains -> SUBSET Tokens]
    /\ sent \in [Chains -> Seq(Messages)]
    /\ relayed \in [Chains -> SUBSET (Nat \ {0})]
    /\ height \in [Chains -> Nat]

(* Deployed, and each registered with the other as its remote bridge. *)
BridgeInit ==
    /\ balance = Funds
    /\ held = Reserve
    /\ registered = [c \in Chains |-> {}]
    /\ local = [c \in Chains |-> {}]
    /\ sent = [c \in Chains |-> <<>>]
    /\ relayed = [c \in Chains |-> {}]
    /\ height = [c \in Chains |-> 0]

-----------------------------------------------------------------------------
(* A message of the transaction that is being mined; it is direct when the  *)
(* transaction is addressed to the bridge itself.                           *)
Message(c, kind, asset, to, amount, direct) ==
    [kind |-> kind, asset |-> asset, to |-> to, amount |-> amount,
     block |-> height[c] + 1, direct |-> direct]

(* sendRemoteMessage, for each of ms, and the block that holds them. *)
SendRemoteMessages(c, ms) ==
    /\ sent' = [sent EXCEPT ![c] = @ \o ms]
    /\ height' = [height EXCEPT ![c] = @ + 1]

(* ethOut, and receive for an account that sends ether to the bridge. *)
EthOut(c, u, to, a, direct) ==
    /\ balance[c][Eth][u] >= a
    /\ balance' = [balance EXCEPT ![c][Eth][u] = @ - a]
    /\ held' = [held EXCEPT ![c][Eth] = @ + a]
    /\ SendRemoteMessages(c, <<Message(c, "ethIn", Eth, to, a, direct)>>)
    /\ UNCHANGED <<registered, local, relayed>>

(* Mutant: the transfer is announced, the tokens are not burnt. *)
ERC20OutNoBurn(c, u, t, to, a, direct) ==
    /\ t \in local[c]
    /\ balance[c][t][u] >= a
    /\ SendRemoteMessages(c, <<Message(c, "ERC20In", t, to, a, direct)>>)
    /\ UNCHANGED <<balance, held, registered, local, relayed>>

(* ERC20Out of a BridgedERC20: burn. *)
ERC20OutBurn(c, u, t, to, a, direct) ==
    /\ t \in local[c]
    /\ balance[c][t][u] >= a
    /\ balance' = [balance EXCEPT ![c][t][u] = @ - a]
    /\ SendRemoteMessages(c, <<Message(c, "ERC20In", t, to, a, direct)>>)
    /\ UNCHANGED <<held, registered, local, relayed>>

(* Mutant: the transfer is sent before the registration it needs. *)
ERC20OutLockUnordered(c, u, t, to, a, direct) ==
    /\ Home[t] = c
    /\ balance[c][t][u] >= a
    /\ balance' = [balance EXCEPT ![c][t][u] = @ - a]
    /\ held' = [held EXCEPT ![c][t] = @ + a]
    /\ LET transfer == Message(c, "ERC20In", t, to, a, direct)
           register == Message(c, "ERC20Register", t, to, 0, direct)
       IN SendRemoteMessages(c, IF t \in registered[c] THEN <<transfer>>
                                ELSE <<transfer, register>>)
    /\ registered' = [registered EXCEPT ![c] = @ \cup {t}]
    /\ UNCHANGED <<local, relayed>>

(* ERC20Out of a native token: take it into custody, and have it registered *)
(* on the other side before its first transfer.                             *)
ERC20OutLock(c, u, t, to, a, direct) ==
    /\ Home[t] = c
    /\ balance[c][t][u] >= a
    /\ balance' = [balance EXCEPT ![c][t][u] = @ - a]
    /\ held' = [held EXCEPT ![c][t] = @ + a]
    /\ LET transfer == Message(c, "ERC20In", t, to, a, direct)
           register == Message(c, "ERC20Register", t, to, 0, direct)
       IN SendRemoteMessages(c, IF t \in registered[c] THEN <<transfer>>
                                ELSE <<register, transfer>>)
    /\ registered' = [registered EXCEPT ![c] = @ \cup {t}]
    /\ UNCHANGED <<local, relayed>>

-----------------------------------------------------------------------------
(* relayMessage on chain d of message n of the other chain.                 *)

(* The transaction does not revert: the message is new and its call works.  *)
(* transfer on an address without a contract reverts, and so does a call    *)
(* with more value than the bridge holds. ERC20Out takes any recipient, but *)
(* _mint and _transfer of the tokens revert for address(0).                 *)
RelayAccepted(d, n) ==
    LET m == sent[Other(d)][n] IN
    /\ n \notin relayed[d]
    /\ m.kind = "ERC20In" => m.to # Zero
    /\ \/ m.kind = "ERC20Register"
       \/ m.kind = "ERC20In" /\ m.asset \in local[d]
       \/ m.kind = "ERC20In" /\ m.asset \notin local[d] /\ Home[m.asset] = d
            /\ held[d][m.asset] >= m.amount
       \/ m.kind = "ethIn" /\ held[d][Eth] >= m.amount

(* The token's BridgedERC20 is deployed, once. *)
ERC20Register(d, m) ==
    /\ local' = [local EXCEPT ![d] = @ \cup {m.asset}]
    /\ UNCHANGED <<balance, held>>

(* Mutant: a native token is released to msg.sender, which is the bridge's  *)
(* relayer, and not to the user.                                            *)
ERC20InToSender(d, m) ==
    /\ balance' = IF m.asset \in local[d] THEN [balance EXCEPT ![d][m.asset][m.to] = @ + m.amount]
                                          ELSE balance
    /\ held' = IF m.asset \in local[d] THEN held ELSE [held EXCEPT ![d][m.asset] = @ - m.amount]
    /\ UNCHANGED local

(* A bridged token is minted, a native one is released. *)
ERC20In(d, m) ==
    /\ balance' = [balance EXCEPT ![d][m.asset][m.to] = @ + m.amount]
    /\ held' = IF m.asset \in local[d] THEN held ELSE [held EXCEPT ![d][m.asset] = @ - m.amount]
    /\ UNCHANGED local

(* The call that relayMessage makes with value, and sendValue to the user. *)
EthIn(d, m) ==
    /\ balance' = [balance EXCEPT ![d][Eth][m.to] = @ + m.amount]
    /\ held' = [held EXCEPT ![d][Eth] = @ - m.amount]
    /\ UNCHANGED local

(* An accepted transaction: the message is recorded and its call made. *)
RelayMessage(d, n) ==
    LET m == sent[Other(d)][n] IN
    /\ relayed' = [relayed EXCEPT ![d] = @ \cup {n}]
    /\ height' = [height EXCEPT ![d] = @ + 1]
    /\ \/ m.kind = "ERC20Register" /\ ERC20Register(d, m)
       \/ m.kind = "ERC20In" /\ ERC20In(d, m)
       \/ m.kind = "ethIn" /\ EthIn(d, m)
    /\ UNCHANGED <<registered, sent>>
=============================================================================
