--------------------------- MODULE RelayerProofs ---------------------------
(***************************************************************************)
(* Proofs about Relayer for every number of users, tokens, messages and     *)
(* faults.                                                                  *)
(***************************************************************************)
EXTENDS Relayer, TLAPS

(* What the contracts send: the fields that go with each kind of message. *)
Sound(m) == m.asset = Eth <=> m.kind = "ethIn"

(* The messages of a chain are in its blocks, in the order of the blocks. *)
LogOK ==
    \A c \in Chains :
        /\ \A n \in DOMAIN sent[c] : Sound(sent[c][n]) /\ sent[c][n].block <= height[c]
        /\ \A m, n \in DOMAIN sent[c] : m < n => sent[c][m].block <= sent[c][n].block

(* Where a task is, and that it relays nothing of a block ahead of it. *)
TaskOK ==
    \A c \in Chains :
        /\ cursor[c] <= height[c] /\ bound[c] <= height[c]
        /\ pc[c] # "handle" => todo[c] = {}
        /\ \A n \in todo[c] : n \in DOMAIN sent[c] /\ sent[c][n].block = cursor[c]
        /\ \A n \in relayed[Other(c)] : n \in DOMAIN sent[c] /\ sent[c][n].block <= cursor[c]

(* Messages T of block k of chain c come after all that were relayed. *)
Ahead(c, k, T) ==
    \A n \in T : /\ n \in DOMAIN sent[c] /\ sent[c][n].block = k
                 /\ \A m \in relayed[Other(c)] : m < n

Inv == TypeOK /\ LogOK /\ TaskOK /\ InOrder

-----------------------------------------------------------------------------
(* There are two chains, and Other goes from one to the other. *)
LEMMA OtherChain ==
  \A c \in Chains :
     /\ Other(c) \in Chains /\ Other(c) # c /\ Other(Other(c)) = c
     /\ \A d \in Chains : d # c => d = Other(c)
  <1> SUFFICES ASSUME NEW c \in Chains
               PROVE  /\ Other(c) \in Chains /\ Other(c) # c /\ Other(Other(c)) = c
                      /\ \A d \in Chains : d # c => d = Other(c)
    BY Zenon
  <1>1. PICK a, b \in Chains : a # b /\ Chains = {a, b}
    BY Zenon, BridgeAssumption
  <1>2. \E d \in Chains : d # c
    BY <1>1
  <1>3. \A x \in Chains : (\E d \in Chains : d # x) => Other(x) \in Chains /\ Other(x) # x
    BY Zenon DEF Other
  <1> QED BY Zenon, <1>1, <1>2, <1>3

(* What appending to the messages of a chain leaves and adds. *)
LEMMA Appended ==
  ASSUME NEW s \in Seq(Messages), NEW ms \in Seq(Messages)
  PROVE  /\ s \o ms \in Seq(Messages)
         /\ Len(s \o ms) = Len(s) + Len(ms)
         /\ DOMAIN s = 1 .. Len(s) /\ DOMAIN (s \o ms) = 1 .. (Len(s) + Len(ms))
         /\ \A n \in 1 .. Len(s) : (s \o ms)[n] = s[n]
         /\ \A n \in 1 .. (Len(s) + Len(ms)) : n > Len(s) => (s \o ms)[n] = ms[n - Len(s)]
  OBVIOUS

(* Inv holds when the bridges are deployed. *)
LEMMA InitInv == Init => Inv
  <1> SUFFICES ASSUME Init PROVE Inv
    BY Zenon
  <1> USE BridgeAssumption, RelayerAssumption DEF Init, BridgeInit
  <1>1. BridgeTypeOK
    BY DEF BridgeTypeOK
  <1>2. TypeOK
    BY <1>1 DEF TypeOK, Labels
  <1>3. LogOK
    BY DEF LogOK
  <1>4. TaskOK /\ InOrder
    BY OtherChain DEF TaskOK, InOrder
  <1> QED BY Zenon, <1>2, <1>3, <1>4 DEF Inv

(* A transaction of a user adds messages in a new block, and moves no task. *)
LEMMA SendInv ==
  ASSUME Inv, NEW c \in Chains, NEW ms \in Seq(Messages), SendRemoteMessages(c, ms),
         \A k \in 1 .. Len(ms) : Sound(ms[k]) /\ ms[k].block = height[c] + 1,
         relayed' = relayed, UNCHANGED relayerVars
  PROVE  /\ sent' \in [Chains -> Seq(Messages)] /\ height' \in [Chains -> Nat]
         /\ LogOK' /\ TaskOK' /\ InOrder'
  <1> USE DEF Inv, TypeOK, BridgeTypeOK
  <1>1. /\ sent' = [sent EXCEPT ![c] = sent[c] \o ms]
        /\ height' = [height EXCEPT ![c] = height[c] + 1]
    BY Zenon DEF SendRemoteMessages
  <1>2. /\ sent[c] \in Seq(Messages) /\ sent[c] \o ms \in Seq(Messages)
        /\ DOMAIN sent[c] = 1 .. Len(sent[c]) /\ Len(sent[c]) \in Nat /\ Len(ms) \in Nat
        /\ DOMAIN (sent[c] \o ms) = 1 .. (Len(sent[c]) + Len(ms))
        /\ \A n \in DOMAIN sent[c] : (sent[c] \o ms)[n] = sent[c][n]
        /\ \A n \in DOMAIN (sent[c] \o ms) : n \notin DOMAIN sent[c] =>
              /\ n > Len(sent[c]) /\ Sound((sent[c] \o ms)[n])
              /\ (sent[c] \o ms)[n].block = height[c] + 1
    BY SMTT(30), Appended
  <1>3. sent' \in [Chains -> Seq(Messages)] /\ height' \in [Chains -> Nat]
    BY <1>1, <1>2
  <1>4. \A d \in Chains : /\ height[d] \in Nat /\ height'[d] >= height[d]
                          /\ \A n \in DOMAIN sent[d] : n \in DOMAIN sent'[d] /\ sent'[d][n] = sent[d][n]
    BY SMTT(30), <1>1, <1>2
  <1>5. LogOK'
    <2> SUFFICES ASSUME NEW d \in Chains
        PROVE  /\ \A n \in DOMAIN sent'[d] : Sound(sent'[d][n]) /\ sent'[d][n].block <= height'[d]
               /\ \A m, n \in DOMAIN sent'[d] : m < n => sent'[d][m].block <= sent'[d][n].block
      BY Zenon DEF LogOK, Sound
    <2>1. CASE d # c
      BY Zenon, <1>1, <2>1 DEF LogOK
    <2>2. CASE d = c
      <3>1. sent'[d] = sent[c] \o ms /\ height'[d] = height[c] + 1 /\ height[c] \in Nat
        BY Zenon, <1>1, <2>2
      <3>2. \A n \in DOMAIN sent'[d] : /\ Sound(sent'[d][n])
                                       /\ sent'[d][n].block \in Nat /\ sent'[d][n].block <= height[c] + 1
        <4> SUFFICES ASSUME NEW n \in DOMAIN sent'[d]
            PROVE  /\ Sound(sent'[d][n])
                   /\ sent'[d][n].block \in Nat /\ sent'[d][n].block <= height[c] + 1
          BY Zenon
        <4>1. CASE n \in DOMAIN sent[c]
          <5>1. sent'[d][n] = sent[c][n] /\ sent[c][n] \in Messages
            BY <1>2, <3>1, <4>1
          <5>2. Sound(sent[c][n]) /\ sent[c][n].block <= height[c]
            BY Zenon, <4>1 DEF LogOK
          <5>3. sent[c][n].block \in Nat
            BY Zenon, <5>1 DEF Messages
          <5> HIDE DEF Inv, TypeOK, BridgeTypeOK
          <5> QED BY <3>1, <5>1, <5>2, <5>3
        <4>2. CASE n \notin DOMAIN sent[c]
          BY SMTT(30), <1>2, <3>1, <4>2
        <4> QED BY Zenon, <4>1, <4>2
      <3>3. ASSUME NEW m \in DOMAIN sent'[d], NEW n \in DOMAIN sent'[d], m < n
            PROVE  sent'[d][m].block <= sent'[d][n].block
        <4>1. CASE n \in DOMAIN sent[c]
          <5>1. m \in DOMAIN sent[c]
            BY <1>2, <3>1, <3>3, <4>1
          <5> QED BY Zenon, <1>2, <3>1, <3>3, <4>1, <5>1 DEF LogOK
        <4>2. CASE n \notin DOMAIN sent[c]
          <5>1. sent'[d][n].block = height[c] + 1
            BY Zenon, <1>2, <3>1, <4>2
          <5> QED BY Zenon, <3>2, <5>1
        <4> QED BY Zenon, <4>1, <4>2
      <3> QED BY Zenon, <3>1, <3>2, <3>3
    <2> QED BY Zenon, <2>1, <2>2
  <1>6. TaskOK'
    <2> SUFFICES ASSUME NEW d \in Chains
        PROVE  /\ cursor'[d] <= height'[d] /\ bound'[d] <= height'[d]
               /\ pc'[d] # "handle" => todo'[d] = {}
               /\ \A n \in todo'[d] : n \in DOMAIN sent'[d] /\ sent'[d][n].block = cursor'[d]
               /\ \A n \in relayed'[Other(d)] :
                     n \in DOMAIN sent'[d] /\ sent'[d][n].block <= cursor'[d]
      BY Zenon DEF TaskOK
    <2>1. pc' = pc /\ cursor' = cursor /\ bound' = bound /\ todo' = todo
      BY Zenon DEF relayerVars
    <2>2. height'[d] \in Nat /\ cursor[d] \in Nat /\ bound[d] \in Nat
      BY Zenon, <1>3
    <2>3. /\ cursor[d] <= height[d] /\ bound[d] <= height[d]
          /\ pc[d] # "handle" => todo[d] = {}
          /\ \A n \in todo[d] : n \in DOMAIN sent[d] /\ sent[d][n].block = cursor[d]
          /\ \A n \in relayed[Other(d)] : n \in DOMAIN sent[d] /\ sent[d][n].block <= cursor[d]
      BY Zenon DEF TaskOK
    <2> HIDE DEF Inv, TypeOK, BridgeTypeOK
    <2>4. cursor'[d] <= height'[d] /\ bound'[d] <= height'[d]
      BY <1>4, <2>1, <2>2, <2>3
    <2> QED BY Zenon, <1>4, <2>1, <2>3, <2>4
  <1>7. InOrder'
    BY Zenon DEF InOrder, relayerVars
  <1> QED BY Zenon, <1>3, <1>5, <1>6, <1>7

(* A message of a new transaction. *)
Fresh(m, c) == m \in Messages /\ Sound(m) /\ m.block = height[c] + 1

(* What sendRemoteMessage is given makes one. *)
LEMMA NewMessage ==
  ASSUME Inv, NEW c \in Chains, NEW kind \in {"ERC20Register", "ERC20In", "ethIn"},
         NEW x \in Assets, NEW to \in Users, NEW a \in Nat, NEW direct \in BOOLEAN,
         x = Eth <=> kind = "ethIn"
  PROVE  Fresh(Message(c, kind, x, to, a, direct), c)
  <1>1. height[c] + 1 \in Nat
    BY DEF Inv, TypeOK, BridgeTypeOK
  <1> QED BY Zenon, <1>1 DEF Fresh, Message, Messages, Sound

(* A sequence of one or two such messages. *)
LEMMA NewMessages ==
  ASSUME NEW m \in Messages, NEW k \in Messages, NEW b, Sound(m), Sound(k), m.block = b, k.block = b
  PROVE  /\ <<m>> \in Seq(Messages) /\ <<k, m>> \in Seq(Messages)
         /\ \A i \in 1 .. Len(<<m>>) : Sound(<<m>>[i]) /\ <<m>>[i].block = b
         /\ \A i \in 1 .. Len(<<k, m>>) : Sound(<<k, m>>[i]) /\ <<k, m>>[i].block = b
  OBVIOUS

(* A user's funds and the bridge's, after a payment of a. *)
LEMMA Paid ==
  ASSUME Inv, NEW c \in Chains, NEW x \in Assets, NEW u \in Users, NEW a \in Nat
  PROVE  /\ balance[c][x][u] >= a =>
              [balance EXCEPT ![c][x][u] = @ - a] \in [Chains -> [Assets -> [Users -> Nat]]]
         /\ [balance EXCEPT ![c][x][u] = @ + a] \in [Chains -> [Assets -> [Users -> Nat]]]
         /\ held[c][x] >= a => [held EXCEPT ![c][x] = @ - a] \in [Chains -> [Assets -> Nat]]
         /\ [held EXCEPT ![c][x] = @ + a] \in [Chains -> [Assets -> Nat]]
  <1>1. /\ balance \in [Chains -> [Assets -> [Users -> Nat]]] /\ held \in [Chains -> [Assets -> Nat]]
        /\ balance[c] \in [Assets -> [Users -> Nat]] /\ balance[c][x] \in [Users -> Nat]
        /\ balance[c][x][u] \in Nat /\ held[c] \in [Assets -> Nat] /\ held[c][x] \in Nat
    BY DEF Inv, TypeOK, BridgeTypeOK
  <1> QED BY <1>1

(* A transaction of a user keeps Inv. *)
LEMMA UserStepInv ==
  ASSUME Inv, NEW c \in Chains, UserStep(c)
  PROVE  Inv'
  <1> SUFFICES ASSUME NEW u \in Users \ {Zero}, NEW to \in Users, NEW a \in Amounts, NEW direct \in BOOLEAN,
                      \/ EthOut(c, u, to, a, direct)
                      \/ \E t \in Tokens : \/ ERC20OutBurn(c, u, t, to, a, direct)
                                           \/ ERC20OutLock(c, u, t, to, a, direct),
                      UNCHANGED relayerVars
               PROVE  Inv'
    BY Zenon DEF UserStep, UserSends
  <1>0. a \in Nat /\ Eth \in Assets /\ Eth \notin Tokens /\ Tokens \subseteq Assets
    BY Zenon, BridgeAssumption DEF Assets
  <1>1. ASSUME balance' \in [Chains -> [Assets -> [Users -> Nat]]],
               held' \in [Chains -> [Assets -> Nat]],
               registered' \in [Chains -> SUBSET Tokens], UNCHANGED <<local, relayed>>,
               NEW ms \in Seq(Messages), SendRemoteMessages(c, ms),
               \A k \in 1 .. Len(ms) : Sound(ms[k]) /\ ms[k].block = height[c] + 1
        PROVE  Inv'
    <2>1. /\ sent' \in [Chains -> Seq(Messages)] /\ height' \in [Chains -> Nat]
          /\ LogOK' /\ TaskOK' /\ InOrder'
      BY Zenon, <1>1, SendInv
    <2>2. BridgeTypeOK'
      BY Zenon, <1>1, <2>1 DEF BridgeTypeOK, Inv, TypeOK
    <2>3. TypeOK'
      BY Zenon, <2>2 DEF TypeOK, Inv, relayerVars
    <2> QED BY Zenon, <2>1, <2>3 DEF Inv
  <1>2. CASE EthOut(c, u, to, a, direct)
    <2> DEFINE m == Message(c, "ethIn", Eth, to, a, direct)
    <2>1. m \in Messages /\ Sound(m) /\ m.block = height[c] + 1
      <3>1. Fresh(m, c)
        BY Zenon, <1>0, NewMessage
      <3> QED BY Zenon, <3>1 DEF Fresh
    <2>2. /\ balance' \in [Chains -> [Assets -> [Users -> Nat]]]
          /\ held' \in [Chains -> [Assets -> Nat]]
      BY Zenon, <1>0, <1>2, Paid DEF EthOut
    <2>3. registered' \in [Chains -> SUBSET Tokens]
      BY Zenon, <1>2 DEF EthOut, Inv, TypeOK, BridgeTypeOK
    <2> HIDE DEF m
    <2>4. /\ <<m>> \in Seq(Messages)
          /\ \A k \in 1 .. Len(<<m>>) : Sound(<<m>>[k]) /\ <<m>>[k].block = height[c] + 1
      BY <2>1, NewMessages
    <2>5. SendRemoteMessages(c, <<m>>) /\ UNCHANGED <<local, relayed>>
      BY Zenon, <1>2 DEF EthOut, m
    <2> QED BY Zenon, <1>1, <2>2, <2>3, <2>4, <2>5
  <1>3. ASSUME NEW t \in Tokens, ERC20OutBurn(c, u, t, to, a, direct) PROVE Inv'
    <2> DEFINE m == Message(c, "ERC20In", t, to, a, direct)
    <2>1. m \in Messages /\ Sound(m) /\ m.block = height[c] + 1
      <3>1. Fresh(m, c)
        BY Zenon, <1>0, NewMessage
      <3> QED BY Zenon, <3>1 DEF Fresh
    <2>2. balance' \in [Chains -> [Assets -> [Users -> Nat]]]
      BY Zenon, <1>0, <1>3, Paid DEF ERC20OutBurn
    <2>3. registered' \in [Chains -> SUBSET Tokens] /\ held' \in [Chains -> [Assets -> Nat]]
      BY Zenon, <1>3 DEF ERC20OutBurn, Inv, TypeOK, BridgeTypeOK
    <2> HIDE DEF m
    <2>4. /\ <<m>> \in Seq(Messages)
          /\ \A k \in 1 .. Len(<<m>>) : Sound(<<m>>[k]) /\ <<m>>[k].block = height[c] + 1
      BY <2>1, NewMessages
    <2>5. SendRemoteMessages(c, <<m>>) /\ UNCHANGED <<local, relayed>>
      BY Zenon, <1>3 DEF ERC20OutBurn, m
    <2> QED BY Zenon, <1>1, <2>2, <2>3, <2>4, <2>5
  <1>4. ASSUME NEW t \in Tokens, ERC20OutLock(c, u, t, to, a, direct) PROVE Inv'
    <2> DEFINE m == Message(c, "ERC20In", t, to, a, direct)
               r == Message(c, "ERC20Register", t, to, 0, direct)
    <2>1. /\ m \in Messages /\ Sound(m) /\ m.block = height[c] + 1
          /\ r \in Messages /\ Sound(r) /\ r.block = height[c] + 1
      <3>1. Fresh(m, c) /\ Fresh(r, c)
        BY ZenonT(30), <1>0, NewMessage
      <3> QED BY Zenon, <3>1 DEF Fresh
    <2>2. /\ balance' \in [Chains -> [Assets -> [Users -> Nat]]]
          /\ held' \in [Chains -> [Assets -> Nat]]
      BY ZenonT(30), <1>0, <1>4, Paid DEF ERC20OutLock
    <2>3. registered' \in [Chains -> SUBSET Tokens]
      BY <1>4 DEF ERC20OutLock, Inv, TypeOK, BridgeTypeOK
    <2> HIDE DEF m, r
    <2>4. /\ <<m>> \in Seq(Messages) /\ <<r, m>> \in Seq(Messages)
          /\ \A k \in 1 .. Len(<<m>>) : Sound(<<m>>[k]) /\ <<m>>[k].block = height[c] + 1
          /\ \A k \in 1 .. Len(<<r, m>>) : Sound(<<r, m>>[k]) /\ <<r, m>>[k].block = height[c] + 1
      BY SMTT(30), <2>1, NewMessages
    <2>5. /\ SendRemoteMessages(c, <<m>>) \/ SendRemoteMessages(c, <<r, m>>)
          /\ UNCHANGED <<local, relayed>>
      BY Zenon, <1>4 DEF ERC20OutLock, m, r
    <2> QED BY Zenon, <1>1, <2>2, <2>3, <2>4, <2>5
  <1> QED BY Zenon, <1>2, <1>3, <1>4

-----------------------------------------------------------------------------
(* The messages that have been sent. *)
LEMMA SentType ==
  ASSUME Inv, NEW c \in Chains, NEW n \in DOMAIN sent[c]
  PROVE  /\ n \in Nat \ {0} /\ sent[c][n] \in Messages /\ sent[c][n].block \in Nat
         /\ sent[c][n].asset \in Assets /\ sent[c][n].to \in Users /\ sent[c][n].amount \in Nat
         /\ sent[c][n].block <= height[c] /\ Sound(sent[c][n])
  <1>1. sent[c] \in Seq(Messages)
    BY Zenon DEF Inv, TypeOK, BridgeTypeOK
  <1>2. n \in Nat \ {0} /\ sent[c][n] \in Messages
    BY <1>1
  <1>3. sent[c][n].block <= height[c] /\ Sound(sent[c][n])
    BY Zenon DEF Inv, LogOK
  <1> QED BY Zenon, <1>2, <1>3 DEF Messages

(* A step of task c that leaves the contracts alone: it may move its cursor *)
(* up to the last block, and take up messages that come after all relayed.  *)
LEMMA TaskMoves ==
  ASSUME Inv, UNCHANGED bridgeVars, NEW c \in Chains, NEW label \in Labels, NEW k \in Nat,
         NEW b \in Nat, NEW T \in SUBSET (Nat \ {0}),
         pc' = [pc EXCEPT ![c] = label], cursor' = [cursor EXCEPT ![c] = k],
         bound' = [bound EXCEPT ![c] = b], todo' = [todo EXCEPT ![c] = T],
         cursor[c] <= k, k <= height[c], b <= height[c], label # "handle" => T = {},
         Ahead(c, k, T),
         refused' \in [Chains -> SUBSET (Nat \ {0})],
         skipped' \in [Chains -> SUBSET (Nat \ {0})], faults' \in 0 .. MaxFaults
  PROVE  Inv'
  <1>1. TypeOK'
    BY Zenon DEF Inv, TypeOK, BridgeTypeOK, bridgeVars
  <1>2. LogOK'
    BY Zenon DEF Inv, LogOK, bridgeVars
  <1>3. \A d \in Chains : /\ pc'[d] = IF d = c THEN label ELSE pc[d]
                          /\ cursor'[d] = IF d = c THEN k ELSE cursor[d]
                          /\ bound'[d] = IF d = c THEN b ELSE bound[d]
                          /\ todo'[d] = IF d = c THEN T ELSE todo[d]
    BY Zenon DEF Inv, TypeOK
  <1>4. sent' = sent /\ relayed' = relayed /\ height' = height
    BY Zenon DEF bridgeVars
  <1>5. TaskOK'
    <2> SUFFICES ASSUME NEW d \in Chains
        PROVE  /\ cursor'[d] <= height'[d] /\ bound'[d] <= height'[d]
               /\ pc'[d] # "handle" => todo'[d] = {}
               /\ \A n \in todo'[d] : n \in DOMAIN sent'[d] /\ sent'[d][n].block = cursor'[d]
               /\ \A n \in relayed'[Other(d)] :
                     n \in DOMAIN sent'[d] /\ sent'[d][n].block <= cursor'[d]
      BY Zenon DEF TaskOK
    <2>1. /\ cursor[d] <= height[d] /\ bound[d] <= height[d]
          /\ pc[d] # "handle" => todo[d] = {}
          /\ \A n \in todo[d] : n \in DOMAIN sent[d] /\ sent[d][n].block = cursor[d]
          /\ \A n \in relayed[Other(d)] : n \in DOMAIN sent[d] /\ sent[d][n].block <= cursor[d]
      BY Zenon DEF Inv, TaskOK
    <2>2. CASE d # c
      BY ZenonT(30), <1>3, <1>4, <2>1, <2>2
    <2>3. CASE d = c
      <3>1. \A n \in DOMAIN sent[c] : sent[c][n].block \in Nat
        BY Zenon, SentType
      <3>2. cursor[c] \in Nat
        BY Zenon DEF Inv, TypeOK
      <3>3. \A n \in relayed[Other(c)] : sent[c][n].block <= k
        BY <2>1, <2>3, <3>1, <3>2
      <3>4. cursor'[c] = k /\ bound'[c] = b /\ pc'[c] = label /\ todo'[c] = T
        BY Zenon, <1>3
      <3> QED BY Zenon, <1>4, <2>1, <2>3, <3>3, <3>4 DEF Ahead
    <2> QED BY Zenon, <2>2, <2>3
  <1>6. InOrder'
    BY ZenonT(30), <1>3, <1>4 DEF Inv, InOrder, Ahead
  <1> QED BY Zenon, <1>1, <1>2, <1>5, <1>6 DEF Inv

(* The messages of some blocks are numbered by positive numbers. *)
LEMMA MessagesInType ==
  ASSUME Inv, NEW c \in Chains, NEW bs
  PROVE  MessagesIn(c, bs) \in SUBSET (Nat \ {0})
  BY DEF Inv, TypeOK, BridgeTypeOK, MessagesIn

(* The types of the ghost sets after a step of task c. *)
LEMMA GhostType ==
  ASSUME Inv, NEW c \in Chains, NEW S \in SUBSET (Nat \ {0})
  PROVE  /\ [refused EXCEPT ![c] = @ \cup S] \in [Chains -> SUBSET (Nat \ {0})]
         /\ [skipped EXCEPT ![c] = @ \cup S] \in [Chains -> SUBSET (Nat \ {0})]
         /\ refused \in [Chains -> SUBSET (Nat \ {0})]
         /\ skipped \in [Chains -> SUBSET (Nat \ {0})] /\ faults \in 0 .. MaxFaults
         /\ NewFault => faults' \in 0 .. MaxFaults
  <1>1. NewFault => faults' \in 0 .. MaxFaults
    BY RelayerAssumption DEF Inv, TypeOK, NewFault
  <1> QED BY Zenon, <1>1 DEF Inv, TypeOK

(* Where task c is before its step. *)
LEMMA TaskHere ==
  ASSUME Inv, NEW c \in Chains
  PROVE  /\ pc[c] \in Labels /\ cursor[c] \in Nat /\ bound[c] \in Nat /\ height[c] \in Nat
         /\ todo[c] \in SUBSET (Nat \ {0}) /\ cursor[c] <= height[c] /\ bound[c] <= height[c]
         /\ pc[c] # "handle" => todo[c] = {}
         /\ pc = [pc EXCEPT ![c] = pc[c]] /\ cursor = [cursor EXCEPT ![c] = cursor[c]]
         /\ bound = [bound EXCEPT ![c] = bound[c]] /\ todo = [todo EXCEPT ![c] = todo[c]]
  BY Zenon DEF Inv, TypeOK, BridgeTypeOK, TaskOK

(* A step outside the handling of messages that takes up none. *)
LEMMA TaskWalks ==
  ASSUME Inv, UNCHANGED bridgeVars, NEW c \in Chains, NEW label \in {"init", "poll", "scan"},
         NEW k \in Nat, NEW b \in Nat, todo' = todo, pc[c] # "handle",
         pc' = [pc EXCEPT ![c] = label], cursor' = [cursor EXCEPT ![c] = k],
         bound' = [bound EXCEPT ![c] = b],
         cursor[c] <= k, k <= height[c], b <= height[c],
         refused' \in [Chains -> SUBSET (Nat \ {0})],
         skipped' \in [Chains -> SUBSET (Nat \ {0})], faults' \in 0 .. MaxFaults
  PROVE  Inv'
  <1> DEFINE T == {}
  <1>1. /\ label \in Labels /\ T \in SUBSET (Nat \ {0})
        /\ label # "handle" => T = {}
        /\ todo' = [todo EXCEPT ![c] = T]
    BY Zenon, TaskHere DEF Labels
  <1>2. Ahead(c, k, T)
    BY Zenon DEF Ahead
  <1> HIDE DEF T
  <1> QED BY Zenon, <1>1, <1>2, TaskMoves

(* _init *)
LEMMA StartInv ==
  ASSUME Inv, NEW c \in Chains, Start(c)
  PROVE  Inv'
  <1>1. skipped' \in [Chains -> SUBSET (Nat \ {0})]
    BY Zenon, MessagesInType, GhostType DEF Start
  <1>2. UNCHANGED <<bridgeVars, bound, todo, refused, faults>> /\ pc[c] = "init"
    BY Zenon DEF Start
  <1>3. cursor' = [cursor EXCEPT ![c] = height[c]] /\ pc' = [pc EXCEPT ![c] = "poll"]
    BY Zenon DEF Start, Goto
  <1>4. bound' = [bound EXCEPT ![c] = bound[c]] /\ height[c] <= height[c]
    BY <1>2, TaskHere
  <1>5. refused' \in [Chains -> SUBSET (Nat \ {0})] /\ faults' \in 0 .. MaxFaults
    BY Zenon, <1>2, GhostType
  <1> QED BY Zenon, <1>1, <1>2, <1>3, <1>4, <1>5, TaskHere, TaskWalks

(* The bound of a round; the cursor is never ahead of the chain. *)
LEMMA PollInv ==
  ASSUME Inv, NEW c \in Chains, Poll(c)
  PROVE  Inv'
  <1>1. /\ UNCHANGED <<bridgeVars, todo, refused, skipped, faults>> /\ pc[c] = "poll"
        /\ bound' = [bound EXCEPT ![c] = height[c]] /\ pc' = [pc EXCEPT ![c] = "scan"]
    BY Zenon DEF Poll, Goto
  <1>2. cursor' = [cursor EXCEPT ![c] = cursor[c]]
    <2>1. ~(cursor[c] > height[c])
      BY TaskHere
    <2> QED BY Zenon, <2>1 DEF Poll
  <1>3. height[c] <= height[c] /\ cursor[c] <= cursor[c]
    BY TaskHere
  <1>4. /\ refused' \in [Chains -> SUBSET (Nat \ {0})]
        /\ skipped' \in [Chains -> SUBSET (Nat \ {0})] /\ faults' \in 0 .. MaxFaults
    BY Zenon, <1>1, GhostType
  <1> QED BY Zenon, <1>1, <1>2, <1>3, <1>4, TaskHere, TaskWalks

(* The messages of the next block come after all that were relayed. *)
LEMMA NextBlock ==
  ASSUME Inv, NEW c \in Chains, NEW n \in MessagesIn(c, {cursor[c] + 1})
  PROVE  /\ n \in DOMAIN sent[c] /\ sent[c][n].block = cursor[c] + 1
         /\ \A m \in relayed[Other(c)] : m < n
  <1>1. n \in DOMAIN sent[c] /\ sent[c][n].block = cursor[c] + 1
    BY Zenon DEF MessagesIn
  <1>2. ASSUME NEW m \in relayed[Other(c)] PROVE m < n
    <2>1. m \in DOMAIN sent[c] /\ sent[c][m].block <= cursor[c]
      BY Zenon, <1>2 DEF Inv, TaskOK
    <2>2. sent[c][m].block \in Nat /\ m \in Nat /\ n \in Nat
      BY Zenon, <1>1, <2>1, SentType
    <2>3. n < m => sent[c][n].block <= sent[c][m].block
      BY Zenon, <1>1, <2>1 DEF Inv, LogOK
    <2>4. n = m => FALSE
      BY <1>1, <2>1, <2>2, TaskHere
    <2> QED BY <1>1, <2>1, <2>2, <2>3, <2>4, TaskHere
  <1> QED BY Zenon, <1>1, <1>2

(* One block is scanned, or the round ends. *)
LEMMA ScanInv ==
  ASSUME Inv, NEW c \in Chains, Scan(c) \/ EndRound(c)
  PROVE  Inv'
  <1> DEFINE i == cursor[c] + 1
             ms == MessagesIn(c, {i})
             found == \A n \in ms : sent[c][n].direct
  <1>0. /\ {"scan", "poll", "handle"} \subseteq Labels /\ pc[c] = "scan"
        /\ todo[c] = {} /\ i \in Nat /\ ms \in SUBSET (Nat \ {0})
    BY TaskHere, MessagesInType DEF Labels, Scan, EndRound
  <1>1. CASE EndRound(c)
    <2>1. /\ UNCHANGED <<bridgeVars, cursor, bound, todo, refused, skipped, faults>>
          /\ pc' = [pc EXCEPT ![c] = "poll"]
      BY Zenon, <1>1 DEF EndRound, Goto
    <2>2. /\ bound' = [bound EXCEPT ![c] = bound[c]]
          /\ cursor' = [cursor EXCEPT ![c] = cursor[c]] /\ cursor[c] <= cursor[c]
      BY <1>0, <2>1, TaskHere
    <2>3. /\ refused' \in [Chains -> SUBSET (Nat \ {0})]
          /\ skipped' \in [Chains -> SUBSET (Nat \ {0})] /\ faults' \in 0 .. MaxFaults
      BY Zenon, <2>1, GhostType
    <2> QED BY Zenon, <1>0, <2>1, <2>2, <2>3, TaskHere, TaskWalks
  <1>2. CASE Scan(c)
    <2>1. /\ UNCHANGED <<bridgeVars, bound, refused, faults>> /\ cursor[c] < bound[c]
          /\ cursor' = [cursor EXCEPT ![c] = i]
          /\ pc' = [pc EXCEPT ![c] = IF found /\ ms # {} THEN "handle" ELSE "scan"]
          /\ IF found THEN todo' = [todo EXCEPT ![c] = ms] /\ UNCHANGED skipped
             ELSE skipped' = [skipped EXCEPT ![c] = @ \cup ms] /\ UNCHANGED todo
      BY Zenon, <1>2 DEF Scan, Goto
    <2>2. Ahead(c, i, ms)
      BY Zenon, NextBlock DEF Ahead
    <2>3. i <= height[c] /\ cursor[c] <= i /\ bound' = [bound EXCEPT ![c] = bound[c]]
      BY <2>1, TaskHere
    <2> DEFINE label == IF found /\ ms # {} THEN "handle" ELSE "scan"
               T == IF found THEN ms ELSE {}
    <2>4. /\ label \in Labels /\ T \in SUBSET (Nat \ {0})
          /\ label # "handle" => T = {}
          /\ todo' = [todo EXCEPT ![c] = T]
      BY Zenon, <1>0, <2>1, TaskHere
    <2>5. Ahead(c, i, T)
      BY Zenon, <2>2 DEF Ahead
    <2>6. pc' = [pc EXCEPT ![c] = label]
      BY Zenon, <2>1
    <2> HIDE DEF ms, found, label, T
    <2>7. skipped' \in [Chains -> SUBSET (Nat \ {0})]
      <3>1. skipped' = skipped \/ skipped' = [skipped EXCEPT ![c] = @ \cup ms]
        BY Zenon, <2>1
      <3>2. skipped \in [Chains -> SUBSET (Nat \ {0})]
        BY Zenon, GhostType
      <3>3. [skipped EXCEPT ![c] = @ \cup ms] \in [Chains -> SUBSET (Nat \ {0})]
        BY Zenon, <1>0, <3>2
      <3> QED BY Zenon, <3>1, <3>2, <3>3
    <2>8. refused' \in [Chains -> SUBSET (Nat \ {0})] /\ faults' \in 0 .. MaxFaults
      BY Zenon, <2>1, GhostType
    <2> QED BY Zenon, <1>0, <2>1, <2>3, <2>4, <2>5, <2>6, <2>7, <2>8, TaskHere, TaskMoves
  <1> QED BY Zenon, <1>1, <1>2

-----------------------------------------------------------------------------
(* Handling a message whose relay is not accepted, or fails. *)
LEMMA DropInv ==
  ASSUME Inv, NEW c \in Chains, pc[c] = "handle", NEW n \in todo[c], Done(c, n),
         UNCHANGED <<bridgeVars, cursor, bound>>,
         refused' \in [Chains -> SUBSET (Nat \ {0})],
         skipped' \in [Chains -> SUBSET (Nat \ {0})], faults' \in 0 .. MaxFaults
  PROVE  Inv'
  <1> DEFINE T == todo[c] \ {n}
             label == IF todo[c] = {n} THEN "scan" ELSE "handle"
  <1>1. /\ label \in Labels /\ T \in SUBSET (Nat \ {0})
        /\ label # "handle" => T = {}
    BY Zenon, TaskHere DEF Labels
  <1>2. todo' = [todo EXCEPT ![c] = T] /\ pc' = [pc EXCEPT ![c] = label]
    BY Zenon DEF Done, Goto
  <1>3. Ahead(c, cursor[c], T)
    BY Zenon DEF Ahead, Inv, TaskOK, InOrder
  <1>4. /\ cursor' = [cursor EXCEPT ![c] = cursor[c]] /\ cursor[c] <= cursor[c]
        /\ bound' = [bound EXCEPT ![c] = bound[c]]
    BY TaskHere
  <1> HIDE DEF T, label
  <1> QED BY Zenon, <1>1, <1>2, <1>3, <1>4, TaskHere, TaskMoves

(* What relayMessage on chain d does with number n, message m, over all     *)
(* kinds of message.                                                        *)
Relays(d, n, m) ==
    /\ relayed' = [relayed EXCEPT ![d] = @ \cup {n}]
    /\ height' = [height EXCEPT ![d] = @ + 1] /\ registered' = registered /\ sent' = sent
    /\ local' = IF m.kind = "ERC20Register" THEN [local EXCEPT ![d] = @ \cup {m.asset}] ELSE local
    /\ balance' = IF m.kind = "ERC20Register" THEN balance
                  ELSE [balance EXCEPT ![d][m.asset][m.to] = @ + m.amount]
    /\ held' = IF m.kind = "ethIn" \/ (m.kind = "ERC20In" /\ m.asset \notin local[d])
               THEN [held EXCEPT ![d][m.asset] = @ - m.amount] ELSE held

(* It follows from the three contract functions that it may call. *)
LEMMA RelayEffect ==
  ASSUME Inv, NEW c \in Chains, NEW n \in DOMAIN sent[c], NEW d, d = Other(c),
         NEW m, m = sent[c][n], RelayMessage(d, n)
  PROVE  Relays(d, n, m)
  <1>1. m = sent[Other(d)][n] /\ (m.kind = "ethIn" => m.asset = Eth)
    BY Zenon, OtherChain, SentType DEF Sound
  <1>2. /\ relayed' = [relayed EXCEPT ![d] = @ \cup {n}]
        /\ height' = [height EXCEPT ![d] = @ + 1] /\ registered' = registered /\ sent' = sent
    BY Zenon DEF RelayMessage
  <1>3. \/ m.kind = "ERC20Register" /\ ERC20Register(d, m)
        \/ m.kind = "ERC20In" /\ ERC20In(d, m)
        \/ m.kind = "ethIn" /\ EthIn(d, m)
    BY Zenon, <1>1 DEF RelayMessage
  <1>4. "ERC20Register" # "ERC20In" /\ "ERC20Register" # "ethIn" /\ "ERC20In" # "ethIn"
    BY Zenon
  <1>5. CASE m.kind = "ERC20Register" /\ ERC20Register(d, m)
    BY Zenon, <1>2, <1>4, <1>5 DEF ERC20Register, Relays
  <1>6. CASE m.kind = "ERC20In" /\ ERC20In(d, m)
    BY Zenon, <1>2, <1>4, <1>6 DEF ERC20In, Relays
  <1>7. CASE m.kind = "ethIn" /\ EthIn(d, m)
    BY Zenon, <1>1, <1>2, <1>4, <1>7 DEF EthIn, Relays
  <1> QED BY Zenon, <1>3, <1>5, <1>6, <1>7

(* relayMessage: types, and what the contracts' variables become. *)
LEMMA RelayType ==
  ASSUME Inv, NEW c \in Chains, NEW n \in DOMAIN sent[c], RelayAccepted(Other(c), n),
         RelayMessage(Other(c), n)
  PROVE  /\ BridgeTypeOK' /\ sent' = sent
         /\ relayed' = [relayed EXCEPT ![Other(c)] = @ \cup {n}]
         /\ height' = [height EXCEPT ![Other(c)] = @ + 1]
  <1> DEFINE d == Other(c)
             m == sent[c][n]
  <1>1. d \in Chains /\ Other(d) = c
    BY Zenon, OtherChain
  <1>2. /\ n \in Nat \ {0} /\ m.asset \in Assets /\ m.to \in Users /\ m.amount \in Nat
        /\ Sound(m) /\ m \in Messages
    BY Zenon, SentType
  <1>3. m = sent[Other(d)][n]
    BY Zenon, <1>1
  <1> HIDE DEF d, m
  <1>4. Relays(d, n, m)
    <2>1. PICK e, k : e = Other(c) /\ k = sent[c][n]
      BY Zenon
    <2>2. Relays(e, n, k)
      BY Zenon, <2>1, RelayEffect
    <2> QED BY Zenon, <2>1, <2>2 DEF d, m
  <1>5. balance' \in [Chains -> [Assets -> [Users -> Nat]]]
    <2>1. \/ balance' = balance
          \/ balance' = [balance EXCEPT ![d][m.asset][m.to] = @ + m.amount]
      BY Zenon, <1>4 DEF Relays
    <2>2. balance \in [Chains -> [Assets -> [Users -> Nat]]]
      BY Zenon DEF Inv, TypeOK, BridgeTypeOK
    <2>3. [balance EXCEPT ![d][m.asset][m.to] = @ + m.amount]
            \in [Chains -> [Assets -> [Users -> Nat]]]
      BY Zenon, <1>1, <1>2, Paid
    <2> QED BY Zenon, <2>1, <2>2, <2>3
  <1>6. held' \in [Chains -> [Assets -> Nat]]
    <2>1. CASE held' = held
      BY Zenon, <2>1 DEF Inv, TypeOK, BridgeTypeOK
    <2>2. CASE held' # held
      <3>1. /\ held' = [held EXCEPT ![d][m.asset] = @ - m.amount]
            /\ m.kind = "ethIn" \/ (m.kind = "ERC20In" /\ m.asset \notin local[d])
        BY Zenon, <1>4, <2>2 DEF Relays
      <3>2. held[d][m.asset] >= m.amount
        BY Zenon, <1>2, <1>3, <3>1 DEF RelayAccepted, Sound, d
      <3> QED BY Zenon, <1>1, <1>2, <3>1, <3>2, Paid
    <2> QED BY Zenon, <2>1, <2>2
  <1>7. local' \in [Chains -> SUBSET Tokens]
    <2>1. m.kind = "ERC20Register" => m.asset \in Tokens
      BY Zenon, <1>2 DEF Sound, Assets
    <2> QED BY Zenon, <1>1, <1>4, <2>1 DEF Relays, Inv, TypeOK, BridgeTypeOK
  <1>8. relayed' \in [Chains -> SUBSET (Nat \ {0})]
    BY Zenon, <1>1, <1>2, <1>4 DEF Relays, Inv, TypeOK, BridgeTypeOK
  <1>9. height' \in [Chains -> Nat]
    <2>1. height \in [Chains -> Nat] /\ height[d] + 1 \in Nat
      BY SMTT(30), <1>1 DEF Inv, TypeOK, BridgeTypeOK
    <2> QED BY Zenon, <1>1, <1>4, <2>1 DEF Relays
  <1>10. BridgeTypeOK'
    BY Zenon, <1>4, <1>5, <1>6, <1>7, <1>8, <1>9 DEF Relays, BridgeTypeOK, Inv, TypeOK
  <1> QED BY Zenon, <1>4, <1>10 DEF d, Relays

(* Handling a message whose relay is accepted: it is the first of those to  *)
(* be handled, so what remains comes after it.                              *)
LEMMA RelayInv ==
  ASSUME Inv, NEW c \in Chains, pc[c] = "handle", NEW n \in todo[c], Done(c, n),
         RelayAccepted(Other(c), n), RelayMessage(Other(c), n),
         UNCHANGED <<cursor, bound, refused, skipped, faults>>
  PROVE  Inv'
  <1> DEFINE label == IF todo[c] = {n} THEN "scan" ELSE "handle"
  <1>1. n \in DOMAIN sent[c] /\ sent[c][n].block = cursor[c]
    BY Zenon DEF Inv, TaskOK
  <1>2. /\ BridgeTypeOK' /\ sent' = sent
        /\ relayed' = [relayed EXCEPT ![Other(c)] = @ \cup {n}]
        /\ height' = [height EXCEPT ![Other(c)] = @ + 1]
    BY Zenon, <1>1, RelayType
  <1>3. /\ todo' = [todo EXCEPT ![c] = todo[c] \ {n}] /\ pc' = [pc EXCEPT ![c] = label]
        /\ \A m \in todo[c] : n <= m
    BY Zenon DEF Done, Goto
  <1>4. TypeOK'
    BY Zenon, <1>2, <1>3 DEF TypeOK, Inv, Labels
  <1>5. \A e \in Chains : height[e] \in Nat /\ height'[e] \in Nat /\ height[e] <= height'[e]
    <2>1. \A e \in Chains : height[e] \in Nat /\ height[e] <= height[e] + 1
      BY SMTT(30) DEF Inv, TypeOK, BridgeTypeOK
    <2>2. \A e \in Chains : height'[e] = IF e = Other(c) THEN height[e] + 1 ELSE height[e]
      BY <1>2, OtherChain DEF Inv, TypeOK, BridgeTypeOK
    <2> QED BY <2>1, <2>2
  <1>6. LogOK'
    <2> SUFFICES ASSUME NEW e \in Chains
        PROVE  /\ \A k \in DOMAIN sent[e] : Sound(sent[e][k]) /\ sent[e][k].block <= height'[e]
               /\ \A i, k \in DOMAIN sent[e] : i < k => sent[e][i].block <= sent[e][k].block
      BY Zenon, <1>2 DEF LogOK, Sound
    <2>1. \A k \in DOMAIN sent[e] : sent[e][k].block \in Nat /\ sent[e][k].block <= height[e]
      BY Zenon, SentType
    <2>2. \A k \in DOMAIN sent[e] : sent[e][k].block <= height'[e]
      BY <1>5, <2>1
    <2> QED BY Zenon, <2>2 DEF Inv, LogOK
  <1>7. \A e \in Chains : /\ relayed'[Other(e)] = IF e = c THEN relayed[Other(e)] \cup {n}
                                                   ELSE relayed[Other(e)]
                          /\ todo'[e] = IF e = c THEN todo[e] \ {n} ELSE todo[e]
                          /\ pc'[e] = IF e = c THEN label ELSE pc[e]
    <2>1. relayed \in [Chains -> SUBSET (Nat \ {0})] /\ DOMAIN todo = Chains /\ DOMAIN pc = Chains
      BY Zenon DEF Inv, TypeOK, BridgeTypeOK
    <2> SUFFICES ASSUME NEW e \in Chains
        PROVE  /\ relayed'[Other(e)] = IF e = c THEN relayed[Other(e)] \cup {n} ELSE relayed[Other(e)]
               /\ todo'[e] = IF e = c THEN todo[e] \ {n} ELSE todo[e]
               /\ pc'[e] = IF e = c THEN label ELSE pc[e]
      BY Zenon
    <2>2. Other(e) \in Chains /\ (e # c => Other(e) # Other(c))
      BY Zenon, OtherChain
    <2> HIDE DEF label
    <2> QED BY Zenon, <1>2, <1>3, <2>1, <2>2
  <1>8. TaskOK'
    <2> SUFFICES ASSUME NEW e \in Chains
        PROVE  /\ cursor[e] <= height'[e] /\ bound[e] <= height'[e]
               /\ pc'[e] # "handle" => todo'[e] = {}
               /\ \A k \in todo'[e] : k \in DOMAIN sent[e] /\ sent[e][k].block = cursor[e]
               /\ \A k \in relayed'[Other(e)] :
                     k \in DOMAIN sent[e] /\ sent[e][k].block <= cursor[e]
      BY ZenonT(30), <1>2 DEF TaskOK
    <2>1. /\ cursor[e] <= height[e] /\ bound[e] <= height[e]
          /\ pc[e] # "handle" => todo[e] = {}
          /\ \A k \in todo[e] : k \in DOMAIN sent[e] /\ sent[e][k].block = cursor[e]
          /\ \A k \in relayed[Other(e)] : k \in DOMAIN sent[e] /\ sent[e][k].block <= cursor[e]
      BY Zenon DEF Inv, TaskOK
    <2>2. cursor[e] \in Nat /\ bound[e] \in Nat /\ cursor[c] <= cursor[c]
      BY SMTT(30), TaskHere
    <2>3. cursor[e] <= height'[e] /\ bound[e] <= height'[e]
      BY <1>5, <2>1, <2>2
    <2>4. pc'[e] # "handle" => todo'[e] = {}
      BY Zenon, <1>7, <2>1
    <2>5. /\ \A k \in todo'[e] : k \in todo[e]
          /\ \A k \in relayed'[Other(e)] : k \in relayed[Other(e)] \/ (k = n /\ e = c)
      BY Zenon, <1>7
    <2> QED BY Zenon, <1>1, <2>1, <2>2, <2>3, <2>4, <2>5
  <1>9. InOrder'
    <2> SUFFICES ASSUME NEW e \in Chains, NEW k \in todo'[e], NEW i \in relayed'[Other(e)]
                 PROVE  i < k
      BY Zenon DEF InOrder
    <2>1. k \in todo[e] /\ (e = c => k # n)
      BY Zenon, <1>7
    <2>2. CASE i \in relayed[Other(e)]
      BY Zenon, <2>1, <2>2 DEF Inv, InOrder
    <2>3. CASE i \notin relayed[Other(e)]
      <3>1. e = c /\ i = n
        BY Zenon, <1>7, <2>3
      <3>2. k \in Nat /\ n \in Nat
        BY Zenon, <2>1, <3>1, TaskHere
      <3> QED BY SMTT(30), <1>3, <2>1, <3>1, <3>2
    <2> QED BY Zenon, <2>2, <2>3
  <1> QED BY Zenon, <1>4, <1>6, <1>8, <1>9 DEF Inv

(* event_log_handler, in its three outcomes. *)
LEMMA HandleInv ==
  ASSUME Inv, NEW c \in Chains, Handle(c) \/ HandleFails(c)
  PROVE  Inv'
  <1>1. CASE Handle(c)
    <2>1. PICK n \in todo[c] :
            /\ Done(c, n)
            /\ IF RelayAccepted(Other(c), n)
               THEN RelayMessage(Other(c), n) /\ UNCHANGED refused
               ELSE /\ refused' = [refused EXCEPT ![c] = @ \cup {n}]
                    /\ UNCHANGED bridgeVars
      BY Zenon, <1>1 DEF Handle
    <2>2. UNCHANGED <<cursor, bound, skipped, faults>> /\ pc[c] = "handle" /\ n \in Nat \ {0}
      BY Zenon, <1>1, TaskHere DEF Handle
    <2>3. CASE RelayAccepted(Other(c), n)
      BY Zenon, <2>1, <2>2, <2>3, RelayInv
    <2>4. CASE ~RelayAccepted(Other(c), n)
      <3>1. refused' \in [Chains -> SUBSET (Nat \ {0})]
        <4>1. refused' = [refused EXCEPT ![c] = @ \cup {n}] /\ {n} \in SUBSET (Nat \ {0})
          BY Zenon, <2>1, <2>2, <2>4
        <4> QED BY Zenon, <4>1, GhostType
      <3>2. skipped' \in [Chains -> SUBSET (Nat \ {0})] /\ faults' \in 0 .. MaxFaults
        BY ZenonT(30), <2>2, GhostType
      <3> QED BY Zenon, <2>1, <2>2, <2>4, <3>1, <3>2, DropInv
    <2> QED BY Zenon, <2>3, <2>4
  <1>2. CASE HandleFails(c)
    <2>1. PICK n \in todo[c] : Done(c, n) /\ skipped' = [skipped EXCEPT ![c] = @ \cup {n}]
      BY Zenon, <1>2 DEF HandleFails
    <2>2. /\ UNCHANGED <<bridgeVars, cursor, bound, refused>> /\ pc[c] = "handle" /\ n \in Nat \ {0}
          /\ NewFault
      BY Zenon, <1>2, TaskHere DEF HandleFails
    <2>3. /\ refused' \in [Chains -> SUBSET (Nat \ {0})]
          /\ skipped' \in [Chains -> SUBSET (Nat \ {0})] /\ faults' \in 0 .. MaxFaults
      BY ZenonT(30), <2>1, <2>2, GhostType
    <2> QED BY Zenon, <2>1, <2>2, <2>3, DropInv
  <1> QED BY <1>1, <1>2

(* Task c keeps its messages and its place, or has none left and has moved  *)
(* no further than its chain.                                               *)
Halts(c) ==
    \/ todo'[c] = todo[c] /\ cursor'[c] = cursor[c] /\ (pc'[c] # "handle" => todo[c] = {})
    \/ todo'[c] = {} /\ cursor[c] <= cursor'[c] /\ cursor'[c] <= height[c]

(* Steps in which tasks stop or abandon what they do. *)
LEMMA StopInv ==
  ASSUME Inv, UNCHANGED <<bridgeVars, bound, refused>>,
         pc' \in [Chains -> Labels], cursor' \in [Chains -> Nat],
         todo' \in [Chains -> SUBSET (Nat \ {0})],
         skipped' \in [Chains -> SUBSET (Nat \ {0})], faults' \in 0 .. MaxFaults,
         \A c \in Chains : Halts(c)
  PROVE  Inv'
  <1>1. TypeOK'
    BY Zenon DEF Inv, TypeOK, BridgeTypeOK, bridgeVars
  <1>2. LogOK'
    BY Zenon DEF Inv, LogOK, bridgeVars
  <1>3. sent' = sent /\ relayed' = relayed /\ height' = height /\ bound' = bound
    BY Zenon DEF bridgeVars
  <1>4. TaskOK'
    <2> SUFFICES ASSUME NEW c \in Chains
        PROVE  /\ cursor'[c] <= height[c] /\ bound[c] <= height[c]
               /\ pc'[c] # "handle" => todo'[c] = {}
               /\ \A n \in todo'[c] : n \in DOMAIN sent[c] /\ sent[c][n].block = cursor'[c]
               /\ \A n \in relayed[Other(c)] :
                     n \in DOMAIN sent[c] /\ sent[c][n].block <= cursor'[c]
      BY Zenon, <1>3 DEF TaskOK
    <2>1. /\ cursor[c] <= height[c] /\ bound[c] <= height[c]
          /\ \A n \in todo[c] : n \in DOMAIN sent[c] /\ sent[c][n].block = cursor[c]
          /\ \A n \in relayed[Other(c)] : n \in DOMAIN sent[c] /\ sent[c][n].block <= cursor[c]
      BY ZenonT(30) DEF Inv, TaskOK
    <2>2. \A n \in DOMAIN sent[c] : sent[c][n].block \in Nat
      BY Zenon, SentType
    <2>3. cursor[c] \in Nat /\ cursor'[c] \in Nat
      BY Zenon, TaskHere
    <2>4. CASE todo'[c] = todo[c] /\ cursor'[c] = cursor[c] /\ (pc'[c] # "handle" => todo[c] = {})
      BY Zenon, <2>1, <2>4
    <2>5. CASE todo'[c] = {} /\ cursor[c] <= cursor'[c] /\ cursor'[c] <= height[c]
      BY SMTT(30), <2>1, <2>2, <2>3, <2>5
    <2> QED BY Zenon, <2>4, <2>5 DEF Halts
  <1>5. InOrder'
    BY Zenon, <1>3 DEF Inv, InOrder, Halts
  <1> QED BY Zenon, <1>1, <1>2, <1>4, <1>5 DEF Inv

(* What Abandon leaves of the state of a task. *)
LEMMA AbandonHalts ==
  ASSUME Inv, NEW c \in Chains, Abandon(c)
  PROVE  /\ cursor' \in [Chains -> Nat] /\ todo' \in [Chains -> SUBSET (Nat \ {0})]
         /\ skipped' \in [Chains -> SUBSET (Nat \ {0})]
         /\ todo'[c] = {} /\ cursor[c] <= cursor'[c] /\ cursor'[c] <= height[c]
         /\ \A d \in Chains : d # c => todo'[d] = todo[d] /\ cursor'[d] = cursor[d]
  <1> DEFINE next == IF pc[c] = "scan" /\ cursor[c] < bound[c] THEN cursor[c] + 1 ELSE cursor[c]
             lost == todo[c] \cup MessagesIn(c, cursor[c] + 1 .. next)
  <1>1. next \in Nat /\ cursor[c] <= next /\ next <= height[c]
    BY TaskHere
  <1>2. lost \in SUBSET (Nat \ {0})
    BY Zenon, TaskHere, MessagesInType
  <1>3. /\ cursor' = [cursor EXCEPT ![c] = next] /\ todo' = [todo EXCEPT ![c] = {}]
        /\ skipped' = [skipped EXCEPT ![c] = @ \cup lost]
    BY Zenon DEF Abandon
  <1>4. skipped' \in [Chains -> SUBSET (Nat \ {0})]
    <2> HIDE DEF lost
    <2> QED BY Zenon, <1>2, <1>3, GhostType
  <1> HIDE DEF next, lost
  <1> QED BY Zenon, <1>1, <1>3, <1>4 DEF Inv, TypeOK

(* A block whose scan fails. *)
LEMMA ScanFailsInv ==
  ASSUME Inv, NEW c \in Chains, ScanFails(c)
  PROVE  Inv'
  <1>1. UNCHANGED <<bridgeVars, bound, refused>> /\ NewFault /\ Abandon(c)
    BY Zenon DEF ScanFails
  <1>2. pc' \in [Chains -> Labels] /\ \A d \in Chains : d # c => pc'[d] = pc[d]
    BY Zenon DEF ScanFails, Goto, Inv, TypeOK, Labels
  <1>3. faults' \in 0 .. MaxFaults
    BY Zenon, <1>1, GhostType
  <1>4. \A d \in Chains : Halts(d)
    BY ZenonT(30), <1>1, <1>2, AbandonHalts, TaskHere DEF Halts
  <1> QED BY Zenon, <1>1, <1>2, <1>3, <1>4, AbandonHalts, StopInv

(* _init raises; the other task goes on, ends, or abandons its block. *)
LEMMA InitFailsInv ==
  ASSUME Inv, NEW c \in Chains, InitFails(c)
  PROVE  Inv'
  <1>1. UNCHANGED <<bridgeVars, bound, refused>> /\ NewFault /\ todo[c] = {}
    BY Zenon, TaskHere DEF InitFails
  <1>2. faults' \in 0 .. MaxFaults
    BY Zenon, <1>1, GhostType
  <1>3. pc' \in [Chains -> Labels]
    BY Zenon DEF InitFails, Goto, Inv, TypeOK, Labels
  <1>4. CASE UNCHANGED <<cursor, todo, skipped>> /\ pc' = [pc EXCEPT ![c] = "dead"]
    <2>1. \A d \in Chains : d # c => pc'[d] = pc[d]
      BY Zenon, <1>4 DEF Inv, TypeOK
    <2>2. \A d \in Chains : Halts(d)
      BY Zenon, <1>1, <1>4, <2>1, TaskHere DEF Halts
    <2> QED BY Zenon, <1>1, <1>2, <1>3, <1>4, <2>2, StopInv DEF Inv, TypeOK
  <1>5. CASE UNCHANGED <<cursor, todo, skipped>> /\ pc[Other(c)] # "handle"
    <2>1. \A d \in Chains : todo[d] = {}
      BY Zenon, <1>1, <1>5, OtherChain, TaskHere
    <2>2. \A d \in Chains : Halts(d)
      BY Zenon, <1>5, <2>1 DEF Halts
    <2> QED BY Zenon, <1>1, <1>2, <1>3, <1>5, <2>2, StopInv DEF Inv, TypeOK
  <1>6. CASE Abandon(Other(c))
    <2>1. \A d \in Chains : Halts(d)
      BY <1>1, <1>6, OtherChain, AbandonHalts DEF Halts
    <2> QED BY Zenon, <1>1, <1>2, <1>3, <1>6, <2>1, OtherChain, AbandonHalts, StopInv
  <1> QED BY Zenon, <1>4, <1>5, <1>6 DEF InitFails, Goto

(* The process dies, and is started again. *)
LEMMA CrashInv ==
  ASSUME Inv, Crash \/ Relaunch
  PROVE  Inv'
  <1>1. CASE Crash
    <2>1. UNCHANGED <<bridgeVars, bound, refused>> /\ NewFault
      BY Zenon, <1>1 DEF Crash
    <2>2. faults' \in 0 .. MaxFaults
      BY Zenon, <2>1, RelayerAssumption, GhostType
    <2>3. /\ pc' \in [Chains -> Labels] /\ cursor' \in [Chains -> Nat]
          /\ todo' \in [Chains -> SUBSET (Nat \ {0})]
          /\ skipped' \in [Chains -> SUBSET (Nat \ {0})]
      BY Zenon, <1>1 DEF Crash, Inv, TypeOK, Labels
    <2>4. \A c \in Chains : Halts(c)
      BY SMTT(30), <1>1, TaskHere DEF Crash, Halts
    <2> QED BY Zenon, <2>1, <2>2, <2>3, <2>4, StopInv
  <1>2. CASE Relaunch
    <2>1. UNCHANGED <<bridgeVars, cursor, bound, todo, refused, skipped, faults>>
      BY Zenon, <1>2 DEF Relaunch
    <2>2. pc' \in [Chains -> Labels] /\ \A c \in Chains : todo[c] = {}
      BY Zenon, <1>2, TaskHere DEF Relaunch, Labels
    <2>3. \A c \in Chains : Halts(c)
      BY Zenon, <2>1, <2>2 DEF Halts
    <2> QED BY Zenon, <2>1, <2>2, <2>3, StopInv DEF Inv, TypeOK
  <1> QED BY Zenon, <1>1, <1>2

(* Every step keeps Inv. *)
LEMMA NextInv ==
  ASSUME Inv, [Next]_vars
  PROVE  Inv'
  <1>1. CASE UNCHANGED vars
    BY Zenon, <1>1 DEF vars, bridgeVars, relayerVars, Inv, TypeOK, BridgeTypeOK, LogOK, TaskOK, InOrder
  <1>2. ASSUME NEW c \in Chains,
               \/ UserStep(c) \/ TaskStep(c) \/ ScanFails(c) \/ HandleFails(c) \/ InitFails(c)
        PROVE  Inv'
    BY Zenon, <1>2, UserStepInv, StartInv, PollInv, ScanInv, HandleInv, ScanFailsInv, InitFailsInv
       DEF TaskStep
  <1> QED BY Zenon, <1>1, <1>2, CrashInv DEF Next

(* The variables keep their types: in particular no balance, of a user or   *)
(* of a bridge, ever goes below zero.                                       *)
THEOREM TypeCorrect == Spec => []TypeOK
  <1>1. Inv => TypeOK
    BY Zenon DEF Inv
  <1> QED BY <1>1, InitInv, NextInv, PTL DEF Spec

(* Messages are relayed at most once and in the order of their nonces,      *)
(* through every restart of the relayer and every failed call.              *)
THEOREM RelayedInOrder == Spec => []InOrder
  <1>1. Inv => InOrder
    BY Zenon DEF Inv
  <1> QED BY <1>1, InitInv, NextInv, PTL DEF Spec

-----------------------------------------------------------------------------
(* The bridges and their relayer implement TransferLedger                   *)

(* What is in flight, before and after a step, one transfer at a time. *)
LEMMA InFlightDef ==
  /\ \A x : x \in InFlight <=> \E c \in Chains : x \in InFlightFrom(c)
  /\ \A x : x \in InFlight' <=> \E c \in Chains : x \in InFlightFrom(c)'
  /\ \A c, x : x \in InFlightFrom(c) <=> \E n \in Pending(c) : x = TransferOf(c, n)
  /\ \A c, x : x \in InFlightFrom(c)' <=> \E n \in Pending(c)' : x = TransferOf(c, n)'
  <1>1. \A x : x \in InFlight <=> \E c \in Chains : x \in InFlightFrom(c)
    BY Zenon DEF InFlight
  <1>2. \A x : x \in InFlight' <=> \E c \in Chains : x \in InFlightFrom(c)'
    BY Zenon DEF InFlight
  <1>3. \A c, x : x \in InFlightFrom(c) <=> \E n \in Pending(c) : x = TransferOf(c, n)
    BY Zenon DEF InFlightFrom
  <1>4. \A c, x : x \in InFlightFrom(c)' <=> \E n \in Pending(c)' : x = TransferOf(c, n)'
    BY Zenon DEF InFlightFrom
  <1> QED BY Zenon, <1>1, <1>2, <1>3, <1>4

(* A transfer determines its message. *)
LEMMA TransferUnique ==
  ASSUME NEW c, NEW n, NEW d, NEW k, TransferOf(c, n) = TransferOf(d, k)
  PROVE  c = d /\ n = k
  <1>1. /\ TransferOf(c, n).from = c /\ TransferOf(c, n).number = n
        /\ TransferOf(d, k).from = d /\ TransferOf(d, k).number = k
    BY Zenon DEF TransferOf
  <1> QED BY Zenon, <1>1

(* Nothing is in flight at first. *)
LEMMA InitLedger == Init => Ledger!Init
  <1> SUFFICES ASSUME Init PROVE Ledger!Init
    OBVIOUS
  <1> USE DEF Init, BridgeInit
  <1>1. \A c \in Chains : Pending(c) = {}
    <2>1. \A c \in Chains : sent[c] = <<>>
      BY Zenon
    <2>2. DOMAIN <<>> = {}
      OBVIOUS
    <2> QED BY Zenon, <2>1, <2>2 DEF Pending
  <1>2. InFlight = {}
    BY Zenon, <1>1, InFlightDef
  <1>3. LastSent = [c \in Chains |-> 0]
    BY Zenon DEF LastSent
  <1> QED BY Zenon, <1>2, <1>3, BridgeAssumption DEF Ledger!Init

(* A step that neither sends, relays nor pays is a stutter of the ledger. *)
LEMMA LedgerStutters ==
  ASSUME balance' = balance, sent' = sent, \A c \in Chains : Pending(c)' = Pending(c)
  PROVE  InFlight' = InFlight /\ LastSent' = LastSent
  <1>1. \A c \in Chains : \A n \in Pending(c) : TransferOf(c, n)' = TransferOf(c, n)
    BY Zenon DEF TransferOf
  <1>2. \A c \in Chains : \A x : x \in InFlightFrom(c)' <=> x \in InFlightFrom(c)
    <2> SUFFICES ASSUME NEW c \in Chains, NEW x
                 PROVE  x \in InFlightFrom(c)' <=> x \in InFlightFrom(c)
      BY Zenon
    <2>1. x \in InFlightFrom(c) <=> \E n \in Pending(c) : x = TransferOf(c, n)
      BY Zenon, InFlightDef
    <2>2. x \in InFlightFrom(c)' <=> \E n \in Pending(c)' : x = TransferOf(c, n)'
      BY Zenon, InFlightDef
    <2>3. Pending(c)' = Pending(c) /\ \A n \in Pending(c) : TransferOf(c, n)' = TransferOf(c, n)
      BY Zenon, <1>1
    <2> QED BY Zenon, <2>1, <2>2, <2>3
  <1>3. InFlight' = InFlight
    BY Zenon, <1>2, InFlightDef
  <1>4. LastSent' = LastSent
    BY Zenon DEF LastSent
  <1> QED BY Zenon, <1>3, <1>4

(* A transaction whose last message is m puts one transfer in flight. *)
LEMMA SendLedger ==
  ASSUME Inv, NEW c \in Chains, NEW ms \in Seq(Messages), SendRemoteMessages(c, ms),
         Len(ms) \in Nat \ {0}, relayed' = relayed,
         \A i \in 1 .. Len(ms) : ms[i].kind # "ERC20Register" <=> i = Len(ms)
  PROVE  LET m == ms[Len(ms)] IN
         /\ LastSent'[c] > LastSent[c] /\ LastSent' = [LastSent EXCEPT ![c] = LastSent'[c]]
         /\ InFlight' = InFlight \cup
              {[from |-> c, number |-> LastSent'[c], asset |-> m.asset, to |-> m.to,
                amount |-> m.amount]}
  <1>0. PICK k : k = Len(sent[c]) + Len(ms)
    BY Zenon
  <1> DEFINE m == ms[Len(ms)]
             x == [from |-> c, number |-> k, asset |-> m.asset, to |-> m.to, amount |-> m.amount]
  <1>1. /\ sent' = [sent EXCEPT ![c] = sent[c] \o ms] /\ sent \in [Chains -> Seq(Messages)]
        /\ sent[c] \in Seq(Messages) /\ Len(sent[c]) \in Nat /\ k \in Nat /\ k > Len(sent[c])
    BY <1>0 DEF SendRemoteMessages, Inv, TypeOK, BridgeTypeOK
  <1>2. sent'[c] = sent[c] \o ms /\ \A d \in Chains : d # c => sent'[d] = sent[d]
    BY Zenon, <1>1
  <1>3. /\ DOMAIN sent[c] = 1 .. Len(sent[c]) /\ DOMAIN sent'[c] = 1 .. k /\ Len(sent'[c]) = k
        /\ \A n \in 1 .. Len(sent[c]) : sent'[c][n] = sent[c][n]
        /\ \A n \in 1 .. k : n > Len(sent[c]) => sent'[c][n] = ms[n - Len(sent[c])]
    BY <1>0, <1>1, <1>2, Appended
  <1>4. LastSent'[c] = k /\ LastSent[c] = Len(sent[c]) /\ LastSent' = [LastSent EXCEPT ![c] = k]
    BY Zenon, <1>1, <1>2, <1>3 DEF LastSent
  <1>5. \A n \in relayed[Other(c)] : n \in DOMAIN sent[c]
    BY Zenon DEF Inv, TaskOK
  <1>6. \A d \in Chains : d # c => Pending(d)' = Pending(d)
    BY Zenon, <1>2 DEF Pending, Kind
  <1>7. Pending(c)' = Pending(c) \cup {k}
    <2>1. ASSUME NEW n \in 1 .. Len(sent[c]) PROVE n \in Pending(c)' <=> n \in Pending(c)
      BY <1>1, <1>3, <2>1 DEF Pending, Kind
    <2>2. ASSUME NEW n \in 1 .. k, n > Len(sent[c]) PROVE n \in Pending(c)' <=> n = k
      <3>a. n \in Nat /\ n <= k /\ n > Len(sent[c]) /\ Len(sent[c]) \in Nat /\ Len(ms) \in Nat
        BY SMTT(30), <1>1, <2>2
      <3>b. n - Len(sent[c]) \in 1 .. Len(ms) /\ (n - Len(sent[c]) = Len(ms) <=> n = k)
        BY ONLY SMTT(30), <3>a, <1>0
      <3>c. n \notin 1 .. Len(sent[c])
        BY ONLY SMTT(30), <3>a
      <3>1. /\ n - Len(sent[c]) \in 1 .. Len(ms) /\ (n - Len(sent[c]) = Len(ms) <=> n = k)
            /\ n \notin relayed[Other(c)]
        BY Zenon, <1>3, <1>5, <3>b, <3>c
      <3>2. sent'[c][n] = ms[n - Len(sent[c])]
        BY Zenon, <1>3, <2>2
      <3> QED BY ZenonT(30), <1>3, <3>1, <3>2 DEF Pending, Kind
    <2>3. \A n \in Pending(c)' : n \in 1 .. k
      BY Zenon, <1>3 DEF Pending
    <2>4. \A n \in Pending(c) : n \in 1 .. Len(sent[c])
      BY Zenon, <1>3 DEF Pending
    <2>5. k \in 1 .. k /\ \A n \in 1 .. k : n \in 1 .. Len(sent[c]) \/ n > Len(sent[c])
      BY <1>1
    <2>6. \A n \in 1 .. Len(sent[c]) : n \in 1 .. k /\ ~(n > Len(sent[c])) /\ n # k
      BY <1>1
    <2> QED BY ZenonT(30), <1>1, <2>1, <2>2, <2>3, <2>4, <2>5, <2>6
  <1>8. /\ \A n \in Pending(c) : TransferOf(c, n)' = TransferOf(c, n)
        /\ \A d \in Chains : d # c => \A n : TransferOf(d, n)' = TransferOf(d, n)
    BY Zenon, <1>2, <1>3 DEF TransferOf, Pending
  <1>9. TransferOf(c, k)' = x
    <2>1. k \in 1 .. k /\ k - Len(sent[c]) = Len(ms)
      BY <1>0, <1>1
    <2>2. sent'[c][k] = m
      BY ZenonT(30), <1>1, <1>3, <2>1
    <2> QED BY Zenon, <2>2 DEF TransferOf
  <1> HIDE DEF x, m
  <1>10. InFlight' = InFlight \cup {x}
    <2>1. ASSUME NEW y, y \in InFlight' PROVE y \in InFlight \cup {x}
      <3>1. PICK d \in Chains : y \in InFlightFrom(d)'
        BY Zenon, <2>1, InFlightDef
      <3>2. PICK n \in Pending(d)' : y = TransferOf(d, n)'
        BY Zenon, <3>1, InFlightDef
      <3>3. CASE d # c
        <4>1. n \in Pending(d) /\ y = TransferOf(d, n)
          BY Zenon, <1>6, <1>8, <3>2, <3>3
        <4> QED BY Zenon, <4>1, InFlightDef
      <3>4. CASE d = c
        <4>1. n \in Pending(c) \cup {k}
          BY Zenon, <1>7, <3>2, <3>4
        <4>2. n = k => y = x
          BY Zenon, <1>9, <3>2, <3>4
        <4>3. n \in Pending(c) => y = TransferOf(c, n)
          BY Zenon, <1>8, <3>2, <3>4
        <4> QED BY Zenon, <4>1, <4>2, <4>3, InFlightDef
      <3> QED BY Zenon, <3>3, <3>4
    <2>2. ASSUME NEW y, y \in InFlight PROVE y \in InFlight'
      <3>1. PICK d \in Chains : y \in InFlightFrom(d)
        BY Zenon, <2>2, InFlightDef
      <3>2. PICK n \in Pending(d) : y = TransferOf(d, n)
        BY Zenon, <3>1, InFlightDef
      <3>3. n \in Pending(d)' /\ y = TransferOf(d, n)'
        BY Zenon, <1>6, <1>7, <1>8, <3>2
      <3> QED BY Zenon, <3>3, InFlightDef
    <2>3. x \in InFlight'
      <3>1. k \in Pending(c)' /\ x = TransferOf(c, k)'
        BY Zenon, <1>7, <1>9
      <3> QED BY Zenon, <3>1, InFlightDef
    <2> QED BY Zenon, <2>1, <2>2, <2>3
  <1> QED BY Zenon, <1>1, <1>4, <1>10 DEF x, m

(* A transaction of a user is a Send. *)
LEMMA UserStepLedger ==
  ASSUME Inv, NEW c \in Chains, UserStep(c)
  PROVE  Ledger!Next
  <1> SUFFICES ASSUME NEW u \in Users \ {Zero}, NEW to \in Users, NEW a \in Amounts, NEW direct \in BOOLEAN,
                      \/ EthOut(c, u, to, a, direct)
                      \/ \E t \in Tokens : \/ ERC20OutBurn(c, u, t, to, a, direct)
                                           \/ ERC20OutLock(c, u, t, to, a, direct)
               PROVE  Ledger!Next
    BY Zenon DEF UserStep, UserSends
  <1>0. a \in Nat /\ Eth \in Assets /\ Eth \notin Tokens /\ Tokens \subseteq Assets
    BY Zenon, BridgeAssumption DEF Assets
  <1>1. ASSUME NEW x \in Assets, NEW m \in Messages, NEW r \in Messages,
               balance[c][x][u] >= a, balance' = [balance EXCEPT ![c][x][u] = @ - a],
               relayed' = relayed,
               SendRemoteMessages(c, <<m>>) \/ SendRemoteMessages(c, <<r, m>>),
               m.kind # "ERC20Register", r.kind = "ERC20Register",
               m.asset = x, m.to = to, m.amount = a
        PROVE  Ledger!Next
    <2> DEFINE entry == [from |-> c, number |-> LastSent'[c], asset |-> x, to |-> to, amount |-> a]
    <2>1. /\ LastSent'[c] > LastSent[c] /\ LastSent' = [LastSent EXCEPT ![c] = LastSent'[c]]
          /\ InFlight' = InFlight \cup {entry}
      <3>1. CASE SendRemoteMessages(c, <<m>>)
        <4> DEFINE ms == <<m>>
        <4>1. /\ ms \in Seq(Messages) /\ Len(ms) \in Nat \ {0} /\ ms[Len(ms)] = m
              /\ \A i \in 1 .. Len(ms) : ms[i].kind # "ERC20Register" <=> i = Len(ms)
          BY <1>1
        <4>2. SendRemoteMessages(c, ms)
          BY Zenon, <3>1
        <4> HIDE DEF ms
        <4> QED BY Zenon, <1>1, <4>1, <4>2, SendLedger
      <3>2. CASE SendRemoteMessages(c, <<r, m>>)
        <4> DEFINE ms == <<r, m>>
        <4>1. /\ ms \in Seq(Messages) /\ Len(ms) \in Nat \ {0} /\ ms[Len(ms)] = m
              /\ \A i \in 1 .. Len(ms) : ms[i].kind # "ERC20Register" <=> i = Len(ms)
          BY <1>1
        <4>2. SendRemoteMessages(c, ms)
          BY Zenon, <3>2
        <4> HIDE DEF ms
        <4> QED BY SMTT(30), <1>1, <4>1, <4>2, SendLedger
      <3> QED BY Zenon, <1>1, <3>1, <3>2
    <2>2. Ledger!Send(c, u, x, to, a)
      BY Zenon, <1>1, <2>1 DEF Ledger!Send
    <2> QED BY Zenon, <2>2 DEF Ledger!Next
  <1>2. CASE EthOut(c, u, to, a, direct)
    <2> DEFINE m == Message(c, "ethIn", Eth, to, a, direct)
               r == Message(c, "ERC20Register", Eth, to, a, direct)
    <2>1. m \in Messages /\ r \in Messages
      BY SMTT(30), <1>0 DEF Message, Messages, Inv, TypeOK, BridgeTypeOK
    <2>2. /\ m.kind # "ERC20Register" /\ r.kind = "ERC20Register"
          /\ m.asset = Eth /\ m.to = to /\ m.amount = a
      BY Zenon DEF Message
    <2>3. /\ balance[c][Eth][u] >= a /\ balance' = [balance EXCEPT ![c][Eth][u] = @ - a]
          /\ SendRemoteMessages(c, <<m>>) /\ relayed' = relayed
      BY Zenon, <1>2 DEF EthOut
    <2> HIDE DEF m, r
    <2> QED BY ZenonT(30), <1>0, <1>1, <2>1, <2>2, <2>3
  <1>3. ASSUME NEW t \in Tokens,
               ERC20OutBurn(c, u, t, to, a, direct) \/ ERC20OutLock(c, u, t, to, a, direct)
        PROVE  Ledger!Next
    <2> DEFINE m == Message(c, "ERC20In", t, to, a, direct)
               r == Message(c, "ERC20Register", t, to, 0, direct)
    <2>1. m \in Messages /\ r \in Messages
      BY SMTT(30), <1>0 DEF Message, Messages, Inv, TypeOK, BridgeTypeOK
    <2>2. /\ m.kind # "ERC20Register" /\ r.kind = "ERC20Register"
          /\ m.asset = t /\ m.to = to /\ m.amount = a
      BY Zenon DEF Message
    <2>3. /\ balance[c][t][u] >= a /\ balance' = [balance EXCEPT ![c][t][u] = @ - a]
          /\ SendRemoteMessages(c, <<m>>) \/ SendRemoteMessages(c, <<r, m>>)
          /\ relayed' = relayed
      BY Zenon, <1>3 DEF ERC20OutBurn, ERC20OutLock
    <2> HIDE DEF m, r
    <2> QED BY Zenon, <1>0, <1>1, <2>1, <2>2, <2>3
  <1> QED BY Zenon, <1>2, <1>3

(* relayMessage: a registration is not seen, a transfer is delivered. *)
LEMMA RelayLedger ==
  ASSUME Inv, NEW c \in Chains, NEW n \in DOMAIN sent[c],
         RelayAccepted(Other(c), n), RelayMessage(Other(c), n)
  PROVE  Ledger!Next \/ UNCHANGED <<balance, InFlight, LastSent>>
  <1> DEFINE m == sent[c][n]
  <1>1. /\ Other(c) \in Chains /\ Other(c) # c /\ Other(Other(c)) = c
        /\ \A d \in Chains : d # c => d = Other(c)
    BY Zenon, OtherChain
  <1>2. /\ sent' = sent /\ relayed' = [relayed EXCEPT ![Other(c)] = @ \cup {n}]
        /\ relayed \in [Chains -> SUBSET (Nat \ {0})]
    BY ZenonT(30), RelayType DEF Inv, TypeOK, BridgeTypeOK
  <1>3. Pending(Other(c))' = Pending(Other(c))
    BY Zenon, <1>1, <1>2 DEF Pending, Kind
  <1>4. balance' = IF m.kind = "ERC20Register" THEN balance
                   ELSE [balance EXCEPT ![Other(c)][m.asset][m.to] = @ + m.amount]
    <2>1. PICK d, k : d = Other(c) /\ k = m
      BY Zenon
    <2>2. Relays(d, n, k)
      BY Zenon, <2>1, RelayEffect
    <2> QED BY Zenon, <2>1, <2>2 DEF Relays
  <1>5. CASE m.kind = "ERC20Register"
    <2>1. balance' = balance
      BY Zenon, <1>5, <1>4
    <2>2. Pending(c)' = Pending(c)
      BY Zenon, <1>1, <1>2, <1>5 DEF Pending, Kind
    <2> QED BY Zenon, <1>1, <1>2, <1>3, <2>1, <2>2, LedgerStutters
  <1>6. CASE m.kind # "ERC20Register"
    <2>1. PICK x : x = TransferOf(c, n)
      BY Zenon
    <2>2. n \in Pending(c)
      BY Zenon, <1>1, <1>6 DEF Pending, Kind, RelayAccepted
    <2>3. Pending(c)' = Pending(c) \ {n}
      BY Zenon, <1>1, <1>2 DEF Pending, Kind
    <2>4. \A d \in Chains : \A k \in DOMAIN sent[d] : TransferOf(d, k)' = TransferOf(d, k)
      BY Zenon, <1>2 DEF TransferOf
    <2>5. x \in InFlight
      BY Zenon, <2>1, <2>2, InFlightDef
    <2>6. InFlight' = InFlight \ {x}
      <3>1. \A y : y \in InFlightFrom(Other(c))' <=> y \in InFlightFrom(Other(c))
        BY Zenon, <1>1, <1>2, <1>3 DEF InFlightFrom, TransferOf
      <3>2. \A y : y \in InFlightFrom(c)' <=> y \in InFlightFrom(c) /\ y # x
        <4> SUFFICES ASSUME NEW y
                     PROVE  y \in InFlightFrom(c)' <=> y \in InFlightFrom(c) /\ y # x
          BY Zenon
        <4>1. \A k : TransferOf(c, k)' = TransferOf(c, k)
          BY Zenon, <1>2 DEF TransferOf
        <4>2. \A k : TransferOf(c, k) = x => k = n
          BY Zenon, <2>1, TransferUnique
        <4>3. y \in InFlightFrom(c) <=> \E k \in Pending(c) : y = TransferOf(c, k)
          BY Zenon, InFlightDef
        <4>4. y \in InFlightFrom(c)' <=> \E k \in Pending(c)' : y = TransferOf(c, k)'
          BY ZenonT(30), InFlightDef
        <4> QED BY Zenon, <2>1, <2>3, <4>1, <4>2, <4>3, <4>4
      <3>3. ASSUME NEW y PROVE y \in InFlightFrom(Other(c)) => y # x
        <4>1. x.from = c /\ \A k : TransferOf(Other(c), k).from = Other(c)
          BY Zenon, <2>1 DEF TransferOf
        <4>2. y \in InFlightFrom(Other(c)) => \E k \in Pending(Other(c)) : y = TransferOf(Other(c), k)
          BY Zenon, InFlightDef
        <4> QED BY Zenon, <1>1, <4>1, <4>2
      <3>4. /\ \A y : y \in InFlight' <=> (y \in InFlightFrom(c)' \/ y \in InFlightFrom(Other(c))')
            /\ \A y : y \in InFlight <=> (y \in InFlightFrom(c) \/ y \in InFlightFrom(Other(c)))
        BY Zenon, <1>1, InFlightDef
      <3>5. \A y : y \in InFlight' <=> y \in InFlight /\ y # x
        BY Zenon, <3>1, <3>2, <3>3, <3>4
      <3> QED BY Zenon, <3>5
    <2>7. LastSent' = LastSent
      BY Zenon, <1>2 DEF LastSent
    <2>8. balance' = [balance EXCEPT ![Other(c)][x.asset][x.to] = @ + x.amount] /\ x.from = c
      <3>1. /\ x.from = c /\ x.asset = m.asset /\ x.to = m.to /\ x.amount = m.amount
        BY Zenon, <2>1 DEF TransferOf
      <3>2. balance' = [balance EXCEPT ![Other(c)][m.asset][m.to] = @ + m.amount]
        BY Zenon, <1>6, <1>4
      <3> QED BY Zenon, <3>1, <3>2
    <2>9. Ledger!Deliver(x, Other(c))
      BY Zenon, <1>1, <2>6, <2>7, <2>8 DEF Ledger!Deliver
    <2> QED BY Zenon, <1>1, <2>5, <2>9 DEF Ledger!Next
  <1> QED BY Zenon, <1>5, <1>6

(* Every step is a step of the ledger or leaves it alone. *)
LEMMA NextLedger ==
  ASSUME Inv, [Next]_vars
  PROVE  [Ledger!Next]_<<balance, InFlight, LastSent>>
  <1>1. ASSUME UNCHANGED bridgeVars PROVE UNCHANGED <<balance, InFlight, LastSent>>
    <2>1. balance' = balance /\ sent' = sent /\ relayed' = relayed
      BY Zenon, <1>1 DEF bridgeVars
    <2>2. \A c \in Chains : Pending(c)' = Pending(c)
      BY Zenon, <2>1 DEF Pending, Kind
    <2> QED BY Zenon, <2>1, <2>2, LedgerStutters
  <1>2. ASSUME NEW c \in Chains, Handle(c)
        PROVE  Ledger!Next \/ UNCHANGED <<balance, InFlight, LastSent>>
    <2>1. PICK n \in todo[c] :
            IF RelayAccepted(Other(c), n) THEN RelayMessage(Other(c), n) ELSE UNCHANGED bridgeVars
      BY Zenon, <1>2 DEF Handle
    <2>2. n \in DOMAIN sent[c]
      BY Zenon DEF Inv, TaskOK
    <2> QED BY Zenon, <1>1, <2>1, <2>2, RelayLedger
  <1>3. ASSUME NEW c \in Chains, UserStep(c) PROVE Ledger!Next
    BY Zenon, <1>3, UserStepLedger
  <1>4. ASSUME NEW c \in Chains, \/ Start(c) \/ Poll(c) \/ Scan(c) \/ EndRound(c)
                                 \/ ScanFails(c) \/ HandleFails(c) \/ InitFails(c)
        PROVE  UNCHANGED bridgeVars
    BY Zenon, <1>4 DEF Start, Poll, Scan, EndRound, ScanFails, HandleFails, InitFails
  <1>5. Crash \/ Relaunch \/ UNCHANGED vars => UNCHANGED bridgeVars
    BY Zenon DEF Crash, Relaunch, vars
  <1> QED BY Zenon, <1>1, <1>2, <1>3, <1>4, <1>5 DEF Next, TaskStep

(* The contracts and their relayer implement the ledger of plain transfers: *)
(* every transfer leaves a user once and reaches its recipient at most      *)
(* once, whatever fails and in whatever order tasks and users take steps.   *)
THEOREM BridgeIsLedger == Spec => ImplementsLedger
  <1>1. Inv /\ [Next]_vars => [Ledger!Next]_<<balance, InFlight, LastSent>>
    BY Zenon, NextLedger
  <1> QED BY <1>1, InitInv, NextInv, InitLedger, PTL DEF Spec, ImplementsLedger, Ledger!Spec

=============================================================================
