---------------------------- MODULE AssetProofs ----------------------------
(***************************************************************************)
(* Every asset stays backed, and a token transfer is refused only if it     *)
(* names address(0) or the registration of its token was passed over, for   *)
(* every number of users, tokens, messages and faults.                      *)
(***************************************************************************)
EXTENDS RelayerProofs

(* Functions f and g are numbers on S, the same except for x. *)
AgreeExcept(f, g, S, x) ==
    \A y \in S : f[y] \in Int /\ g[y] \in Int /\ (y # x => g[y] = f[y])

(* Finite sets, and the sum of the numbers f[x] over a finite set.  The     *)
(* lemmas assume these laws and the last part takes them from SumProofs: it *)
(* keeps the theory of finite sets out of the provers' sight until then.    *)
FiniteLaw ==
    /\ IsFiniteSet({}) /\ \A a : IsFiniteSet({a})
    /\ \A n \in Nat : IsFiniteSet(1 .. n)
    /\ \A S, T : IsFiniteSet(S) /\ T \subseteq S => IsFiniteSet(T)

EmptyLaw == \A f : SumFunctionOnSet(f, {}) = 0

TypeLaw ==
    \A f, S : IsFiniteSet(S) /\ (\A x \in S : f[x] \in Int) => SumFunctionOnSet(f, S) \in Int

AddLaw ==
    \A f, S, x : IsFiniteSet(S) /\ x \notin S /\ (\A y \in S \cup {x} : f[y] \in Int) =>
        SumFunctionOnSet(f, S \cup {x}) = f[x] + SumFunctionOnSet(f, S)

SameLaw ==
    \A f, g, S : IsFiniteSet(S) /\ (\A x \in S : f[x] \in Int /\ g[x] = f[x]) =>
        SumFunctionOnSet(g, S) = SumFunctionOnSet(f, S)

ChangeLaw ==
    \A f, g, S, x : IsFiniteSet(S) /\ x \in S /\ AgreeExcept(f, g, S, x) =>
        SumFunctionOnSet(g, S) = SumFunctionOnSet(f, S) + (g[x] - f[x])

ZeroLaw == \A f, S : IsFiniteSet(S) /\ (\A x \in S : f[x] = 0) => SumFunctionOnSet(f, S) = 0

NatLaw ==
    \A f, S : IsFiniteSet(S) /\ (\A x \in S : f[x] \in Nat) =>
        SumFunctionOnSet(f, S) \in Nat /\ \A x \in S : f[x] <= SumFunctionOnSet(f, S)

SumLaws ==
    /\ FiniteLaw /\ EmptyLaw /\ TypeLaw /\ AddLaw /\ SameLaw /\ ChangeLaw /\ ZeroLaw
    /\ NatLaw

(* What messages s carry of asset x, without those numbered in R. *)
Carries(s, R, x) ==
    SumFunctionOnSet([n \in DOMAIN s |-> s[n].amount], {n \in DOMAIN s : s[n].asset = x /\ n \notin R})

(* v, if what it is about is what one asks for. *)
When(p, q, v) == IF p = q THEN v ELSE 0
WhenBoth(c, x, d, y, v) == IF c = d /\ x = y THEN v ELSE 0

(* The sum over two. *)
LEMMA SumTwo ==
  ASSUME SumLaws, NEW a, NEW b, a # b, NEW f, f[a] \in Int, f[b] \in Int
  PROVE  SumFunctionOnSet(f, {a, b}) = f[a] + f[b]
  <1>1. IsFiniteSet({}) /\ IsFiniteSet({a})
    BY Zenon DEF SumLaws, FiniteLaw
  <1>2. SumFunctionOnSet(f, {}) = 0
    BY Zenon DEF SumLaws, EmptyLaw
  <1>3. SumFunctionOnSet(f, {} \cup {a}) = f[a] + SumFunctionOnSet(f, {})
    BY Zenon, <1>1 DEF SumLaws, AddLaw
  <1>4. SumFunctionOnSet(f, {a} \cup {b}) = f[b] + SumFunctionOnSet(f, {a})
    BY Zenon, <1>1 DEF SumLaws, AddLaw
  <1>5. {} \cup {a} = {a} /\ {a} \cup {b} = {a, b}
    BY Zenon
  <1>6. SumFunctionOnSet(f, {a}) = f[a] + 0
    BY Zenon, <1>2, <1>3, <1>5
  <1>7. SumFunctionOnSet(f, {a, b}) = f[b] + SumFunctionOnSet(f, {a})
    BY Zenon, <1>4, <1>5
  <1> QED BY <1>6, <1>7

(* The messages a sum is over are finitely many. *)
LEMMA CarriesOver ==
  ASSUME SumLaws, NEW s \in Seq(Messages), NEW T \in SUBSET (DOMAIN s)
  PROVE  /\ IsFiniteSet(T)
         /\ \A n \in DOMAIN s : /\ [k \in DOMAIN s |-> s[k].amount][n] = s[n].amount
                                /\ s[n].amount \in Nat
  <1>1. DOMAIN s = 1 .. Len(s) /\ Len(s) \in Nat
    OBVIOUS
  <1>2. IsFiniteSet(DOMAIN s)
    BY Zenon, <1>1 DEF SumLaws, FiniteLaw
  <1>3. \A n \in DOMAIN s : s[n] \in Messages
    OBVIOUS
  <1>4. \A n \in DOMAIN s : s[n].amount \in Nat
    BY Zenon, <1>3 DEF Messages
  <1> QED BY Zenon, <1>2, <1>4 DEF SumLaws, FiniteLaw

(* Messages carry no less than any one of them. *)
LEMMA CarriesType ==
  ASSUME SumLaws, NEW s \in Seq(Messages), NEW R, NEW x
  PROVE  /\ Carries(s, R, x) \in Nat
         /\ \A n \in DOMAIN s : s[n].asset = x /\ n \notin R => s[n].amount <= Carries(s, R, x)
  <1> DEFINE T == {n \in DOMAIN s : s[n].asset = x /\ n \notin R}
             f == [n \in DOMAIN s |-> s[n].amount]
  <1>1. T \in SUBSET (DOMAIN s)
    BY Zenon
  <1>2. IsFiniteSet(T) /\ \A n \in DOMAIN s : f[n] = s[n].amount /\ f[n] \in Nat
    BY Zenon, <1>1, CarriesOver
  <1>3. SumFunctionOnSet(f, T) \in Nat /\ \A n \in T : f[n] <= SumFunctionOnSet(f, T)
    <2> HIDE DEF f, T
    <2> QED BY Zenon, <1>1, <1>2 DEF SumLaws, NatLaw
  <1>4. Carries(s, R, x) = SumFunctionOnSet(f, T)
    BY Zenon DEF Carries
  <1>5. \A n \in DOMAIN s : s[n].asset = x /\ n \notin R => n \in T
    BY Zenon
  <1> HIDE DEF f, T
  <1> QED BY Zenon, <1>2, <1>3, <1>4, <1>5

(* One more message. *)
LEMMA CarriesSend ==
  ASSUME SumLaws, NEW s \in Seq(Messages), NEW m \in Messages, NEW R, R \subseteq DOMAIN s, NEW x
  PROVE  Carries(s \o <<m>>, R, x) = Carries(s, R, x) + When(m.asset, x, m.amount)
  <1> USE DEF When, WhenBoth
  <1> DEFINE q == s \o <<m>>
             T == {n \in DOMAIN s : s[n].asset = x /\ n \notin R}
             U == {n \in DOMAIN q : q[n].asset = x /\ n \notin R}
             f == [n \in DOMAIN s |-> s[n].amount]
             g == [n \in DOMAIN q |-> q[n].amount]
             l == Len(s) + 1
  <1>1. /\ q \in Seq(Messages) /\ DOMAIN s = 1 .. Len(s) /\ DOMAIN q = 1 .. l /\ Len(s) \in Nat
        /\ \A n \in DOMAIN s : q[n] = s[n]
        /\ q[l] = m
    OBVIOUS
  <1>2. l \notin DOMAIN s /\ DOMAIN q = DOMAIN s \cup {l}
    BY <1>1
  <1> HIDE DEF q, l
  <1>3. IsFiniteSet(T) /\ \A n \in DOMAIN s : f[n] = s[n].amount /\ f[n] \in Nat
    BY Zenon, CarriesOver
  <1>4. IsFiniteSet(U) /\ \A n \in DOMAIN q : g[n] = q[n].amount /\ g[n] \in Nat
    BY Zenon, <1>1, CarriesOver
  <1>5. U = IF m.asset = x THEN T \cup {l} ELSE T
    BY Zenon, <1>1, <1>2
  <1>6. \A n \in T : f[n] \in Int /\ g[n] = f[n]
    <2>1. \A n \in T : n \in DOMAIN s /\ n \in DOMAIN q /\ q[n] = s[n]
      BY Zenon, <1>1, <1>2
    <2> HIDE DEF T, f, g
    <2> QED BY SMTT(30), <1>3, <1>4, <2>1
  <1>7. l \notin T /\ g[l] = m.amount /\ \A n \in T \cup {l} : g[n] \in Int
    BY SMTT(30), <1>1, <1>2, <1>4
  <1>8. Carries(s, R, x) = SumFunctionOnSet(f, T) /\ Carries(q, R, x) = SumFunctionOnSet(g, U)
    BY Zenon DEF Carries
  <1> HIDE DEF T, U, f, g
  <1>9. SumFunctionOnSet(g, T) = SumFunctionOnSet(f, T) /\ SumFunctionOnSet(f, T) \in Int
    BY Zenon, <1>3, <1>6 DEF SumLaws, SameLaw, TypeLaw
  <1>10. SumFunctionOnSet(g, T \cup {l}) = g[l] + SumFunctionOnSet(g, T)
    BY Zenon, <1>3, <1>7 DEF SumLaws, AddLaw
  <1>11. m.amount \in Int
    BY DEF Messages
  <1>12. Carries(q, R, x) = Carries(s, R, x) + When(m.asset, x, m.amount)
    BY <1>5, <1>7, <1>8, <1>9, <1>10, <1>11
  <1> QED BY Zenon, <1>12 DEF q

(* Two messages are sent one after the other. *)
LEMMA AppendTwo ==
  ASSUME NEW s \in Seq(Messages), NEW r \in Messages, NEW m \in Messages
  PROVE  s \o <<r, m>> = (s \o <<r>>) \o <<m>>
  <1> DEFINE p == s \o <<r>>
             q == s \o <<r, m>>
             w == p \o <<m>>
  <1>1. p \in Seq(Messages) /\ Len(p) = Len(s) + 1 /\ Len(s) \in Nat
    OBVIOUS
  <1>2. q \in Seq(Messages) /\ w \in Seq(Messages) /\ Len(q) = Len(s) + 2 /\ Len(w) = Len(s) + 2
    OBVIOUS
  <1>3. \A i \in 1 .. Len(s) + 2 : q[i] = w[i]
    OBVIOUS
  <1> HIDE DEF q, w
  <1>4. q = w
    BY <1>1, <1>2, <1>3
  <1> QED BY Zenon, <1>4 DEF q, w

(* A registration, which carries nothing, and a message after it. *)
LEMMA CarriesSendTwo ==
  ASSUME SumLaws, NEW s \in Seq(Messages), NEW r \in Messages, r.amount = 0, NEW m \in Messages,
         NEW R, R \subseteq DOMAIN s, NEW x
  PROVE  Carries(s \o <<r, m>>, R, x) = Carries(s, R, x) + When(m.asset, x, m.amount)
  <1> USE DEF When, WhenBoth
  <1> DEFINE q == s \o <<r>>
  <1>1. q \in Seq(Messages) /\ R \subseteq DOMAIN q /\ s \o <<r, m>> = q \o <<m>>
    BY SMTT(30), AppendTwo
  <1>2. Carries(q, R, x) = Carries(s, R, x) + When(r.asset, x, r.amount)
    BY CarriesSend
  <1>3. Carries(s, R, x) \in Nat
    BY Zenon, CarriesType
  <1>4. Carries(q, R, x) = Carries(s, R, x)
    BY <1>2, <1>3
  <1> HIDE DEF q
  <1>5. Carries(q \o <<m>>, R, x) = Carries(q, R, x) + When(m.asset, x, m.amount)
    BY <1>1, CarriesSend
  <1> QED BY <1>1, <1>4, <1>5, Zenon

(* One message less. *)
LEMMA CarriesRelay ==
  ASSUME SumLaws, NEW s \in Seq(Messages), NEW R, NEW n \in DOMAIN s, n \notin R, NEW x
  PROVE  Carries(s, R \cup {n}, x) = Carries(s, R, x) - When(s[n].asset, x, s[n].amount)
  <1> USE DEF When, WhenBoth
  <1> DEFINE T == {k \in DOMAIN s : s[k].asset = x /\ k \notin R}
             U == {k \in DOMAIN s : s[k].asset = x /\ k \notin R \cup {n}}
             f == [k \in DOMAIN s |-> s[k].amount]
  <1>1. IsFiniteSet(T) /\ \A k \in DOMAIN s : f[k] = s[k].amount /\ f[k] \in Nat
    BY Zenon, CarriesOver
  <1>2. IsFiniteSet(U)
    BY Zenon, CarriesOver
  <1>3. /\ s[n].asset = x => n \in T /\ U = T \ {n}
        /\ s[n].asset # x => U = T
        /\ T \subseteq DOMAIN s /\ U \subseteq DOMAIN s
    OBVIOUS
  <1>4. Carries(s, R, x) = SumFunctionOnSet(f, T) /\ Carries(s, R \cup {n}, x) = SumFunctionOnSet(f, U)
    BY Zenon DEF Carries
  <1> HIDE DEF T, U, f
  <1>5. \A k \in T \cup U : f[k] \in Int
    BY <1>1, <1>3
  <1>6. SumFunctionOnSet(f, U) \in Int
    BY Zenon, <1>2, <1>5 DEF SumLaws, TypeLaw
  <1>7. CASE s[n].asset = x
    <2>1. SumFunctionOnSet(f, T) = f[n] + SumFunctionOnSet(f, U)
      <3>1. T = U \cup {n} /\ n \notin U /\ \A k \in U \cup {n} : f[k] \in Int
        BY Zenon, <1>3, <1>5, <1>7
      <3>2. SumFunctionOnSet(f, U \cup {n}) = f[n] + SumFunctionOnSet(f, U)
        BY Zenon, <1>2, <3>1 DEF SumLaws, AddLaw
      <3> QED BY Zenon, <3>1, <3>2
    <2>2. f[n] = s[n].amount /\ f[n] \in Int
      BY <1>1
    <2>3. SumFunctionOnSet(f, T) = s[n].amount + SumFunctionOnSet(f, U) /\ s[n].amount \in Int
      BY Zenon, <1>3, <1>7, <2>1, <2>2
    <2>4. SumFunctionOnSet(f, U) = SumFunctionOnSet(f, T) - s[n].amount
      BY <1>6, <2>3
    <2> QED BY <1>4, <1>7, <2>4, Zenon
  <1>8. CASE s[n].asset # x
    BY <1>3, <1>4, <1>6, <1>8
  <1> QED BY Zenon, <1>7, <1>8

-----------------------------------------------------------------------------
(* The sum over the two chains. *)
LEMMA SumChains ==
  ASSUME SumLaws, NEW f, DOMAIN f = Chains, NEW c \in Chains, f[c] \in Int, f[Other(c)] \in Int
  PROVE  SumFunction(f) = f[c] + f[Other(c)]
  <1>1. Chains = {c, Other(c)} /\ c # Other(c)
    BY OtherChain
  <1>2. SumFunction(f) = SumFunctionOnSet(f, {c, Other(c)})
    BY Zenon, <1>1 DEF SumFunction
  <1> QED BY Zenon, <1>1, <1>2, SumTwo

(* What is in transit of asset x, from one chain and from the other, for    *)
(* messages s and relayed numbers R.                                        *)
LEMMA TransitSum ==
  ASSUME SumLaws, NEW s \in [Chains -> Seq(Messages)], NEW R, NEW x, NEW c \in Chains
  PROVE  SumFunction([d \in Chains |-> Carries(s[d], R[Other(d)], x)]) =
            Carries(s[c], R[Other(c)], x) + Carries(s[Other(c)], R[c], x)
  <1> DEFINE f == [d \in Chains |-> Carries(s[d], R[Other(d)], x)]
  <1>1. Other(c) \in Chains /\ Other(Other(c)) = c
    BY Zenon, OtherChain
  <1>2. f[c] = Carries(s[c], R[Other(c)], x) /\ f[Other(c)] = Carries(s[Other(c)], R[c], x)
    BY Zenon, <1>1
  <1>3. f[c] \in Int /\ f[Other(c)] \in Int
    BY <1>1, <1>2, CarriesType
  <1>4. DOMAIN f = Chains
    BY Zenon
  <1> HIDE DEF f
  <1>5. SumFunction(f) = f[c] + f[Other(c)]
    BY Zenon, <1>3, <1>4, SumChains
  <1> QED BY Zenon, <1>2, <1>5 DEF f

(* The same for the state. *)
LEMMA TransitNow ==
  ASSUME SumLaws, sent \in [Chains -> Seq(Messages)], NEW c \in Chains, NEW x
  PROVE  /\ InTransit(x) = Carries(sent[c], relayed[Other(c)], x) + Carries(sent[Other(c)], relayed[c], x)
         /\ Carries(sent[c], relayed[Other(c)], x) \in Nat /\ Carries(sent[Other(c)], relayed[c], x) \in Nat
  <1>1. InTransit(x) = SumFunction([d \in Chains |-> Carries(sent[d], relayed[Other(d)], x)])
    BY Zenon DEF InTransit, InTransitFrom, Undelivered, Carries
  <1>2. InTransit(x) = Carries(sent[c], relayed[Other(c)], x) + Carries(sent[Other(c)], relayed[c], x)
    BY Zenon, <1>1, TransitSum
  <1>3. Other(c) \in Chains /\ sent[c] \in Seq(Messages) /\ sent[Other(c)] \in Seq(Messages)
    BY Zenon, OtherChain
  <1> QED BY Zenon, <1>2, <1>3, CarriesType

(* The same before and after a step. *)
LEMMA TransitBoth ==
  ASSUME SumLaws, sent \in [Chains -> Seq(Messages)], sent' \in [Chains -> Seq(Messages)], NEW c \in Chains, NEW x
  PROVE  /\ InTransit(x) = Carries(sent[c], relayed[Other(c)], x) + Carries(sent[Other(c)], relayed[c], x)
         /\ InTransit(x)' =
               Carries(sent'[c], relayed'[Other(c)], x) + Carries(sent'[Other(c)], relayed'[c], x)
         /\ Carries(sent[c], relayed[Other(c)], x) \in Nat /\ Carries(sent[Other(c)], relayed[c], x) \in Nat
  <1>1. InTransit(x)' = SumFunction([d \in Chains |-> Carries(sent'[d], relayed'[Other(d)], x)])
    BY Zenon DEF InTransit, InTransitFrom, Undelivered, Carries
  <1>2. InTransit(x)' =
           Carries(sent'[c], relayed'[Other(c)], x) + Carries(sent'[Other(c)], relayed'[c], x)
    BY Zenon, <1>1, TransitSum
  <1> QED BY Zenon, <1>2, TransitNow

(* What the bridges hold of the chains' currency beyond their reserves. *)
LEMMA EtherSum ==
  ASSUME SumLaws, NEW h \in [Chains -> [Assets -> Nat]], NEW c \in Chains
  PROVE  SumFunction([d \in Chains |-> h[d][Eth] - Reserve[d][Eth]]) =
            (h[c][Eth] - Reserve[c][Eth]) + (h[Other(c)][Eth] - Reserve[Other(c)][Eth])
  <1> DEFINE f == [d \in Chains |-> h[d][Eth] - Reserve[d][Eth]]
  <1>1. Other(c) \in Chains /\ Eth \in Assets
    BY Zenon, OtherChain DEF Assets
  <1>2. \A d \in Chains : h[d][Eth] \in Nat /\ Reserve[d][Eth] \in Nat
    BY <1>1, BridgeAssumption
  <1>3. /\ f[c] = h[c][Eth] - Reserve[c][Eth] /\ f[Other(c)] = h[Other(c)][Eth] - Reserve[Other(c)][Eth]
        /\ DOMAIN f = Chains
    BY Zenon, <1>1
  <1>4. f[c] \in Int /\ f[Other(c)] \in Int
    BY SMTT(30), <1>1, <1>2, <1>3
  <1> HIDE DEF f
  <1>5. SumFunction(f) = f[c] + f[Other(c)]
    BY Zenon, <1>3, <1>4, SumChains
  <1> QED BY Zenon, <1>3, <1>5 DEF f

(* What the users own together. *)
LEMMA BalanceType ==
  ASSUME SumLaws, NEW b \in [Chains -> [Assets -> [Users -> Nat]]], NEW d \in Chains, NEW y \in Assets
  PROVE  /\ b[d][y] \in [Users -> Nat] /\ SumFunction(b[d][y]) = SumFunctionOnSet(b[d][y], Users)
         /\ SumFunction(b[d][y]) \in Nat
  <1> DEFINE f == b[d][y]
  <1>1. IsFiniteSet(Users)
    BY Zenon, BridgeAssumption
  <1>2. f \in [Users -> Nat]
    BY Zenon
  <1>3. SumFunction(f) = SumFunctionOnSet(f, Users)
    BY Zenon, <1>2 DEF SumFunction
  <1>4. SumFunction(f) \in Nat
    <2> HIDE DEF f
    <2> QED BY <1>1, <1>2, <1>3 DEF SumLaws, NatLaw
  <1> QED BY Zenon, <1>2, <1>3, <1>4

(* Balances e are balances b with v for user u. *)
BalanceSet(e, b, c, x, u, v) ==
    /\ b \in [Chains -> [Assets -> [Users -> Nat]]]
    /\ e = [b EXCEPT ![c][x][u] = v]

(* One user's balance is changed. *)
LEMMA BalanceSum ==
  ASSUME SumLaws, NEW b, NEW e, NEW c \in Chains, NEW x \in Assets, NEW u \in Users, NEW v \in Nat,
         BalanceSet(e, b, c, x, u, v),
         NEW d \in Chains, NEW y \in Assets
  PROVE  SumFunction(e[d][y]) = SumFunction(b[d][y]) + WhenBoth(d, y, c, x, v - b[c][x][u])
  <1> USE DEF When, WhenBoth, BalanceSet
  <1> DEFINE f == b[d][y]
             g == e[d][y]
  <1>1. IsFiniteSet(Users)
    BY Zenon, BridgeAssumption
  <1>2. f \in [Users -> Nat]
    BY Zenon
  <1>3. SumFunction(f) = SumFunctionOnSet(f, Users) /\ SumFunction(f) \in Nat
    BY Zenon, BalanceType
  <1>4. SumFunction(f) \in Nat
    BY Zenon, <1>3
  <1>5. CASE d = c /\ y = x
    <2>1. g = [f EXCEPT ![u] = v] /\ f[u] = b[c][x][u]
      BY Zenon, <1>5
    <2> HIDE DEF f, g
    <2>2. DOMAIN g = Users /\ g[u] = v /\ f[u] \in Nat
      BY Zenon, <1>2, <2>1
    <2>3. SumFunctionOnSet(g, Users) = SumFunctionOnSet(f, Users) + (g[u] - f[u])
      <3>1. AgreeExcept(f, g, Users, u)
        BY <1>2, <2>1 DEF AgreeExcept
      <3> QED BY Zenon, <1>1, <3>1 DEF SumLaws, ChangeLaw
    <2>4. SumFunction(g) = SumFunctionOnSet(g, Users)
      BY Zenon, <2>2 DEF SumFunction
    <2>5. SumFunction(g) = SumFunction(f) + (v - b[c][x][u])
      BY Zenon, <1>3, <2>1, <2>2, <2>3, <2>4
    <2> QED BY Zenon, <1>4, <1>5, <2>5 DEF f, g
  <1>6. CASE ~(d = c /\ y = x)
    <2>1. g = f
      BY Zenon, <1>6
    <2> HIDE DEF f, g
    <2>2. SumFunction(g) = SumFunction(f) + 0
      BY <1>4, <2>1
    <2> QED BY Zenon, <1>4, <1>6, <2>2 DEF f, g
  <1> QED BY Zenon, <1>5, <1>6

(* A step changes, on chain c and for asset x, what the bridge holds by h,  *)
(* what users own by b and what is in transit by k, and nothing else.       *)
Holds(c, x, h) ==
    \A d \in Chains, y \in Assets : held'[d][y] = held[d][y] + WhenBoth(d, y, c, x, h)

Owned(c, x, b) ==
    \A d \in Chains, y \in Assets :
        /\ SumFunction(balance[d][y]) \in Nat
        /\ SumFunction(balance'[d][y]) = SumFunction(balance[d][y]) + WhenBoth(d, y, c, x, b)

Carried(x, k) ==
    \A y \in Assets : InTransit(y) \in Nat /\ InTransit(y)' = InTransit(y) + When(y, x, k)

(* Messages ms, sent after those of chain c, carry a of asset x. *)
Grows(c, ms, x, a) ==
    \A y \in Assets : Carries(sent[c] \o ms, relayed[Other(c)], y) =
                         Carries(sent[c], relayed[Other(c)], y) + When(x, y, a)

(* A payment to or from a user. *)
LEMMA PaidOwned ==
  ASSUME SumLaws, balance \in [Chains -> [Assets -> [Users -> Nat]]], NEW c \in Chains, NEW x \in Assets,
         NEW u \in Users, NEW v \in Nat, balance' = [balance EXCEPT ![c][x][u] = v],
         NEW b \in Int, v = balance[c][x][u] + b
  PROVE  Owned(c, x, b)
  <1>1. BalanceSet(balance', balance, c, x, u, v)
    BY Zenon DEF BalanceSet
  <1>2. v - balance[c][x][u] = b
    <2>1. balance[c][x][u] \in Nat
      OBVIOUS
    <2> QED BY <2>1
  <1>3. ASSUME NEW d \in Chains, NEW y \in Assets
        PROVE  /\ SumFunction(balance[d][y]) \in Nat
               /\ SumFunction(balance'[d][y]) = SumFunction(balance[d][y]) + WhenBoth(d, y, c, x, b)
    <2>1. SumFunction(balance[d][y]) \in Nat
      BY Zenon, BalanceType
    <2>2. SumFunction(balance'[d][y]) =
             SumFunction(balance[d][y]) + WhenBoth(d, y, c, x, v - balance[c][x][u])
      BY ONLY SMTT(30), SumLaws, <1>1, c \in Chains, x \in Assets, u \in Users, v \in Nat, d \in Chains, y \in Assets, BalanceSum
    <2> QED BY <1>2, <2>1, <2>2, Zenon
  <1> QED BY Zenon, <1>3 DEF Owned

(* What is taken into custody, or released. *)
LEMMA PaidHeld ==
  ASSUME held \in [Chains -> [Assets -> Nat]], NEW c \in Chains, NEW x \in Assets,
         NEW v \in Nat, held' = [held EXCEPT ![c][x] = v], NEW h \in Int, v = held[c][x] + h
  PROVE  Holds(c, x, h)
  <1>1. ASSUME NEW d \in Chains, NEW y \in Assets
        PROVE  held'[d][y] = held[d][y] + WhenBoth(d, y, c, x, h)
    <2>1. held[d][y] \in Nat
      BY Zenon
    <2>2. CASE d = c /\ y = x
      BY Zenon, <2>1, <2>2 DEF WhenBoth
    <2>3. CASE ~(d = c /\ y = x)
      <3>1. held'[d][y] = held[d][y]
        BY Zenon, <2>3
      <3> QED BY SMTT(30), <2>1, <2>3, <3>1 DEF WhenBoth
    <2> QED BY Zenon, <2>2, <2>3
  <1> QED BY Zenon, <1>1 DEF Holds

(* No payment, and nothing taken or released. *)
LEMMA NonePaid ==
  ASSUME SumLaws, BridgeTypeOK, NEW c \in Chains, NEW x \in Assets
  PROVE  /\ balance' = balance => Owned(c, x, 0)
         /\ held' = held => Holds(c, x, 0)
  <1>1. balance \in [Chains -> [Assets -> [Users -> Nat]]] /\ held \in [Chains -> [Assets -> Nat]]
    BY Zenon DEF BridgeTypeOK
  <1>2. \A d \in Chains, y \in Assets : SumFunction(balance[d][y]) \in Nat
    BY Zenon, <1>1, BalanceType
  <1>3. \A d \in Chains, y \in Assets : held[d][y] \in Nat /\ WhenBoth(d, y, c, x, 0) = 0
    BY Zenon, <1>1 DEF WhenBoth
  <1> QED BY <1>2, <1>3 DEF Owned, Holds

(* Such a step keeps the assets backed if these changes balance. *)
LEMMA BackedKept ==
  ASSUME SumLaws, BridgeTypeOK, BridgeTypeOK', Backed, NEW c \in Chains, NEW x \in Assets,
         NEW h \in Int, NEW b \in Int, NEW k \in Int,
         Holds(c, x, h), Owned(c, x, b), Carried(x, k),
         x = Eth => h = k,
         x # Eth /\ Home[x] = c => h = k,
         x # Eth /\ Home[x] # c => b + k = 0
  PROVE  Backed'
  <1> USE DEF When, WhenBoth
  <1>0. /\ \A d \in Chains, y \in Assets :
             /\ held'[d][y] = held[d][y] + WhenBoth(d, y, c, x, h)
             /\ SumFunction(balance[d][y]) \in Nat
             /\ SumFunction(balance'[d][y]) =
                  SumFunction(balance[d][y]) + WhenBoth(d, y, c, x, b)
        /\ \A y \in Assets : InTransit(y) \in Nat /\ InTransit(y)' = InTransit(y) + When(y, x, k)
    BY Zenon DEF Holds, Owned, Carried
  <1>1. Eth \in Assets /\ Tokens \subseteq Assets /\ Eth \notin Tokens
    BY Zenon, BridgeAssumption DEF Assets
  <1>2. \A d \in Chains, y \in Assets : held[d][y] \in Nat /\ Reserve[d][y] \in Nat
    <2>1. held \in [Chains -> [Assets -> Nat]] /\ Reserve \in [Chains -> [Assets -> Nat]]
      BY Zenon, BridgeAssumption DEF BridgeTypeOK
    <2> QED BY Zenon, <2>1
  <1>3. ASSUME NEW t \in Tokens
        PROVE  held'[Home[t]][t] - Reserve[Home[t]][t] =
                  SumFunction(balance'[Other(Home[t])][t]) + InTransit(t)'
    <2>1. PICK e \in Chains : e = Home[t]
      BY Zenon, BridgeAssumption
    <2>2. t \in Assets /\ t # Eth /\ Other(e) \in Chains /\ Other(e) # e
      BY Zenon, <1>1, OtherChain
    <2>3. held[e][t] - Reserve[e][t] = SumFunction(balance[Other(e)][t]) + InTransit(t)
      BY Zenon, <2>1 DEF Backed
    <2>4. /\ held[e][t] \in Nat /\ Reserve[e][t] \in Nat
          /\ SumFunction(balance[Other(e)][t]) \in Nat /\ InTransit(t) \in Nat
      BY Zenon, <1>0, <1>2, <2>2
    <2> SUFFICES held'[e][t] - Reserve[e][t] = SumFunction(balance'[Other(e)][t]) + InTransit(t)'
      BY <2>1, Zenon
    <2>5. CASE t # x
      <3>1. /\ held'[e][t] = held[e][t] + 0 /\ InTransit(t)' = InTransit(t) + 0
            /\ SumFunction(balance'[Other(e)][t]) = SumFunction(balance[Other(e)][t]) + 0
        BY Zenon, <1>0, <2>2, <2>5
      <3> QED BY <2>3, <2>4, <3>1
    <2>6. CASE t = x /\ e = c
      <3>1. /\ held'[e][t] = held[e][t] + h /\ InTransit(t)' = InTransit(t) + k /\ h = k
            /\ SumFunction(balance'[Other(e)][t]) = SumFunction(balance[Other(e)][t]) + 0
        BY Zenon, <1>0, <2>1, <2>2, <2>6
      <3> QED BY SMTT(30), <2>3, <2>4, <3>1
    <2>7. CASE t = x /\ e # c
      <3>1. Other(e) = c
        BY Zenon, <2>7, OtherChain
      <3>2. /\ held'[e][t] = held[e][t] + 0 /\ InTransit(t)' = InTransit(t) + k /\ b + k = 0
            /\ SumFunction(balance'[Other(e)][t]) = SumFunction(balance[Other(e)][t]) + b
        BY Zenon, <1>0, <2>1, <2>2, <2>7, <3>1
      <3> QED BY <2>3, <2>4, <3>2
    <2> QED BY Zenon, <2>5, <2>6, <2>7
  <1>4. SumFunction([d \in Chains |-> held'[d][Eth] - Reserve[d][Eth]]) = InTransit(Eth)'
    <2>1. Other(c) \in Chains /\ Other(c) # c
      BY Zenon, OtherChain
    <2>2. /\ held \in [Chains -> [Assets -> Nat]] /\ held' \in [Chains -> [Assets -> Nat]]
      BY Zenon DEF BridgeTypeOK
    <2>3. /\ SumFunction([d \in Chains |-> held[d][Eth] - Reserve[d][Eth]]) =
               (held[c][Eth] - Reserve[c][Eth]) + (held[Other(c)][Eth] - Reserve[Other(c)][Eth])
          /\ SumFunction([d \in Chains |-> held'[d][Eth] - Reserve[d][Eth]]) =
               (held'[c][Eth] - Reserve[c][Eth]) + (held'[Other(c)][Eth] - Reserve[Other(c)][Eth])
      BY Zenon, <2>2, EtherSum
    <2>4. (held[c][Eth] - Reserve[c][Eth]) + (held[Other(c)][Eth] - Reserve[Other(c)][Eth]) = InTransit(Eth)
      BY Zenon, <2>3 DEF Backed
    <2>5. held'[Other(c)][Eth] = held[Other(c)][Eth] + 0
      BY Zenon, <1>0, <1>1, <2>1
    <2>6. /\ held[c][Eth] \in Nat /\ Reserve[c][Eth] \in Nat /\ InTransit(Eth) \in Nat
          /\ held[Other(c)][Eth] \in Nat /\ Reserve[Other(c)][Eth] \in Nat
      BY Zenon, <1>0, <1>1, <1>2, <2>1
    <2>7. CASE x = Eth
      <3>1. held'[c][Eth] = held[c][Eth] + h /\ InTransit(Eth)' = InTransit(Eth) + k /\ h = k
        BY Zenon, <1>0, <1>1, <2>7
      <3> QED BY SMTT(30), <2>3, <2>4, <2>5, <2>6, <3>1
    <2>8. CASE x # Eth
      <3>1. held'[c][Eth] = held[c][Eth] + 0 /\ InTransit(Eth)' = InTransit(Eth) + 0
        BY Zenon, <1>0, <1>1, <2>8
      <3> QED BY SMTT(30), <2>3, <2>4, <2>5, <2>6, <3>1
    <2> QED BY Zenon, <2>7, <2>8
  <1> QED BY Zenon, <1>3, <1>4 DEF Backed

-----------------------------------------------------------------------------
(* Registrations                                                            *)

IsRegister(m, t) == m.kind = "ERC20Register" /\ m.asset = t
HasRegister(s, t) == \E r \in DOMAIN s : IsRegister(s[r], t)

(* In the messages s of chain c only the tokens of c are registered, and    *)
(* each before its first transfer.                                          *)
LogTokens(s, c) ==
    \A n \in DOMAIN s :
        /\ s[n].kind = "ERC20Register" => s[n].amount = 0 /\ Home[s[n].asset] = c
        /\ s[n].kind = "ERC20In" /\ Home[s[n].asset] = c =>
              \E r \in DOMAIN s : r < n /\ IsRegister(s[r], s[n].asset)

TokenLog == \A c \in Chains : LogTokens(sent[c], c)

Registered == \A c \in Chains : \A t \in registered[c] : HasRegister(sent[c], t)

(* A BridgedERC20 stands for a token of the other chain, and there is one   *)
(* for every registration that was relayed.                                 *)
Deployed ==
    \A c \in Chains :
        /\ \A t \in local[c] : Home[t] # c
        /\ \A n \in relayed[Other(c)] :
              sent[c][n].kind = "ERC20Register" => sent[c][n].asset \in local[Other(c)]

(* What task c has passed is relayed, refused, skipped or still to be done. *)
Covered ==
    \A c \in Chains :
        /\ refused[c] \cup skipped[c] \subseteq DOMAIN sent[c]
        /\ \A n \in DOMAIN sent[c] : sent[c][n].block <= cursor[c] =>
              n \in relayed[Other(c)] \cup refused[c] \cup skipped[c] \cup todo[c]

AssetInv ==
    Inv /\ TokenLog /\ Registered /\ Deployed /\ Covered /\ Backed /\ RefusalsExplained

(* One message is appended. *)
LEMMA LogAppend ==
  ASSUME NEW s \in Seq(Messages), NEW m \in Messages, NEW c, LogTokens(s, c),
         m.kind = "ERC20Register" => m.amount = 0 /\ Home[m.asset] = c,
         m.kind = "ERC20In" /\ Home[m.asset] = c => HasRegister(s, m.asset)
  PROVE  /\ s \o <<m>> \in Seq(Messages) /\ LogTokens(s \o <<m>>, c)
         /\ \A t : HasRegister(s, t) \/ IsRegister(m, t) => HasRegister(s \o <<m>>, t)
  <1> DEFINE q == s \o <<m>>
             l == Len(s) + 1
  <1>1. /\ q \in Seq(Messages) /\ DOMAIN s = 1 .. Len(s) /\ DOMAIN q = 1 .. l /\ Len(s) \in Nat
        /\ \A n \in DOMAIN s : q[n] = s[n]
        /\ q[l] = m
    BY SMTT(30)
  <1>2. l \in DOMAIN q /\ DOMAIN q = DOMAIN s \cup {l} /\ \A n \in DOMAIN s : n < l
    BY SMTT(30), <1>1
  <1> HIDE DEF q, l
  <1>3. LogTokens(q, c)
    <2> SUFFICES ASSUME NEW n \in DOMAIN q
        PROVE  /\ q[n].kind = "ERC20Register" => q[n].amount = 0 /\ Home[q[n].asset] = c
               /\ q[n].kind = "ERC20In" /\ Home[q[n].asset] = c =>
                     \E r \in DOMAIN q : r < n /\ IsRegister(q[r], q[n].asset)
      BY Zenon DEF LogTokens
    <2>1. CASE n \in DOMAIN s
      <3>1. q[n] = s[n]
        BY Zenon, <1>1, <2>1
      <3>2. /\ s[n].kind = "ERC20Register" => s[n].amount = 0 /\ Home[s[n].asset] = c
            /\ s[n].kind = "ERC20In" /\ Home[s[n].asset] = c =>
                 \E r \in DOMAIN s : r < n /\ IsRegister(s[r], s[n].asset)
        BY Zenon, <2>1 DEF LogTokens
      <3>3. \A r \in DOMAIN s : r \in DOMAIN q /\ q[r] = s[r]
        BY Zenon, <1>1, <1>2
      <3> QED BY <3>1, <3>2, <3>3, Zenon
    <2>2. CASE n = l
      BY Zenon, <1>1, <1>2, <2>2 DEF HasRegister
    <2> QED BY Zenon, <1>2, <2>1, <2>2
  <1>4. \A t : HasRegister(s, t) \/ IsRegister(m, t) => HasRegister(q, t)
    BY Zenon, <1>1, <1>2 DEF HasRegister
  <1> QED BY Zenon, <1>1, <1>3, <1>4 DEF q

(* A registration and the transfer that needs it. *)
LEMMA LogAppendTwo ==
  ASSUME NEW s \in Seq(Messages), NEW r \in Messages, NEW m \in Messages, NEW c, LogTokens(s, c),
         r.kind = "ERC20Register", r.amount = 0, Home[r.asset] = c, m.kind = "ERC20In", m.asset = r.asset
  PROVE  /\ LogTokens(s \o <<r, m>>, c)
         /\ \A t : HasRegister(s, t) \/ IsRegister(r, t) => HasRegister(s \o <<r, m>>, t)
  <1> DEFINE q == s \o <<r>>
  <1>1. s \o <<r, m>> = q \o <<m>>
    BY Zenon, AppendTwo
  <1>2. "ERC20Register" # "ERC20In" /\ IsRegister(r, r.asset)
    BY Zenon DEF IsRegister
  <1>3. /\ q \in Seq(Messages) /\ LogTokens(q, c)
        /\ \A t : HasRegister(s, t) \/ IsRegister(r, t) => HasRegister(q, t)
    BY Zenon, <1>2, LogAppend
  <1> HIDE DEF q
  <1>4. HasRegister(q, m.asset)
    BY Zenon, <1>2, <1>3
  <1>5. /\ LogTokens(q \o <<m>>, c)
        /\ \A t : HasRegister(q, t) => HasRegister(q \o <<m>>, t)
    BY ZenonT(30), <1>2, <1>3, <1>4, LogAppend
  <1> QED BY ZenonT(30), <1>1, <1>3, <1>5

(* The invariant when the bridges are deployed. *)
LEMMA InitAssets ==
  ASSUME SumLaws, Init
  PROVE  AssetInv
  <1> USE DEF Init, BridgeInit
  <1>1. Inv
    BY Zenon, InitInv
  <1>2. TokenLog /\ Registered /\ Deployed /\ Covered /\ RefusalsExplained
    BY OtherChain DEF TokenLog, LogTokens, Registered, Deployed, Covered, RefusalsExplained
  <1>3. \A x : InTransit(x) = 0
    <2> TAKE x
    <2>1. PICK c \in Chains : TRUE
      BY Zenon, BridgeAssumption
    <2>2. sent \in [Chains -> Seq(Messages)]
      BY Zenon, <1>1 DEF Inv, TypeOK, BridgeTypeOK
    <2>4. InTransit(x) = Carries(sent[c], relayed[Other(c)], x) + Carries(sent[Other(c)], relayed[c], x)
      BY Zenon, <2>2, TransitNow
    <2>5. ASSUME NEW d \in Chains, NEW R PROVE Carries(sent[d], R, x) = 0
      <3>1. {n \in DOMAIN sent[d] : sent[d][n].asset = x /\ n \notin R} = {}
        BY SMTT(30)
      <3> QED BY Zenon, <3>1 DEF SumLaws, EmptyLaw, Carries
    <2> QED BY <2>4, <2>5, OtherChain
  <1>4. ASSUME NEW t \in Tokens
        PROVE  held[Home[t]][t] - Reserve[Home[t]][t] =
                  SumFunction(balance[Other(Home[t])][t]) + InTransit(t)
    <2>1. PICK e \in Chains : e = Home[t]
      BY Zenon, BridgeAssumption
    <2>2. Other(e) \in Chains /\ Other(e) # e /\ t \in Assets
      BY Zenon, OtherChain DEF Assets
    <2>3. Funds[Other(e)][t] \in [Users -> Nat] /\ Reserve[e][t] \in Nat
      BY SMTT(30), <2>2, BridgeAssumption
    <2>4. \A u \in Users : Funds[Other(e)][t][u] = 0
      BY Zenon, <2>1, <2>2, BridgeAssumption
    <2>5. SumFunctionOnSet(Funds[Other(e)][t], Users) = 0
      BY Zenon, <2>4, BridgeAssumption DEF SumLaws, ZeroLaw
    <2>6. SumFunction(balance[Other(e)][t]) = 0
      BY Zenon, <2>3, <2>5 DEF SumFunction
    <2> QED BY SMTT(30), <1>3, <2>1, <2>3, <2>6
  <1>5. SumFunction([c \in Chains |-> held[c][Eth] - Reserve[c][Eth]]) = 0
    <2>1. PICK c \in Chains : TRUE
      BY BridgeAssumption
    <2>2. /\ Reserve \in [Chains -> [Assets -> Nat]] /\ held = Reserve /\ Eth \in Assets
          /\ Other(c) \in Chains
      BY Zenon, BridgeAssumption, OtherChain DEF Assets
    <2>3. SumFunction([d \in Chains |-> held[d][Eth] - Reserve[d][Eth]]) =
             (held[c][Eth] - Reserve[c][Eth]) + (held[Other(c)][Eth] - Reserve[Other(c)][Eth])
      BY Zenon, <2>2, EtherSum
    <2>4. Reserve[c][Eth] \in Nat /\ Reserve[Other(c)][Eth] \in Nat
      BY Zenon, <2>2
    <2> QED BY SMTT(30), <2>2, <2>3, <2>4
  <1>6. Backed
    BY Zenon, <1>3, <1>4, <1>5 DEF Backed
  <1> QED BY Zenon, <1>1, <1>2, <1>6 DEF AssetInv

-----------------------------------------------------------------------------
(* Steps of the relayer that leave the contracts alone                      *)

(* What task c had to do, or comes by, is still to be done or is skipped. *)
Passes(c) ==
    /\ skipped[c] \subseteq skipped'[c] /\ skipped'[c] \subseteq DOMAIN sent[c]
    /\ \A n \in DOMAIN sent[c] :
          n \in todo[c] \/ (cursor[c] < sent[c][n].block /\ sent[c][n].block <= cursor'[c])
             => n \in todo'[c] \cup skipped'[c]

(* The assets do not depend on the relayer's state. *)
LEMMA SameAssets ==
  ASSUME AssetInv, UNCHANGED bridgeVars
  PROVE  TokenLog' /\ Registered' /\ Deployed' /\ Backed'
  <1>1. /\ sent' = sent /\ relayed' = relayed /\ held' = held /\ balance' = balance
        /\ registered' = registered /\ local' = local
    BY Zenon DEF bridgeVars
  <1>2. \A x : InTransit(x)' = InTransit(x)
    BY Zenon, <1>1 DEF InTransit, InTransitFrom, Undelivered
  <1>3. Backed'
    BY Zenon, <1>1, <1>2 DEF AssetInv, Backed
  <1>4. TokenLog' /\ Registered' /\ Deployed'
    BY Zenon, <1>1 DEF AssetInv, TokenLog, Registered, Deployed
  <1> QED BY Zenon, <1>3, <1>4

(* Such a step keeps the invariant if no message is forgotten. *)
LEMMA QuietAssets ==
  ASSUME AssetInv, Inv', UNCHANGED bridgeVars, refused' = refused, \A c \in Chains : Passes(c)
  PROVE  AssetInv'
  <1>1. sent' = sent /\ relayed' = relayed
    BY Zenon DEF bridgeVars
  <1>2. Covered'
    <2> SUFFICES ASSUME NEW c \in Chains
        PROVE  /\ refused[c] \cup skipped'[c] \subseteq DOMAIN sent[c]
               /\ \A n \in DOMAIN sent[c] : sent[c][n].block <= cursor'[c] =>
                    n \in relayed[Other(c)] \cup refused[c] \cup skipped'[c] \cup todo'[c]
      BY Zenon, <1>1 DEF Covered
    <2>1. /\ refused[c] \cup skipped[c] \subseteq DOMAIN sent[c]
          /\ \A n \in DOMAIN sent[c] : sent[c][n].block <= cursor[c] =>
                n \in relayed[Other(c)] \cup refused[c] \cup skipped[c] \cup todo[c]
      BY Zenon DEF AssetInv, Covered
    <2>2. \A n \in DOMAIN sent[c] : sent[c][n].block \in Nat /\ cursor[c] \in Nat
      BY Zenon, SentType, TaskHere DEF AssetInv
    <2>3. Passes(c)
      BY Zenon
    <2> QED BY <2>1, <2>2, <2>3 DEF Passes
  <1>3. RefusalsExplained'
    <2>1. \A c \in Chains : skipped[c] \subseteq skipped'[c]
      BY Zenon DEF Passes
    <2> QED BY <1>1, <2>1 DEF AssetInv, RefusalsExplained, Kind
  <1> QED BY Zenon, <1>2, <1>3, SameAssets DEF AssetInv

(* A task that stays where it is. *)
LEMMA StillPasses ==
  ASSUME AssetInv, NEW c \in Chains, skipped'[c] = skipped[c], todo'[c] = todo[c], cursor'[c] = cursor[c]
  PROVE  Passes(c)
  <1>1. \A n \in DOMAIN sent[c] : sent[c][n].block \in Nat /\ cursor[c] \in Nat
    BY Zenon, SentType, TaskHere DEF AssetInv
  <1> QED BY SMTT(30), <1>1 DEF Passes, AssetInv, Covered

(* The tasks other than c stay where they are. *)
LEMMA OthersPass ==
  ASSUME AssetInv, NEW c \in Chains, Passes(c), NEW S, NEW T, NEW k,
         skipped' = [skipped EXCEPT ![c] = S], todo' = [todo EXCEPT ![c] = T],
         cursor' = [cursor EXCEPT ![c] = k]
  PROVE  \A d \in Chains : Passes(d)
  <1> TAKE d \in Chains
  <1>1. CASE d = c
    BY Zenon, <1>1
  <1>2. CASE d # c
    <2>1. skipped'[d] = skipped[d] /\ todo'[d] = todo[d] /\ cursor'[d] = cursor[d]
      BY Zenon, <1>2 DEF AssetInv, Inv, TypeOK
    <2> QED BY Zenon, <2>1, StillPasses
  <1> QED BY Zenon, <1>1, <1>2

(* The same, for the values before the step. *)
LEMMA Unmoved ==
  ASSUME AssetInv, NEW c \in Chains
  PROVE  /\ skipped = [skipped EXCEPT ![c] = skipped[c]] /\ todo = [todo EXCEPT ![c] = todo[c]]
         /\ cursor = [cursor EXCEPT ![c] = cursor[c]]
         /\ skipped[c] \subseteq DOMAIN sent[c] /\ todo[c] \subseteq DOMAIN sent[c]
         /\ cursor[c] \in Nat /\ height[c] \in Nat /\ Inv
         /\ \A n \in DOMAIN sent[c] : sent[c][n].block \in Nat /\ sent[c][n].block <= height[c]
         /\ pc[c] # "handle" => todo[c] = {}
  <1>1. /\ skipped = [skipped EXCEPT ![c] = skipped[c]] /\ todo = [todo EXCEPT ![c] = todo[c]]
        /\ cursor = [cursor EXCEPT ![c] = cursor[c]]
    BY Zenon DEF AssetInv, Inv, TypeOK
  <1>2. skipped[c] \subseteq DOMAIN sent[c] /\ todo[c] \subseteq DOMAIN sent[c]
    BY Zenon DEF AssetInv, Covered, Inv, TaskOK
  <1> QED BY Zenon, <1>1, <1>2, TaskHere, SentType DEF AssetInv

(* _init *)
LEMMA StartAssets ==
  ASSUME AssetInv, NEW c \in Chains, Start(c)
  PROVE  AssetInv'
  <1> DEFINE S == skipped[c] \cup MessagesIn(c, cursor[c] + 1 .. height[c])
  <1>1. /\ UNCHANGED bridgeVars /\ refused' = refused /\ todo' = todo /\ pc[c] = "init"
        /\ skipped' = [skipped EXCEPT ![c] = S] /\ cursor' = [cursor EXCEPT ![c] = height[c]]
    BY Zenon DEF Start
  <1>2. skipped'[c] = S /\ cursor'[c] = height[c] /\ todo[c] = {}
    BY Zenon, <1>1, Unmoved DEF AssetInv, Inv, TypeOK
  <1>3. Passes(c)
    <2>1. S \subseteq DOMAIN sent[c]
      BY Zenon, Unmoved DEF MessagesIn
    <2>2. ASSUME NEW n \in DOMAIN sent[c], cursor[c] < sent[c][n].block,
                 sent[c][n].block <= height[c]
          PROVE  n \in S
      BY SMTT(30), <2>2, Unmoved DEF MessagesIn
    <2> HIDE DEF S
    <2>3. skipped[c] \subseteq S
      BY Zenon DEF S
    <2> QED BY Zenon, <1>2, <2>1, <2>2, <2>3 DEF Passes
  <1> HIDE DEF S
  <1>4. \A d \in Chains : Passes(d)
    BY Zenon, <1>1, <1>3, Unmoved, OthersPass
  <1>5. Inv'
    BY Zenon, StartInv DEF AssetInv
  <1> QED BY Zenon, <1>1, <1>4, <1>5, QuietAssets

(* A round begins or ends. *)
LEMMA RoundAssets ==
  ASSUME AssetInv, NEW c \in Chains, Poll(c) \/ EndRound(c)
  PROVE  AssetInv'
  <1>1. UNCHANGED <<bridgeVars, refused, todo, skipped>>
    BY Zenon DEF Poll, EndRound
  <1>2. cursor' = [cursor EXCEPT ![c] = cursor[c]]
    <2>1. CASE Poll(c)
      <3>1. ~(cursor[c] > height[c])
        BY TaskHere DEF AssetInv
      <3> QED BY Zenon, <2>1, <3>1 DEF Poll
    <2>2. CASE EndRound(c)
      BY Zenon, <2>2, Unmoved DEF EndRound
    <2> QED BY Zenon, <2>1, <2>2
  <1>3. cursor' = cursor
    BY Zenon, <1>2, Unmoved
  <1>4. \A d \in Chains : Passes(d)
    BY Zenon, <1>1, <1>3, StillPasses
  <1>5. Inv'
    BY Zenon, PollInv, ScanInv DEF AssetInv
  <1> QED BY Zenon, <1>1, <1>4, <1>5, QuietAssets

(* One block is scanned: its messages are taken up, or skipped. *)
LEMMA ScanAssets ==
  ASSUME AssetInv, NEW c \in Chains, Scan(c)
  PROVE  AssetInv'
  <1> DEFINE i == cursor[c] + 1
             ms == MessagesIn(c, {i})
  <1>1. /\ UNCHANGED bridgeVars /\ refused' = refused /\ pc[c] = "scan"
        /\ cursor' = [cursor EXCEPT ![c] = i]
        /\ \/ todo' = [todo EXCEPT ![c] = ms] /\ skipped' = skipped
           \/ skipped' = [skipped EXCEPT ![c] = skipped[c] \cup ms] /\ todo' = todo
    BY Zenon DEF Scan
  <1>2. cursor'[c] = i /\ todo[c] = {} /\ ms \subseteq DOMAIN sent[c]
    BY Zenon, <1>1, Unmoved DEF AssetInv, Inv, TypeOK, MessagesIn
  <1>3. \A n \in DOMAIN sent[c] : cursor[c] < sent[c][n].block /\ sent[c][n].block <= i => n \in ms
    BY Unmoved DEF MessagesIn
  <1> HIDE DEF ms
  <1>4. PICK S, T : /\ skipped' = [skipped EXCEPT ![c] = S] /\ todo' = [todo EXCEPT ![c] = T]
                    /\ skipped[c] \subseteq S /\ S \subseteq skipped[c] \cup ms /\ ms \subseteq S \cup T
    <2>1. skipped = [skipped EXCEPT ![c] = skipped[c]] /\ todo = [todo EXCEPT ![c] = todo[c]]
      BY Zenon, Unmoved
    <2>2. CASE todo' = [todo EXCEPT ![c] = ms] /\ skipped' = skipped
      <3>1. skipped' = [skipped EXCEPT ![c] = skipped[c]]
        BY <2>1, <2>2, Zenon
      <3> QED BY Zenon, <2>2, <3>1
    <2>3. CASE skipped' = [skipped EXCEPT ![c] = skipped[c] \cup ms] /\ todo' = todo
      <3>1. todo' = [todo EXCEPT ![c] = todo[c]]
        BY <2>1, <2>3, Zenon
      <3>2. PICK S : S = skipped[c] \cup ms
        BY Zenon
      <3>3. skipped[c] \subseteq S /\ S \subseteq skipped[c] \cup ms /\ ms \subseteq S \cup todo[c]
        BY Zenon, <3>2
      <3>4. skipped' = [skipped EXCEPT ![c] = S]
        BY <2>3, <3>2, Zenon
      <3> QED BY <3>1, <3>3, <3>4, Zenon
    <2> QED BY Zenon, <1>1, <2>2, <2>3
  <1>5. skipped'[c] = S /\ todo'[c] = T
    BY Zenon, <1>4 DEF AssetInv, Inv, TypeOK
  <1>6. Passes(c)
    BY ZenonT(30), <1>2, <1>3, <1>4, <1>5, Unmoved DEF Passes
  <1>7. \A d \in Chains : Passes(d)
    BY Zenon, <1>1, <1>4, <1>6, OthersPass
  <1>8. Inv'
    BY Zenon, ScanInv DEF AssetInv
  <1> QED BY Zenon, <1>1, <1>7, <1>8, QuietAssets

(* transact raises. *)
LEMMA HandleFailsAssets ==
  ASSUME AssetInv, NEW c \in Chains, HandleFails(c)
  PROVE  AssetInv'
  <1>1. PICK n \in todo[c] : /\ todo' = [todo EXCEPT ![c] = todo[c] \ {n}]
                             /\ skipped' = [skipped EXCEPT ![c] = skipped[c] \cup {n}]
    BY Zenon DEF HandleFails, Done
  <1>2. UNCHANGED bridgeVars /\ refused' = refused /\ cursor' = cursor
    BY Zenon DEF HandleFails
  <1>3. /\ skipped'[c] = skipped[c] \cup {n} /\ todo'[c] = todo[c] \ {n} /\ cursor'[c] = cursor[c]
    BY Zenon, <1>1, <1>2 DEF AssetInv, Inv, TypeOK
  <1>4. Passes(c)
    BY <1>3, Unmoved DEF Passes
  <1>5. \A d \in Chains : Passes(d)
    BY Zenon, <1>1, <1>2, <1>4, Unmoved, OthersPass
  <1>6. Inv'
    BY Zenon, HandleInv DEF AssetInv
  <1> QED BY ZenonT(30), <1>2, <1>5, <1>6, QuietAssets

(* What Abandon leaves is skipped. *)
LEMMA AbandonPasses ==
  ASSUME AssetInv, NEW c \in Chains, Abandon(c)
  PROVE  \A d \in Chains : Passes(d)
  <1> DEFINE next == IF pc[c] = "scan" /\ cursor[c] < bound[c] THEN cursor[c] + 1 ELSE cursor[c]
             S == skipped[c] \cup todo[c] \cup MessagesIn(c, cursor[c] + 1 .. next)
  <1>1. /\ cursor' = [cursor EXCEPT ![c] = next] /\ todo' = [todo EXCEPT ![c] = {}]
        /\ skipped' = [skipped EXCEPT ![c] = S]
    BY Zenon DEF Abandon
  <1>2. next \in Nat
    BY Unmoved
  <1> HIDE DEF next
  <1>3. skipped'[c] = S /\ cursor'[c] = next
    BY Zenon, <1>1 DEF AssetInv, Inv, TypeOK
  <1>4. S \subseteq DOMAIN sent[c] /\ skipped[c] \subseteq S /\ todo[c] \subseteq S
    BY Zenon, Unmoved DEF MessagesIn
  <1>5. \A n \in DOMAIN sent[c] : cursor[c] < sent[c][n].block /\ sent[c][n].block <= next => n \in S
    BY SMTT(30), <1>2, Unmoved DEF MessagesIn
  <1> HIDE DEF S
  <1>6. Passes(c)
    BY Zenon, <1>3, <1>4, <1>5 DEF Passes
  <1> QED BY Zenon, <1>1, <1>6, OthersPass

(* Faults, and the relaunch. *)
LEMMA FaultAssets ==
  ASSUME AssetInv, \/ \E c \in Chains : ScanFails(c) \/ InitFails(c)
                   \/ Crash \/ Relaunch
  PROVE  AssetInv'
  <1>1. ASSUME NEW c \in Chains, ScanFails(c) PROVE AssetInv'
    <2>1. UNCHANGED bridgeVars /\ refused' = refused /\ Abandon(c)
      BY Zenon, <1>1 DEF ScanFails
    <2>2. Inv'
      BY Zenon, <1>1, ScanFailsInv DEF AssetInv
    <2> QED BY Zenon, <2>1, <2>2, AbandonPasses, QuietAssets
  <1>2. ASSUME NEW c \in Chains, InitFails(c) PROVE AssetInv'
    <2>1. UNCHANGED bridgeVars /\ refused' = refused
      BY Zenon, <1>2 DEF InitFails
    <2>2. UNCHANGED <<cursor, todo, skipped>> \/ Abandon(Other(c))
      BY Zenon, <1>2 DEF InitFails
    <2>3. \A d \in Chains : Passes(d)
      BY Zenon, <2>2, OtherChain, AbandonPasses, StillPasses
    <2>4. Inv'
      BY Zenon, <1>2, InitFailsInv DEF AssetInv
    <2> QED BY ZenonT(30), <2>1, <2>3, <2>4, QuietAssets
  <1>3. CASE Crash
    <2>1. /\ UNCHANGED bridgeVars /\ refused' = refused /\ cursor' = cursor
          /\ \A c \in Chains : todo'[c] = {} /\ skipped'[c] = skipped[c] \cup todo[c]
      BY Zenon, <1>3 DEF Crash
    <2>2. \A d \in Chains : Passes(d)
      BY <2>1, Unmoved DEF Passes
    <2>3. Inv'
      BY Zenon, <1>3, CrashInv DEF AssetInv
    <2> QED BY Zenon, <2>1, <2>2, <2>3, QuietAssets
  <1>4. CASE Relaunch
    <2>1. UNCHANGED <<bridgeVars, refused, cursor, todo, skipped>>
      BY Zenon, <1>4 DEF Relaunch
    <2>2. Inv'
      BY Zenon, <1>4, CrashInv DEF AssetInv
    <2> QED BY Zenon, <2>1, <2>2, StillPasses, QuietAssets
  <1> QED BY ZenonT(30), <1>1, <1>2, <1>3, <1>4

-----------------------------------------------------------------------------
(* A message is refused                                                     *)

(* Custody covers every release: what the home bridge of a token holds is   *)
(* no less than any transfer of it that is under way.                       *)
LEMMA CustodyCovers ==
  ASSUME SumLaws, AssetInv, NEW c \in Chains, NEW n \in DOMAIN sent[c], n \notin relayed[Other(c)],
         NEW t \in Tokens, sent[c][n].asset = t, Home[t] = Other(c)
  PROVE  held[Other(c)][t] >= sent[c][n].amount
  <1>1. PICK d \in Chains : d = Other(c) /\ c = Other(d)
    BY Zenon, OtherChain
  <1>2. sent \in [Chains -> Seq(Messages)] /\ t \in Assets
    BY Zenon DEF AssetInv, Inv, TypeOK, BridgeTypeOK, Assets
  <1>3. held[d][t] - Reserve[d][t] = SumFunction(balance[c][t]) + InTransit(t)
    BY Zenon, <1>1 DEF AssetInv, Backed
  <1>5. InTransit(t) = Carries(sent[c], relayed[d], t) + Carries(sent[d], relayed[c], t)
    <2>1. InTransit(t) = Carries(sent[c], relayed[Other(c)], t) + Carries(sent[Other(c)], relayed[c], t)
      BY Zenon, <1>2, TransitNow
    <2> QED BY <1>1, <2>1, Zenon
  <1>6. /\ Carries(sent[c], relayed[d], t) \in Nat /\ Carries(sent[d], relayed[c], t) \in Nat
        /\ sent[c][n].amount <= Carries(sent[c], relayed[d], t)
    BY Zenon, <1>1, <1>2, CarriesType
  <1>7. SumFunction(balance[c][t]) \in Nat
    <2>1. balance \in [Chains -> [Assets -> [Users -> Nat]]]
      BY Zenon DEF AssetInv, Inv, TypeOK, BridgeTypeOK
    <2> QED BY Zenon, <1>2, <2>1, BalanceType
  <1>8. held[d][t] \in Nat /\ Reserve[d][t] \in Nat /\ sent[c][n].amount \in Nat
    <2>1. held \in [Chains -> [Assets -> Nat]] /\ Reserve \in [Chains -> [Assets -> Nat]]
      BY ZenonT(30), BridgeAssumption DEF AssetInv, Inv, TypeOK, BridgeTypeOK
    <2> QED BY SMTT(30), <1>2, <2>1, SentType DEF AssetInv
  <1>9. held[d][t] >= sent[c][n].amount
    BY SMTT(30), <1>3, <1>5, <1>6, <1>7, <1>8
  <1> QED BY Zenon, <1>1, <1>9

(* The registration that a refused transfer to an account needs was skipped. *)
LEMMA RefusedWhy ==
  ASSUME SumLaws, AssetInv, NEW c \in Chains, NEW n \in todo[c], \A k \in todo[c] : n <= k,
         ~RelayAccepted(Other(c), n)
  PROVE  \/ Kind(c, n) = "ethIn"
         \/ /\ Kind(c, n) = "ERC20In"
            /\ \/ sent[c][n].to = Zero
               \/ \E r \in skipped[c] : /\ Kind(c, r) = "ERC20Register"
                                        /\ sent[c][r].asset = sent[c][n].asset
  <1>1. PICK d \in Chains : d = Other(c) /\ c = Other(d)
    BY Zenon, OtherChain
  <1>2. n \in DOMAIN sent[c] /\ sent[c][n].block = cursor[c] /\ n \in Nat
    BY Zenon, TaskHere DEF AssetInv, Inv, TaskOK
  <1>3. n \notin relayed[d]
    BY SMTT(30), <1>1, <1>2 DEF AssetInv, Inv, InOrder
  <1>4. PICK m : m = sent[c][n]
    BY Zenon
  <1>5. /\ m.kind \in {"ERC20Register", "ERC20In", "ethIn"} /\ m.asset \in Assets
        /\ m.asset = Eth <=> m.kind = "ethIn"
    BY Zenon, <1>2, <1>4, SentType DEF Messages, Sound, AssetInv
  <1>6. /\ m.kind # "ERC20Register"
        /\ m.kind = "ERC20In" /\ m.to # Zero => m.asset \notin local[d]
        /\ m.kind = "ERC20In" /\ m.to # Zero /\ Home[m.asset] = d => ~(held[d][m.asset] >= m.amount)
    BY <1>1, <1>3, <1>4, Zenon DEF RelayAccepted
  <1>7. ASSUME m.kind = "ERC20In", m.to # Zero
        PROVE  \E r \in skipped[c] : /\ sent[c][r].kind = "ERC20Register"
                                     /\ sent[c][r].asset = m.asset
    <2>1. m.asset \in Tokens /\ Home[m.asset] \in Chains
      BY ZenonT(30), <1>5, <1>7, BridgeAssumption DEF Assets
    <2>2. Home[m.asset] # d
      BY ZenonT(30), <1>1, <1>2, <1>3, <1>4, <1>6, <1>7, <2>1, CustodyCovers
    <2>3. Home[m.asset] = c
      BY ZenonT(30), <1>1, <2>1, <2>2, OtherChain
    <2>4. PICK r \in DOMAIN sent[c] : r < n /\ IsRegister(sent[c][r], m.asset)
      BY ZenonT(30), <1>2, <1>4, <1>7, <2>3 DEF AssetInv, TokenLog, LogTokens
    <2>5. sent[c][r].block <= cursor[c] /\ r \in Nat
      BY Zenon, <1>2, <2>4, SentType DEF AssetInv, Inv, LogOK
    <2>6. r \in relayed[d] \cup refused[c] \cup skipped[c] \cup todo[c]
      BY Zenon, <1>1, <2>5 DEF AssetInv, Covered
    <2>7. r \notin todo[c]
      BY SMTT(30), <1>2, <2>4, <2>5
    <2>8. r \notin relayed[d]
      BY ZenonT(30), <1>1, <1>6, <1>7, <2>4 DEF AssetInv, Deployed, IsRegister
    <2>9. r \notin refused[c]
      BY Zenon, <2>4 DEF AssetInv, RefusalsExplained, IsRegister, Kind
    <2> QED BY ZenonT(30), <2>4, <2>6, <2>7, <2>8, <2>9 DEF IsRegister
  <1> QED BY <1>4, <1>5, <1>6, <1>7, Zenon DEF Kind

(* The transaction of the relayer reverts. *)
LEMMA RefuseAssets ==
  ASSUME SumLaws, AssetInv, Inv', NEW c \in Chains, NEW n \in todo[c], Done(c, n),
         ~RelayAccepted(Other(c), n), refused' = [refused EXCEPT ![c] = @ \cup {n}],
         UNCHANGED <<bridgeVars, cursor, skipped>>
  PROVE  AssetInv'
  <1>1. sent' = sent /\ relayed' = relayed
    BY Zenon DEF bridgeVars
  <1>2. todo' = [todo EXCEPT ![c] = todo[c] \ {n}] /\ \A k \in todo[c] : n <= k
    BY Zenon DEF Done
  <1>3. \A e \in Chains : /\ refused'[e] = IF e = c THEN refused[e] \cup {n} ELSE refused[e]
                          /\ todo'[e] = IF e = c THEN todo[e] \ {n} ELSE todo[e]
    BY Zenon, <1>2 DEF AssetInv, Inv, TypeOK
  <1>4. Covered'
    <2> SUFFICES ASSUME NEW e \in Chains
        PROVE  /\ refused'[e] \cup skipped[e] \subseteq DOMAIN sent[e]
               /\ \A k \in DOMAIN sent[e] : sent[e][k].block <= cursor[e] =>
                    k \in relayed[Other(e)] \cup refused'[e] \cup skipped[e] \cup todo'[e]
      BY Zenon, <1>1 DEF Covered
    <2>1. /\ refused[e] \cup skipped[e] \subseteq DOMAIN sent[e]
          /\ \A k \in DOMAIN sent[e] : sent[e][k].block <= cursor[e] =>
                k \in relayed[Other(e)] \cup refused[e] \cup skipped[e] \cup todo[e]
      BY Zenon DEF AssetInv, Covered
    <2>2. n \in DOMAIN sent[c]
      BY Zenon, Unmoved
    <2>3. CASE e = c
      <3>1. refused'[e] = refused[e] \cup {n} /\ todo'[e] = todo[e] \ {n} /\ n \in DOMAIN sent[e]
        BY Zenon, <1>3, <2>2, <2>3
      <3>2. refused'[e] \cup skipped[e] \subseteq DOMAIN sent[e]
        BY Zenon, <2>1, <3>1
      <3>3. ASSUME NEW k \in DOMAIN sent[e], sent[e][k].block <= cursor[e]
            PROVE  k \in relayed[Other(e)] \cup refused'[e] \cup skipped[e] \cup todo'[e]
        BY Zenon, <2>1, <3>1, <3>3
      <3> QED BY Zenon, <3>2, <3>3
    <2>4. CASE e # c
      BY ZenonT(30), <1>3, <2>1, <2>4
    <2> QED BY ZenonT(30), <2>3, <2>4
  <1>5. RefusalsExplained'
    <2> SUFFICES ASSUME NEW e \in Chains, NEW k \in refused'[e]
        PROVE  \/ Kind(e, k) = "ethIn"
               \/ /\ Kind(e, k) = "ERC20In"
                  /\ \/ sent[e][k].to = Zero
                     \/ \E r \in skipped[e] : /\ Kind(e, r) = "ERC20Register"
                                              /\ sent[e][r].asset = sent[e][k].asset
      BY SMTT(30), <1>1 DEF RefusalsExplained, Kind
    <2>1. CASE k \in refused[e]
      BY <2>1 DEF AssetInv, RefusalsExplained
    <2>2. CASE k \notin refused[e]
      <3>1. e = c /\ k = n
        BY SMTT(30), <1>3, <2>2
      <3> QED BY <1>2, <3>1, RefusedWhy, Zenon
    <2> QED BY Zenon, <2>1, <2>2
  <1> QED BY Zenon, <1>4, <1>5, SameAssets DEF AssetInv

-----------------------------------------------------------------------------
(* A message is relayed                                                     *)

(* What is in transit is less by what the message carries. *)
LEMMA RelayTransit ==
  ASSUME SumLaws, sent \in [Chains -> Seq(Messages)], sent' = sent, NEW c \in Chains, NEW d, d = Other(c),
         NEW n \in DOMAIN sent[c], n \notin relayed[d],
         DOMAIN relayed = Chains, relayed' = [relayed EXCEPT ![d] = @ \cup {n}],
         NEW m, m = sent[c][n], NEW y
  PROVE  /\ InTransit(y) \in Nat
         /\ InTransit(y)' = InTransit(y) + When(y, m.asset, 0 - m.amount)
  <1>1. d \in Chains /\ d # c
    BY Zenon, OtherChain
  <1>2. relayed'[d] = relayed[d] \cup {n} /\ relayed'[c] = relayed[c]
    BY Zenon, <1>1
  <1>3. /\ InTransit(y) = Carries(sent[c], relayed[d], y) + Carries(sent[d], relayed[c], y)
        /\ InTransit(y)' = Carries(sent[c], relayed'[d], y) + Carries(sent[d], relayed'[c], y)
        /\ Carries(sent[c], relayed[d], y) \in Nat /\ Carries(sent[d], relayed[c], y) \in Nat
    BY ZenonT(30), TransitBoth
  <1>4. sent[c] \in Seq(Messages) /\ m \in Messages
    OBVIOUS
  <1>5. Carries(sent[c], relayed[d] \cup {n}, y) =
           Carries(sent[c], relayed[d], y) - When(m.asset, y, m.amount)
    <2>1. Carries(sent[c], relayed[d] \cup {n}, y) =
             Carries(sent[c], relayed[d], y) - When(sent[c][n].asset, y, sent[c][n].amount)
      <3>1. n \in DOMAIN sent[c] /\ n \notin relayed[d]
        BY Zenon
      <3> QED BY ONLY SumLaws, <1>4, <3>1, CarriesRelay, Zenon
    <2> QED BY <2>1, Zenon
  <1>6. m.amount \in Nat
    BY Zenon, <1>4 DEF Messages
  <1>7. InTransit(y)' = Carries(sent[c], relayed[d] \cup {n}, y) + Carries(sent[d], relayed[c], y)
    BY <1>2, <1>3, ZenonT(30)
  <1>8. CASE y = m.asset
    <2>1. Carries(sent[c], relayed[d] \cup {n}, y) = Carries(sent[c], relayed[d], y) - m.amount
      BY Zenon, <1>5, <1>8 DEF When, WhenBoth
    <2>2. InTransit(y)' = InTransit(y) + (0 - m.amount)
      BY SMTT(30), <1>3, <1>6, <1>7, <2>1
    <2> QED BY SMTT(30), <1>3, <1>8, <2>2 DEF When, WhenBoth
  <1>9. CASE y # m.asset
    <2>1. Carries(sent[c], relayed[d] \cup {n}, y) = Carries(sent[c], relayed[d], y) - 0
      BY Zenon, <1>5, <1>9 DEF When, WhenBoth
    <2> QED BY SMTT(30), <1>3, <1>7, <1>9, <2>1 DEF When, WhenBoth
  <1> QED BY Zenon, <1>8, <1>9

(* The relayed message keeps the assets backed. *)
LEMMA RelayBacked ==
  ASSUME SumLaws, AssetInv, Inv', NEW c \in Chains, NEW n \in DOMAIN sent[c],
         RelayAccepted(Other(c), n), RelayMessage(Other(c), n)
  PROVE  Backed'
  <1>1. PICK d \in Chains : d = Other(c) /\ c = Other(d) /\ d # c
    BY Zenon, OtherChain
  <1>2. PICK m : m = sent[c][n]
    BY Zenon
  <1>3. /\ m \in Messages /\ m.asset \in Assets /\ m.to \in Users /\ m.amount \in Nat
        /\ m.kind \in {"ERC20Register", "ERC20In", "ethIn"} /\ (m.asset = Eth <=> m.kind = "ethIn")
    BY Zenon, <1>2, SentType DEF Messages, Sound, AssetInv
  <1>4. /\ relayed' = [relayed EXCEPT ![d] = @ \cup {n}] /\ sent' = sent
        /\ balance' = IF m.kind = "ERC20Register" THEN balance
                      ELSE [balance EXCEPT ![d][m.asset][m.to] = @ + m.amount]
        /\ held' = IF m.kind = "ethIn" \/ (m.kind = "ERC20In" /\ m.asset \notin local[d])
                   THEN [held EXCEPT ![d][m.asset] = @ - m.amount] ELSE held
    <2>1. RelayMessage(d, n) /\ Inv /\ d = Other(c) /\ m = sent[c][n] /\ n \in DOMAIN sent[c]
      BY <1>1, <1>2, Zenon DEF AssetInv
    <2>2. Relays(d, n, m)
      BY Zenon, <2>1, RelayEffect
    <2> QED BY <2>2, Zenon DEF Relays
  <1>5. /\ n \notin relayed[d]
        /\ m.kind = "ERC20In" /\ m.asset \notin local[d] => Home[m.asset] = d
    BY <1>1, <1>2, Zenon DEF RelayAccepted
  <1>6. /\ m.kind = "ERC20Register" => m.amount = 0 /\ Home[m.asset] # d
        /\ m.asset \in local[d] => Home[m.asset] # d
    BY Zenon, <1>1, <1>2 DEF AssetInv, TokenLog, LogTokens, Deployed
  <1>7. BridgeTypeOK /\ BridgeTypeOK'
    BY Zenon DEF AssetInv, Inv, TypeOK
  <1>8. /\ sent \in [Chains -> Seq(Messages)] /\ DOMAIN relayed = Chains
        /\ balance \in [Chains -> [Assets -> [Users -> Nat]]] /\ held \in [Chains -> [Assets -> Nat]]
    BY Zenon, <1>7 DEF BridgeTypeOK
  <1> DEFINE b == IF m.kind = "ERC20Register" THEN 0 ELSE m.amount
             h == IF m.kind = "ethIn" \/ (m.kind = "ERC20In" /\ m.asset \notin local[d])
                  THEN 0 - m.amount ELSE 0
             k == 0 - m.amount
  <1>9. Carried(m.asset, k)
    <2> SUFFICES ASSUME NEW y \in Assets
        PROVE InTransit(y) \in Nat /\ InTransit(y)' = InTransit(y) + When(y, m.asset, k)
      BY Zenon DEF Carried
    <2> HIDE DEF b, h
    <2> QED BY ZenonT(30), <1>1, <1>2, <1>4, <1>5, <1>8, RelayTransit
  <1>10. Holds(d, m.asset, h)
    <2>1. CASE held' = [held EXCEPT ![d][m.asset] = @ - m.amount] /\ h = 0 - m.amount
      <3>1. held[d][m.asset] \in Nat /\ held'[d][m.asset] \in Nat
        <4>1. held' \in [Chains -> [Assets -> Nat]]
          BY Zenon, <1>7 DEF BridgeTypeOK
        <4> QED BY SMTT(30), <1>3, <1>8, <4>1
      <3>2. held'[d][m.asset] = held[d][m.asset] - m.amount
        BY Zenon, <1>3, <1>8, <2>1
      <3>3. held' = [held EXCEPT ![d][m.asset] = held'[d][m.asset]]
        BY <2>1, <3>2, Zenon
      <3>4. held'[d][m.asset] = held[d][m.asset] + h /\ h \in Int
        BY SMTT(30), <1>3, <2>1, <3>1, <3>2
      <3> HIDE DEF h
      <3> QED BY ZenonT(30), <1>3, <1>8, <3>1, <3>3, <3>4, PaidHeld
    <2>2. CASE held' = held /\ h = 0
      <3> HIDE DEF h
      <3> QED BY ZenonT(30), <1>3, <1>7, <2>2, NonePaid
    <2> QED BY ZenonT(30), <1>4, <2>1, <2>2
  <1>11. Owned(d, m.asset, b)
    <2>1. CASE m.kind = "ERC20Register"
      <3>1. balance' = balance /\ b = 0
        BY Zenon, <1>4, <2>1
      <3> HIDE DEF b
      <3> QED BY ZenonT(30), <1>3, <1>7, <3>1, NonePaid
    <2>2. CASE m.kind # "ERC20Register"
      <3>1. balance[d][m.asset][m.to] \in Nat
        BY SMTT(30), <1>3, <1>8
      <3>2. PICK v \in Nat : v = balance[d][m.asset][m.to] + m.amount
        BY SMTT(30), <1>3, <3>1
      <3>3. balance' = [balance EXCEPT ![d][m.asset][m.to] = v] /\ b = m.amount
        BY ZenonT(30), <1>4, <2>2, <3>2
      <3> HIDE DEF b
      <3>4. b \in Int /\ v = balance[d][m.asset][m.to] + b
        BY SMTT(30), <1>3, <3>2, <3>3
      <3> QED BY <1>3, <1>8, <3>3, <3>4, PaidOwned, ZenonT(30)
    <2> QED BY Zenon, <2>1, <2>2
  <1>12. /\ m.asset = Eth => h = k
         /\ m.asset # Eth /\ Home[m.asset] = d => h = k
         /\ m.asset # Eth /\ Home[m.asset] # d => b + k = 0
    BY SMTT(30), <1>3, <1>5, <1>6
  <1>13. h \in Int /\ b \in Int /\ k \in Int
    BY SMTT(30), <1>3
  <1> HIDE DEF h, b, k
  <1> QED BY ZenonT(30), <1>3, <1>7, <1>9, <1>10, <1>11, <1>12, <1>13, BackedKept DEF AssetInv

(* The transaction of the relayer is mined. *)
LEMMA RelayAssets ==
  ASSUME SumLaws, AssetInv, Inv', NEW c \in Chains, NEW n \in todo[c], Done(c, n),
         RelayAccepted(Other(c), n), RelayMessage(Other(c), n),
         UNCHANGED <<cursor, refused, skipped>>
  PROVE  AssetInv'
  <1>1. PICK d \in Chains : d = Other(c) /\ c = Other(d) /\ d # c
    BY Zenon, OtherChain
  <1>2. n \in DOMAIN sent[c]
    BY Zenon, Unmoved
  <1>3. PICK m : m = sent[c][n]
    BY Zenon
  <1>4. /\ relayed' = [relayed EXCEPT ![d] = @ \cup {n}] /\ sent' = sent /\ registered' = registered
        /\ local' = IF m.kind = "ERC20Register" THEN [local EXCEPT ![d] = @ \cup {m.asset}] ELSE local
    <2>1. RelayMessage(d, n) /\ Inv /\ d = Other(c) /\ m = sent[c][n] /\ n \in DOMAIN sent[c]
      BY <1>1, <1>2, <1>3, ZenonT(30) DEF AssetInv
    <2>2. Relays(d, n, m)
      BY Zenon, <2>1, RelayEffect
    <2> QED BY <2>2, Zenon DEF Relays
  <1>5. todo' = [todo EXCEPT ![c] = todo[c] \ {n}]
    BY Zenon DEF Done
  <1>6. /\ relayed'[d] = relayed[d] \cup {n} /\ relayed'[c] = relayed[c]
        /\ todo'[c] = todo[c] \ {n} /\ todo'[d] = todo[d]
        /\ local'[c] = local[c] /\ local[d] \subseteq local'[d]
        /\ m.kind = "ERC20Register" => m.asset \in local'[d]
        /\ \A t \in local'[d] : t \in local[d] \/ (m.kind = "ERC20Register" /\ t = m.asset)
    BY ZenonT(30), <1>1, <1>4, <1>5 DEF AssetInv, Inv, TypeOK, BridgeTypeOK
  <1>7. TokenLog' /\ Registered'
    BY ZenonT(30), <1>4 DEF AssetInv, TokenLog, Registered
  <1>8. Chains = {c, d}
    BY SMTT(30), <1>1, OtherChain
  <1>9. Deployed'
    <2>1. /\ \A t \in local[c] : Home[t] # c
          /\ \A t \in local[d] : Home[t] # d
          /\ \A k \in relayed[d] : sent[c][k].kind = "ERC20Register" => sent[c][k].asset \in local[d]
          /\ \A k \in relayed[c] : sent[d][k].kind = "ERC20Register" => sent[d][k].asset \in local[c]
      BY Zenon, <1>1 DEF AssetInv, Deployed
    <2>2. m.kind = "ERC20Register" => Home[m.asset] # d
      BY Zenon, <1>1, <1>2, <1>3 DEF AssetInv, TokenLog, LogTokens
    <2>3. \A t \in local'[d] : Home[t] # d
      BY ZenonT(30), <1>6, <2>1, <2>2
    <2>4. \A k \in relayed'[d] : sent[c][k].kind = "ERC20Register" => sent[c][k].asset \in local'[d]
      BY Zenon, <1>3, <1>6, <2>1
    <2>5. \A e \in Chains :
            /\ \A t \in local'[e] : Home[t] # e
            /\ \A k \in relayed'[Other(e)] :
                  sent[e][k].kind = "ERC20Register" => sent[e][k].asset \in local'[Other(e)]
      BY ZenonT(30), <1>1, <1>6, <1>8, <2>1, <2>3, <2>4
    <2> QED BY Zenon, <1>4, <2>5 DEF Deployed
  <1>10. Covered'
    <2> SUFFICES ASSUME NEW e \in Chains
        PROVE  /\ refused[e] \cup skipped[e] \subseteq DOMAIN sent[e]
               /\ \A k \in DOMAIN sent[e] : sent[e][k].block <= cursor[e] =>
                    k \in relayed'[Other(e)] \cup refused[e] \cup skipped[e] \cup todo'[e]
      BY ZenonT(30), <1>4 DEF Covered
    <2>1. /\ refused[e] \cup skipped[e] \subseteq DOMAIN sent[e]
          /\ \A k \in DOMAIN sent[e] : sent[e][k].block <= cursor[e] =>
                k \in relayed[Other(e)] \cup refused[e] \cup skipped[e] \cup todo[e]
      BY ZenonT(30) DEF AssetInv, Covered
    <2>2. relayed[Other(e)] \cup todo[e] \subseteq relayed'[Other(e)] \cup todo'[e]
      BY ZenonT(30), <1>1, <1>6, <1>8
    <2> QED BY ZenonT(30), <2>1, <2>2
  <1>11. RefusalsExplained'
    BY SMTT(30), <1>4 DEF AssetInv, RefusalsExplained, Kind
  <1>12. Backed'
    BY Zenon, <1>2, RelayBacked
  <1> QED BY Zenon, <1>7, <1>9, <1>10, <1>11, <1>12 DEF AssetInv

-----------------------------------------------------------------------------
(* A user's transaction                                                     *)

(* The messages it sends are in a block that no task has reached. *)
LEMMA SendAssets ==
  ASSUME AssetInv, NEW c \in Chains, NEW ms \in Seq(Messages), SendRemoteMessages(c, ms),
         \A i \in 1 .. Len(ms) : ms[i].block = height[c] + 1,
         UNCHANGED <<local, relayed>>, UNCHANGED relayerVars,
         LogTokens(sent[c] \o ms, c),
         \A t \in registered'[c] : HasRegister(sent[c] \o ms, t),
         \A d \in Chains : d # c => registered'[d] = registered[d]
  PROVE  TokenLog' /\ Registered' /\ Deployed' /\ Covered' /\ RefusalsExplained'
  <1>1. /\ sent \in [Chains -> Seq(Messages)] /\ sent' = [sent EXCEPT ![c] = sent[c] \o ms]
        /\ height[c] \in Nat /\ cursor[c] \in Nat /\ cursor[c] <= height[c]
    BY Zenon, TaskHere DEF SendRemoteMessages, AssetInv, Inv, TypeOK, BridgeTypeOK
  <1>2. /\ DOMAIN sent[c] = 1 .. Len(sent[c]) /\ Len(sent[c]) \in Nat /\ Len(ms) \in Nat
        /\ DOMAIN (sent[c] \o ms) = 1 .. (Len(sent[c]) + Len(ms))
        /\ \A n \in DOMAIN sent[c] : (sent[c] \o ms)[n] = sent[c][n]
        /\ \A n \in DOMAIN (sent[c] \o ms) : n \notin DOMAIN sent[c] =>
              (sent[c] \o ms)[n].block = height[c] + 1
    <2>1. PICK q \in Seq(Messages) : q = sent[c]
      BY Zenon, <1>1
    <2>2. /\ DOMAIN q = 1 .. Len(q) /\ DOMAIN (q \o ms) = 1 .. (Len(q) + Len(ms))
          /\ Len(q) \in Nat /\ Len(ms) \in Nat
          /\ \A n \in 1 .. Len(q) : (q \o ms)[n] = q[n]
      BY Appended
    <2>3. ASSUME NEW n \in DOMAIN (q \o ms), n \notin DOMAIN q
          PROVE  (q \o ms)[n].block = height[c] + 1
      <3>1. n > Len(q) /\ n - Len(q) \in 1 .. Len(ms) /\ n \in 1 .. (Len(q) + Len(ms))
        BY SMTT(30), <2>2, <2>3
      <3>2. (q \o ms)[n] = ms[n - Len(q)]
        BY ZenonT(30), <3>1, Appended
      <3> QED BY ZenonT(30), <3>1, <3>2
    <2> QED BY ZenonT(30), <2>1, <2>2, <2>3
  <1>3. sent'[c] = sent[c] \o ms /\ \A d \in Chains : d # c => sent'[d] = sent[d]
    BY ZenonT(30), <1>1
  <1>4. \A d \in Chains : \A n \in DOMAIN sent[d] : n \in DOMAIN sent'[d] /\ sent'[d][n] = sent[d][n]
    BY SMTT(30), <1>2, <1>3
  <1>5. /\ local' = local /\ relayed' = relayed /\ cursor' = cursor /\ todo' = todo
        /\ refused' = refused /\ skipped' = skipped
    BY Zenon DEF relayerVars
  <1>6. TokenLog'
    <2>1. \A d \in Chains : LogTokens(sent'[d], d)
      BY Zenon, <1>3 DEF AssetInv, TokenLog
    <2> QED BY Zenon, <2>1 DEF TokenLog
  <1>7. Registered'
    <2>1. \A d \in Chains : \A t \in registered'[d] : HasRegister(sent'[d], t)
      BY ZenonT(30), <1>3 DEF AssetInv, Registered
    <2> QED BY Zenon, <2>1 DEF Registered
  <1>8. Deployed'
    <2>1. \A d \in Chains : \A n \in relayed[Other(d)] : n \in DOMAIN sent[d]
      BY Zenon DEF AssetInv, Inv, TaskOK
    <2> QED BY SMTT(30), <1>4, <1>5, <2>1 DEF AssetInv, Deployed
  <1>9. Covered'
    <2> SUFFICES ASSUME NEW d \in Chains
        PROVE  /\ refused[d] \cup skipped[d] \subseteq DOMAIN sent'[d]
               /\ \A n \in DOMAIN sent'[d] : sent'[d][n].block <= cursor[d] =>
                    n \in relayed[Other(d)] \cup refused[d] \cup skipped[d] \cup todo[d]
      BY Zenon, <1>5 DEF Covered
    <2>1. /\ refused[d] \cup skipped[d] \subseteq DOMAIN sent[d]
          /\ \A n \in DOMAIN sent[d] : sent[d][n].block <= cursor[d] =>
                n \in relayed[Other(d)] \cup refused[d] \cup skipped[d] \cup todo[d]
      BY Zenon DEF AssetInv, Covered
    <2>2. ASSUME NEW n \in DOMAIN sent'[d], sent'[d][n].block <= cursor[d] PROVE n \in DOMAIN sent[d]
      <3>1. CASE d # c
        BY ZenonT(30), <1>3, <3>1
      <3>2. CASE d = c /\ n \notin DOMAIN sent[c]
        <4>1. sent'[d][n].block = height[c] + 1
          BY Zenon, <1>2, <1>3, <3>2
        <4> QED BY SMTT(30), <1>1, <2>2, <3>2, <4>1
      <3> QED BY Zenon, <3>1, <3>2
    <2>3. ASSUME NEW n \in DOMAIN sent'[d], sent'[d][n].block <= cursor[d]
          PROVE  n \in relayed[Other(d)] \cup refused[d] \cup skipped[d] \cup todo[d]
      <3>1. n \in DOMAIN sent[d] /\ sent[d][n].block <= cursor[d]
        BY ZenonT(30), <1>4, <2>2, <2>3
      <3> QED BY ZenonT(30), <2>1, <3>1
    <2> QED BY ZenonT(30), <1>4, <2>1, <2>3
  <1>10. RefusalsExplained'
    <2> SUFFICES ASSUME NEW d \in Chains, NEW n \in refused[d]
        PROVE  \/ sent'[d][n].kind = "ethIn"
               \/ /\ sent'[d][n].kind = "ERC20In"
                  /\ \/ sent'[d][n].to = Zero
                     \/ \E r \in skipped[d] : /\ sent'[d][r].kind = "ERC20Register"
                                              /\ sent'[d][r].asset = sent'[d][n].asset
      BY SMTT(30), <1>5 DEF RefusalsExplained, Kind
    <2>1. \/ sent[d][n].kind = "ethIn"
          \/ /\ sent[d][n].kind = "ERC20In"
             /\ \/ sent[d][n].to = Zero
                \/ \E r \in skipped[d] : /\ sent[d][r].kind = "ERC20Register"
                                         /\ sent[d][r].asset = sent[d][n].asset
      BY SMTT(30) DEF AssetInv, RefusalsExplained, Kind
    <2>2. refused[d] \cup skipped[d] \subseteq DOMAIN sent[d]
      BY Zenon DEF AssetInv, Covered
    <2>3. \A r \in refused[d] \cup skipped[d] : sent'[d][r] = sent[d][r]
      BY ZenonT(30), <1>4, <2>2
    <2> QED BY ZenonT(30), <2>1, <2>3
  <1> QED BY Zenon, <1>6, <1>7, <1>8, <1>9, <1>10

(* What is in transit is more by what the new messages carry. *)
LEMMA SendTransit ==
  ASSUME SumLaws, AssetInv, Inv', NEW c \in Chains, NEW ms, SendRemoteMessages(c, ms), relayed' = relayed,
         NEW x \in Assets, NEW a \in Nat,
         Grows(c, ms, x, a)
  PROVE  Carried(x, a)
  <1> SUFFICES ASSUME NEW y \in Assets
      PROVE  InTransit(y) \in Nat /\ InTransit(y)' = InTransit(y) + When(y, x, a)
    BY Zenon DEF Carried
  <1>1. /\ sent \in [Chains -> Seq(Messages)] /\ sent' \in [Chains -> Seq(Messages)]
    BY Zenon DEF AssetInv, Inv, TypeOK, BridgeTypeOK
  <1>2. PICK d \in Chains : d = Other(c) /\ d # c
    BY Zenon, OtherChain
  <1>3. sent'[c] = sent[c] \o ms /\ sent'[d] = sent[d]
    BY ZenonT(30), <1>1, <1>2 DEF SendRemoteMessages
  <1>4. /\ InTransit(y) = Carries(sent[c], relayed[d], y) + Carries(sent[d], relayed[c], y)
        /\ InTransit(y)' = Carries(sent'[c], relayed[d], y) + Carries(sent'[d], relayed[c], y)
        /\ Carries(sent[c], relayed[d], y) \in Nat /\ Carries(sent[d], relayed[c], y) \in Nat
    BY Zenon, <1>1, <1>2, TransitBoth
  <1>5. Carries(sent'[c], relayed[d], y) = Carries(sent[c], relayed[d], y) + When(x, y, a)
    BY ZenonT(30), <1>2, <1>3 DEF Grows
  <1>6. When(x, y, a) = When(y, x, a) /\ When(x, y, a) \in Nat
    BY Zenon DEF When
  <1>7. InTransit(y)' = (Carries(sent[c], relayed[d], y) + When(y, x, a)) + Carries(sent[d], relayed[c], y)
    BY <1>3, <1>4, <1>5, <1>6, ZenonT(30)
  <1>8. InTransit(y) \in Nat
    BY SMTT(30), <1>4
  <1> QED BY ONLY SMTT(30), <1>4, <1>6, <1>7, <1>8

(* What a user pays to the bridge. *)
LEMMA PaidOut ==
  ASSUME SumLaws, AssetInv, NEW c \in Chains, NEW x \in Assets, NEW u \in Users, NEW a \in Nat
  PROVE  /\ balance[c][x][u] >= a /\ balance' = [balance EXCEPT ![c][x][u] = @ - a] => Owned(c, x, 0 - a)
         /\ held' = [held EXCEPT ![c][x] = @ + a] => Holds(c, x, a)
  <1>1. balance \in [Chains -> [Assets -> [Users -> Nat]]] /\ held \in [Chains -> [Assets -> Nat]]
    BY Zenon DEF AssetInv, Inv, TypeOK, BridgeTypeOK
  <1>2. balance[c][x][u] \in Nat /\ held[c][x] \in Nat
    BY SMTT(30), <1>1
  <1>3. ASSUME balance[c][x][u] >= a, balance' = [balance EXCEPT ![c][x][u] = @ - a]
        PROVE  Owned(c, x, 0 - a)
    <2>1. PICK v \in Nat : v = balance[c][x][u] - a
      BY <1>2, <1>3
    <2>2. balance' = [balance EXCEPT ![c][x][u] = v]
      BY <1>3, <2>1, Zenon
    <2>3. PICK b \in Int : b = 0 - a
      OBVIOUS
    <2>4. v = balance[c][x][u] + b
      BY SMTT(30), <1>2, <2>1, <2>3
    <2>5. Owned(c, x, b)
      BY ONLY ZenonT(30), SumLaws, <1>1, <2>2, <2>4, c \in Chains, x \in Assets, u \in Users, v \in Nat, b \in Int, PaidOwned
    <2> QED BY <2>3, <2>5, Zenon
  <1>4. ASSUME held' = [held EXCEPT ![c][x] = @ + a] PROVE Holds(c, x, a)
    <2>1. PICK v \in Nat : v = held[c][x] + a
      BY <1>2
    <2>2. held' = [held EXCEPT ![c][x] = v]
      BY <1>4, <2>1, Zenon
    <2> QED BY ONLY SumLaws, <1>1, <2>1, <2>2, c \in Chains, x \in Assets, v \in Nat, a \in Int, a \in Nat, PaidHeld
  <1> QED BY Zenon, <1>3, <1>4

(* One message, of a transfer. *)
LEMMA TransferLog ==
  ASSUME SumLaws, AssetInv, NEW c \in Chains, NEW m \in Messages, m.kind # "ERC20Register",
         m.kind = "ERC20In" /\ Home[m.asset] = c => m.asset \in registered[c]
  PROVE  /\ LogTokens(sent[c] \o <<m>>, c)
         /\ \A t \in registered[c] : HasRegister(sent[c] \o <<m>>, t)
         /\ Grows(c, <<m>>, m.asset, m.amount)
  <1>1. /\ sent[c] \in Seq(Messages) /\ relayed[Other(c)] \subseteq DOMAIN sent[c]
        /\ LogTokens(sent[c], c) /\ \A t \in registered[c] : HasRegister(sent[c], t)
    BY Zenon DEF AssetInv, Inv, TypeOK, BridgeTypeOK, TaskOK, TokenLog, Registered
  <1>2. m.kind = "ERC20In" /\ Home[m.asset] = c => HasRegister(sent[c], m.asset)
    BY Zenon, <1>1
  <1>3. /\ LogTokens(sent[c] \o <<m>>, c)
        /\ \A t : HasRegister(sent[c], t) \/ IsRegister(m, t) => HasRegister(sent[c] \o <<m>>, t)
    BY ZenonT(30), <1>1, <1>2, LogAppend
  <1>4. Grows(c, <<m>>, m.asset, m.amount)
    BY ZenonT(30), <1>1, CarriesSend DEF Grows
  <1> QED BY Zenon, <1>1, <1>3, <1>4

(* The first transfer of a token, after its registration. *)
LEMMA FirstLog ==
  ASSUME SumLaws, AssetInv, NEW c \in Chains, NEW r \in Messages, NEW m \in Messages,
         r.kind = "ERC20Register", r.amount = 0, Home[r.asset] = c, m.kind = "ERC20In", m.asset = r.asset
  PROVE  /\ LogTokens(sent[c] \o <<r, m>>, c)
         /\ \A t \in registered[c] \cup {m.asset} : HasRegister(sent[c] \o <<r, m>>, t)
         /\ Grows(c, <<r, m>>, m.asset, m.amount)
  <1>1. /\ sent[c] \in Seq(Messages) /\ relayed[Other(c)] \subseteq DOMAIN sent[c]
        /\ LogTokens(sent[c], c) /\ \A t \in registered[c] : HasRegister(sent[c], t)
    BY Zenon DEF AssetInv, Inv, TypeOK, BridgeTypeOK, TaskOK, TokenLog, Registered
  <1>2. /\ LogTokens(sent[c] \o <<r, m>>, c)
        /\ \A t : HasRegister(sent[c], t) \/ IsRegister(r, t) => HasRegister(sent[c] \o <<r, m>>, t)
    BY Zenon, <1>1, LogAppendTwo
  <1>3. IsRegister(r, m.asset)
    BY Zenon DEF IsRegister
  <1>4. Grows(c, <<r, m>>, m.asset, m.amount)
    <2>1. ASSUME NEW y \in Assets
          PROVE  Carries(sent[c] \o <<r, m>>, relayed[Other(c)], y)
                   = Carries(sent[c], relayed[Other(c)], y) + When(m.asset, y, m.amount)
      <3> DEFINE s == sent[c]
                 R == relayed[Other(c)]
      <3>1. s \in Seq(Messages) /\ R \subseteq DOMAIN s /\ r.amount = 0
        BY Zenon, <1>1
      <3> HIDE DEF s, R
      <3>2. Carries(s \o <<r, m>>, R, y) = Carries(s, R, y) + When(m.asset, y, m.amount)
        BY ONLY SMTT(30), SumLaws, <3>1, r \in Messages, m \in Messages, CarriesSendTwo
      <3> QED BY Zenon, <3>2 DEF s, R
    <2> QED BY Zenon, <2>1 DEF Grows
  <1> QED BY Zenon, <1>1, <1>2, <1>3, <1>4

(* A transfer of a of asset x leaves chain c: the user's funds are locked   *)
(* there or, if it is a bridged token, burnt.                               *)
LEMMA LeavesBacked ==
  ASSUME SumLaws, AssetInv, Inv', NEW c \in Chains, NEW x \in Assets, NEW a \in Nat, Carried(x, a),
         Owned(c, x, 0 - a),
         \/ Holds(c, x, a) /\ (x # Eth => Home[x] = c)
         \/ Holds(c, x, 0) /\ x # Eth /\ Home[x] # c
  PROVE  Backed'
  <1>1. BridgeTypeOK /\ BridgeTypeOK' /\ Backed
    BY Zenon DEF AssetInv, Inv, TypeOK
  <1>2. PICK b \in Int : b = 0 - a /\ b + a = 0
    OBVIOUS
  <1>3. Owned(c, x, b)
    BY <1>2, Zenon
  <1>4. CASE Holds(c, x, a) /\ (x # Eth => Home[x] = c)
    BY ONLY SMTT(30), SumLaws, <1>1, <1>2, <1>3, <1>4, c \in Chains, x \in Assets, a \in Int, b \in Int, Carried(x, a), a \in Nat, BackedKept
  <1>5. CASE Holds(c, x, 0) /\ x # Eth /\ Home[x] # c
    BY ONLY SMTT(30), SumLaws, <1>1, <1>2, <1>3, <1>5, c \in Chains, x \in Assets, a \in Int, b \in Int, Carried(x, a), a \in Nat, BackedKept
  <1> QED BY ZenonT(30), <1>4, <1>5

(* ethOut and receive. *)
LEMMA EthOutAssets ==
  ASSUME SumLaws, AssetInv, Inv', NEW c \in Chains, NEW u \in Users, NEW to \in Users, NEW a \in Nat,
         NEW direct \in BOOLEAN, EthOut(c, u, to, a, direct), UNCHANGED relayerVars
  PROVE  AssetInv'
  <1> DEFINE m == Message(c, "ethIn", Eth, to, a, direct)
  <1>0. Eth \in Assets /\ Inv
    BY Zenon DEF Assets, AssetInv
  <1>1. m \in Messages /\ Sound(m) /\ m.block = height[c] + 1
    <2>1. Fresh(m, c)
      BY Zenon, <1>0, NewMessage
    <2> QED BY Zenon, <2>1 DEF Fresh
  <1>2. m.kind = "ethIn" /\ m.asset = Eth /\ m.amount = a
    BY Zenon DEF Message
  <1>3. /\ SendRemoteMessages(c, <<m>>) /\ local' = local /\ relayed' = relayed
        /\ registered' = registered
    BY Zenon DEF EthOut
  <1>4. Owned(c, Eth, 0 - a) /\ Holds(c, Eth, a)
    <2>1. /\ balance[c][Eth][u] >= a /\ balance' = [balance EXCEPT ![c][Eth][u] = @ - a]
          /\ held' = [held EXCEPT ![c][Eth] = @ + a]
      BY Zenon DEF EthOut
    <2> QED BY ZenonT(30), <1>0, <2>1, PaidOut
  <1> HIDE DEF m
  <1>5. <<m>> \in Seq(Messages) /\ \A i \in 1 .. Len(<<m>>) : <<m>>[i].block = height[c] + 1
    BY <1>1, NewMessages
  <1>6. /\ LogTokens(sent[c] \o <<m>>, c)
        /\ \A t \in registered[c] : HasRegister(sent[c] \o <<m>>, t)
        /\ Grows(c, <<m>>, m.asset, m.amount)
    BY Zenon, <1>1, <1>2, TransferLog
  <1>7. Carried(Eth, a)
    <2>1. Grows(c, <<m>>, Eth, a)
      BY Zenon, <1>2, <1>6
    <2> QED BY Zenon, <1>0, <1>3, <2>1, SendTransit
  <1>8. Backed'
    BY ZenonT(30), <1>0, <1>4, <1>7, LeavesBacked
  <1>9. TokenLog' /\ Registered' /\ Deployed' /\ Covered' /\ RefusalsExplained'
    BY Zenon, <1>3, <1>5, <1>6, SendAssets
  <1> QED BY ZenonT(30), <1>8, <1>9 DEF AssetInv

(* ERC20Out of a bridged token. *)
LEMMA BurnAssets ==
  ASSUME SumLaws, AssetInv, Inv', NEW c \in Chains, NEW u \in Users, NEW t \in Tokens, NEW to \in Users,
         NEW a \in Nat, NEW direct \in BOOLEAN, ERC20OutBurn(c, u, t, to, a, direct),
         UNCHANGED relayerVars
  PROVE  AssetInv'
  <1> DEFINE m == Message(c, "ERC20In", t, to, a, direct)
  <1>0. t \in Assets /\ t # Eth /\ Home[t] # c /\ Inv
    BY Zenon, BridgeAssumption DEF Assets, AssetInv, Deployed, ERC20OutBurn
  <1>1. m \in Messages /\ Sound(m) /\ m.block = height[c] + 1
    <2>1. Fresh(m, c)
      BY Zenon, <1>0, NewMessage
    <2> QED BY Zenon, <2>1 DEF Fresh
  <1>2. m.kind = "ERC20In" /\ m.asset = t /\ m.amount = a
    BY Zenon DEF Message
  <1>3. /\ SendRemoteMessages(c, <<m>>) /\ local' = local /\ relayed' = relayed
        /\ registered' = registered
    BY Zenon DEF ERC20OutBurn
  <1>4. Owned(c, t, 0 - a) /\ Holds(c, t, 0)
    <2>1. /\ balance[c][t][u] >= a /\ balance' = [balance EXCEPT ![c][t][u] = @ - a]
          /\ held' = held /\ BridgeTypeOK
      BY Zenon DEF ERC20OutBurn, AssetInv, Inv, TypeOK
    <2> QED BY ZenonT(30), <1>0, <2>1, PaidOut, NonePaid
  <1> HIDE DEF m
  <1>5. <<m>> \in Seq(Messages) /\ \A i \in 1 .. Len(<<m>>) : <<m>>[i].block = height[c] + 1
    BY SMTT(30), <1>1, NewMessages
  <1>6. /\ LogTokens(sent[c] \o <<m>>, c)
        /\ \A k \in registered[c] : HasRegister(sent[c] \o <<m>>, k)
        /\ Grows(c, <<m>>, m.asset, m.amount)
    BY ZenonT(30), <1>0, <1>1, <1>2, TransferLog
  <1>7. Carried(t, a)
    <2>1. Grows(c, <<m>>, t, a)
      BY Zenon, <1>2, <1>6
    <2> QED BY ZenonT(30), <1>0, <1>3, <2>1, SendTransit
  <1>8. Backed'
    BY ZenonT(30), <1>0, <1>4, <1>7, LeavesBacked
  <1>9. TokenLog' /\ Registered' /\ Deployed' /\ Covered' /\ RefusalsExplained'
    BY ZenonT(30), <1>3, <1>5, <1>6, SendAssets
  <1> QED BY Zenon, <1>8, <1>9 DEF AssetInv

(* ERC20Out of a native token. *)
LEMMA LockAssets ==
  ASSUME SumLaws, AssetInv, Inv', NEW c \in Chains, NEW u \in Users, NEW t \in Tokens, NEW to \in Users,
         NEW a \in Nat, NEW direct \in BOOLEAN, ERC20OutLock(c, u, t, to, a, direct),
         UNCHANGED relayerVars
  PROVE  AssetInv'
  <1> DEFINE m == Message(c, "ERC20In", t, to, a, direct)
             r == Message(c, "ERC20Register", t, to, 0, direct)
  <1>0. t \in Assets /\ t # Eth /\ Home[t] = c /\ Inv
    BY Zenon, BridgeAssumption DEF Assets, AssetInv, ERC20OutLock
  <1>1. /\ m \in Messages /\ Sound(m) /\ m.block = height[c] + 1
        /\ r \in Messages /\ Sound(r) /\ r.block = height[c] + 1
    <2>1. Fresh(m, c) /\ Fresh(r, c)
      BY ZenonT(30), <1>0, NewMessage
    <2> QED BY Zenon, <2>1 DEF Fresh
  <1>2. /\ m.kind = "ERC20In" /\ m.asset = t /\ m.amount = a
        /\ r.kind = "ERC20Register" /\ r.asset = t /\ r.amount = 0
    BY Zenon DEF Message
  <1>3. /\ local' = local /\ relayed' = relayed /\ registered' = [registered EXCEPT ![c] = @ \cup {t}]
        /\ SendRemoteMessages(c, IF t \in registered[c] THEN <<m>> ELSE <<r, m>>)
    BY Zenon DEF ERC20OutLock
  <1>4. Owned(c, t, 0 - a) /\ Holds(c, t, a)
    <2>1. /\ balance[c][t][u] >= a /\ balance' = [balance EXCEPT ![c][t][u] = @ - a]
          /\ held' = [held EXCEPT ![c][t] = @ + a]
      BY Zenon DEF ERC20OutLock
    <2> QED BY ZenonT(30), <1>0, <2>1, PaidOut
  <1> HIDE DEF m, r
  <1>5. /\ <<m>> \in Seq(Messages) /\ \A i \in 1 .. Len(<<m>>) : <<m>>[i].block = height[c] + 1
        /\ <<r, m>> \in Seq(Messages)
        /\ \A i \in 1 .. Len(<<r, m>>) : <<r, m>>[i].block = height[c] + 1
    BY SMTT(30), <1>1, NewMessages
  <1>6. /\ registered'[c] = registered[c] \cup {t}
        /\ \A d \in Chains : d # c => registered'[d] = registered[d]
    BY Zenon, <1>0, <1>3 DEF Inv, TypeOK, BridgeTypeOK
  <1>7. ASSUME NEW ms \in Seq(Messages), SendRemoteMessages(c, ms),
               \A i \in 1 .. Len(ms) : ms[i].block = height[c] + 1, LogTokens(sent[c] \o ms, c),
               \A k \in registered'[c] : HasRegister(sent[c] \o ms, k),
               Grows(c, ms, t, a)
        PROVE  AssetInv'
    <2>1. Carried(t, a)
      BY Zenon, <1>0, <1>3, <1>7, SendTransit
    <2>2. Backed'
      BY ZenonT(30), <1>0, <1>4, <2>1, LeavesBacked
    <2>3. TokenLog' /\ Registered' /\ Deployed' /\ Covered' /\ RefusalsExplained'
      BY Zenon, <1>3, <1>6, <1>7, SendAssets
    <2> QED BY Zenon, <2>2, <2>3 DEF AssetInv
  <1>8. CASE t \in registered[c]
    <2>1. SendRemoteMessages(c, <<m>>) /\ registered'[c] = registered[c]
      BY ZenonT(30), <1>3, <1>6, <1>8
    <2>2. /\ LogTokens(sent[c] \o <<m>>, c)
          /\ \A k \in registered[c] : HasRegister(sent[c] \o <<m>>, k)
          /\ Grows(c, <<m>>, m.asset, m.amount)
      BY ZenonT(30), <1>1, <1>2, <1>8, TransferLog
    <2> QED BY ZenonT(30), <1>2, <1>5, <1>7, <2>1, <2>2
  <1>9. CASE t \notin registered[c]
    <2>1. SendRemoteMessages(c, <<r, m>>)
      BY Zenon, <1>3, <1>9
    <2>2. /\ LogTokens(sent[c] \o <<r, m>>, c)
          /\ \A k \in registered[c] \cup {m.asset} : HasRegister(sent[c] \o <<r, m>>, k)
          /\ Grows(c, <<r, m>>, m.asset, m.amount)
      BY ZenonT(30), <1>0, <1>1, <1>2, FirstLog
    <2> QED BY ZenonT(30), <1>2, <1>5, <1>6, <1>7, <2>1, <2>2
  <1> QED BY ZenonT(30), <1>8, <1>9

-----------------------------------------------------------------------------
(* Every step                                                               *)

(* The transactions of users keep AssetInv. *)
LEMMA UserAssets ==
  ASSUME SumLaws, AssetInv, NEW c \in Chains, UserStep(c)
  PROVE  AssetInv'
  <1>1. Inv'
    BY Zenon, UserStepInv DEF AssetInv
  <1>2. PICK u \in Users, to \in Users, a \in Amounts, direct \in BOOLEAN :
          \/ EthOut(c, u, to, a, direct)
          \/ \E t \in Tokens :
               ERC20OutBurn(c, u, t, to, a, direct) \/ ERC20OutLock(c, u, t, to, a, direct)
    BY Zenon DEF UserStep, UserSends
  <1>3. a \in Nat /\ UNCHANGED relayerVars
    BY Zenon, BridgeAssumption DEF UserStep, UserSends
  <1> QED BY ZenonT(30), <1>1, <1>2, <1>3, EthOutAssets, BurnAssets, LockAssets

(* relayMessage, accepted or refused, keeps AssetInv. *)
LEMMA HandleAssets ==
  ASSUME SumLaws, AssetInv, NEW c \in Chains, Handle(c)
  PROVE  AssetInv'
  <1>1. Inv'
    BY Zenon, HandleInv DEF AssetInv
  <1>2. PICK n \in todo[c] :
          /\ Done(c, n)
          /\ IF RelayAccepted(Other(c), n)
             THEN RelayMessage(Other(c), n) /\ UNCHANGED refused
             ELSE /\ refused' = [refused EXCEPT ![c] = @ \cup {n}]
                  /\ UNCHANGED bridgeVars
    BY Zenon DEF Handle
  <1>3. UNCHANGED <<cursor, skipped>>
    BY ZenonT(30) DEF Handle
  <1>4. CASE RelayAccepted(Other(c), n)
    BY ZenonT(30), <1>1, <1>2, <1>3, <1>4, RelayAssets
  <1>5. CASE ~RelayAccepted(Other(c), n)
    BY ZenonT(30), <1>1, <1>2, <1>3, <1>5, RefuseAssets
  <1> QED BY Zenon, <1>4, <1>5

(* Every step keeps AssetInv. *)
LEMMA NextAssets ==
  ASSUME SumLaws, AssetInv, [Next]_vars
  PROVE  AssetInv'
  <1>1. CASE UNCHANGED vars
    <2>1. Inv'
      BY ZenonT(30), <1>1, NextInv DEF AssetInv
    <2>2. UNCHANGED bridgeVars /\ UNCHANGED <<cursor, todo, refused, skipped>>
      BY Zenon, <1>1 DEF vars, relayerVars
    <2>3. \A c \in Chains : Passes(c)
      BY Zenon, <2>2, StillPasses
    <2> QED BY ZenonT(30), <2>1, <2>2, <2>3, QuietAssets
  <1>2. ASSUME NEW c \in Chains,
               \/ UserStep(c) \/ TaskStep(c) \/ ScanFails(c) \/ HandleFails(c) \/ InitFails(c)
        PROVE  AssetInv'
    BY ZenonT(30), <1>2, UserAssets, StartAssets, RoundAssets, ScanAssets, HandleAssets, HandleFailsAssets,
       FaultAssets DEF TaskStep
  <1> QED BY ZenonT(30), <1>1, <1>2, FaultAssets DEF Next

-----------------------------------------------------------------------------
(* The laws of sums *)

INSTANCE SumProofs

(* They hold of SumFunctionOnSet. *)
LEMMA Sums == SumLaws
  <1>1. FiniteLaw
    <2>1. IsFiniteSet({}) /\ \A a : IsFiniteSet({a})
      BY ZenonT(30), FS_EmptySet, FS_Singleton
    <2>2. \A n \in Nat : IsFiniteSet(1 .. n)
      BY SMTT(30), FS_Interval
    <2>3. ASSUME NEW S, NEW T, IsFiniteSet(S), T \subseteq S
          PROVE  IsFiniteSet(T)
      BY ZenonT(30), <2>3, FS_Subset
    <2> QED BY ZenonT(30), <2>1, <2>2, <2>3 DEF FiniteLaw
  <1>2. EmptyLaw
    BY ZenonT(30), SumEmpty DEF EmptyLaw
  <1>3. TypeLaw
    BY ZenonT(30), SumType DEF TypeLaw
  <1>4. AddLaw
    BY ZenonT(30), SumAdd DEF AddLaw
  <1>5. SameLaw
    BY ZenonT(30), SumSame DEF SameLaw
  <1>6. ChangeLaw
    <2>1. ASSUME NEW f, NEW g, NEW S, NEW x, AgreeExcept(f, g, S, x)
          PROVE  SameExcept(f, g, S, x)
      BY Zenon, <2>1 DEF AgreeExcept, SameExcept
    <2> QED BY ZenonT(30), <2>1, SumChange DEF ChangeLaw
  <1>7. ZeroLaw
    BY Zenon, SumZero DEF ZeroLaw
  <1>8. NatLaw
    BY ZenonT(30), SumNat DEF NatLaw
  <1> QED
    BY ZenonT(30), <1>1, <1>2, <1>3, <1>4, <1>5, <1>6, <1>7, <1>8 DEF SumLaws

(* Every asset stays backed, for any users, tokens, amounts and reserves:   *)
(* what a bridge has in custody is what BridgedERC20 contracts have minted  *)
(* plus what messages carry, whatever the relayer loses, refuses or never   *)
(* sees, and the two bridges' ether covers their reserves.                  *)
THEOREM AssetsStayBacked == Spec => []Backed
  <1>1. AssetInv => Backed
    BY ZenonT(30) DEF AssetInv
  <1> QED BY <1>1, InitAssets, NextAssets, Sums, PTL DEF Spec

(* relayMessage reverts on a token transfer only if its recipient is        *)
(* address(0) or the relayer passed over the token's registration: never    *)
(* for want of custody, and never because a transfer overtook its           *)
(* registration.                                                            *)
THEOREM RefusedForAReason == Spec => []RefusalsExplained
  <1>1. AssetInv => RefusalsExplained
    BY Zenon DEF AssetInv
  <1> QED BY <1>1, InitAssets, NextAssets, Sums, PTL DEF Spec

=============================================================================
