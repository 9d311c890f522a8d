--------------------------- MODULE DatabaseProofs ---------------------------
(***************************************************************************)
(* What is read of the account database, proved of every set of addresses,  *)
(* slots, values and codes and of every remote. DbInv is inductive: every   *)
(* code that an account names can be found, with the account or among the   *)
(* contracts, and a destroyed account is the default one. Then what is read *)
(* of an address depends on its own account alone (ViewAt), every operation *)
(* replaces one account (Stored), and the theorems compare accounts.        *)
(***************************************************************************)
EXTENDS StateDatabase, TLAPS

Contracts == Codes \cup {NoCode}
RemoteAccount == [balance : Balances, nonce : Nonces, code : Contracts, storage : [Slots -> Values]]

(* The code of an account can be found. Only a remote's account comes with  *)
(* a code that is not among the contracts.                                  *)
Found(info, C) ==
    /\ info.code \in {None, info.hash}
    /\ info.hash = NoCode \/ info.hash \in C \/ (forked /\ info.code # None)

Sound(account, C) ==
    /\ account \in DbAccount
    /\ Found(account.info, C)
    /\ account.state = "NotExisting" => account.info = Default

AccountsOK == \A a \in Addresses : db.accounts[a] # None => Sound(db.accounts[a], db.contracts)

DbInv ==
    /\ forked \in BOOLEAN
    /\ db \in [accounts : [Addresses -> DbAccount \cup {None}], contracts : SUBSET Codes]
    /\ AccountsOK

(* What is read of an account that is cached *)
Shown(account, a) ==
    [balance |-> InfoOf(account).balance, nonce |-> InfoOf(account).nonce,
     code |-> InfoOf(account).hash,
     storage |-> [s \in Slots |->
        IF account.storage[s] # None THEN account.storage[s]
        ELSE IF ReadsZero(account) THEN 0 ELSE Remote[a].storage[s]]]

(* The account that load_account leaves *)
Loaded(a) ==
    IF db.accounts[a] # None THEN db.accounts[a]
    ELSE [info |-> ExtBasic(a), state |-> "None", storage |-> NoStorage]

(* A step that replaces the account of an address *)
Stores(a, account, C) ==
    /\ db' = [accounts |-> [db.accounts EXCEPT ![a] = account], contracts |-> C]
    /\ forked' = forked

(* The database below has an account of the right type at every address. *)
LEMMA RemoteType ==
  ASSUME forked \in BOOLEAN
  PROVE  Remote \in [Addresses -> RemoteAccount]
BY Zenon, DatabaseAssumption DEF Remote, EmptyDB, RemoteAccount, Contracts

(* The default account is one of the right type. *)
LEMMA DefaultType == Default \in Info /\ NoStorage \in [Slots -> Values \cup {None}]
BY Zenon, DatabaseAssumption DEF Default, NoStorage, Info

(* A code that is found is the one that is read. *)
LEMMA FoundCode ==
  ASSUME NEW d, NEW info \in Info, Found(info, d.contracts)
  PROVE  ViewCode(d, info) = info.hash
BY Zenon, DatabaseAssumption DEF ViewCode, Found, Info

(* What is read of an address depends on its own account alone. *)
LEMMA ViewAt ==
  ASSUME DbInv, NEW a \in Addresses
  PROVE  View(db)[a] = IF db.accounts[a] = None THEN Remote[a] ELSE Shown(db.accounts[a], a)
<1>1. Remote[a] \in RemoteAccount
  BY Zenon, RemoteType DEF DbInv
<1>2. CASE db.accounts[a] = None
  <2>1. ViewCode(db, ExtBasic(a)) = Remote[a].code
    BY Zenon, <1>1, DatabaseAssumption DEF ViewCode, ExtBasic, RemoteAccount
  <2>2. ViewInfo(db, a) = ExtBasic(a) /\ \A s \in Slots : ViewSlot(db, a, s) = Remote[a].storage[s]
    BY Zenon, <1>2 DEF ViewInfo, ViewSlot
  <2>3. View(db)[a] = [balance |-> Remote[a].balance, nonce |-> Remote[a].nonce,
                       code |-> Remote[a].code, storage |-> [s \in Slots |-> Remote[a].storage[s]]]
    BY <2>1, <2>2 DEF View, ExtBasic
  <2> QED BY Zenon, <1>1, <1>2, <2>3 DEF RemoteAccount
<1>3. CASE db.accounts[a] # None
  <2>1. Sound(db.accounts[a], db.contracts)
    BY Zenon, <1>3 DEF DbInv, AccountsOK
  <2>2. ViewInfo(db, a) = InfoOf(db.accounts[a])
    BY Zenon, <1>3 DEF ViewInfo
  <2>3. InfoOf(db.accounts[a]) \in Info /\ Found(InfoOf(db.accounts[a]), db.contracts)
    BY Zenon, <2>1, DefaultType DEF InfoOf, Sound, DbAccount
  <2>4. ViewCode(db, InfoOf(db.accounts[a])) = InfoOf(db.accounts[a]).hash
    BY Zenon, <2>3, FoundCode
  <2> QED BY Zenon, <1>3, <2>2, <2>4 DEF View, ViewSlot, Shown
<1> QED BY Zenon, <1>2, <1>3

(* The same of all addresses, as a fact of the state *)
Reads == \A a \in Addresses :
    View(db)[a] = IF db.accounts[a] = None THEN Remote[a] ELSE Shown(db.accounts[a], a)
LEMMA ViewReads == DbInv => Reads
BY Zenon, ViewAt DEF Reads

(* A step that replaces an account by a sound one keeps the invariant, and  *)
(* changes what is read of that address only.                               *)
LEMMA Stored ==
  ASSUME DbInv, NEW a \in Addresses, NEW account, NEW C \in SUBSET Codes,
         db.contracts \subseteq C, Sound(account, C), Stores(a, account, C)
  PROVE  DbInv' /\ View(db)' = [View(db) EXCEPT ![a] = Shown(account, a)]
<1>1. /\ db'.accounts = [db.accounts EXCEPT ![a] = account] /\ db'.contracts = C
      /\ forked' = forked
  BY Zenon DEF Stores
<1>2. account \in DbAccount /\ account # None
  BY Zenon, DatabaseAssumption DEF Sound
<1>3. db' \in [accounts : [Addresses -> DbAccount \cup {None}], contracts : SUBSET Codes]
  BY Zenon, <1>2 DEF Stores, DbInv
<1>4. ASSUME NEW b \in Addresses, db'.accounts[b] # None
      PROVE  Sound(db.accounts[b], db.contracts)'
  <2>1. CASE b = a
    BY Zenon, <1>1, <2>1 DEF DbInv, Sound, Found
  <2>2. CASE b # a
    <3>1. Sound(db.accounts[b], db.contracts) /\ db'.accounts[b] = db.accounts[b]
      BY Zenon, <1>1, <1>4, <2>2 DEF DbInv, AccountsOK
    <3> QED BY Zenon, <1>1, <3>1 DEF Sound, Found
  <2> QED BY Zenon, <2>1, <2>2
<1>5. DbInv'
  BY Zenon, <1>1, <1>3, <1>4 DEF DbInv, AccountsOK
<1>6. ASSUME NEW b \in Addresses
      PROVE  View(db)'[b] = IF b = a THEN Shown(account, a) ELSE View(db)[b]
  <2>1. Reads'
    BY <1>5, ViewReads, PTL
  <2>2. View(db)'[b] = (IF db.accounts[b] = None THEN Remote[b] ELSE Shown(db.accounts[b], b))'
    BY Zenon, <2>1 DEF Reads
  <2>3. Remote' = Remote
    BY Zenon, <1>1 DEF Remote
  <2>4. \A x : Shown(x, b)' = Shown(x, b)
    BY Zenon, <2>3 DEF Shown
  <2>5. CASE b = a
    BY Zenon, <1>1, <1>2, <2>2, <2>4, <2>5 DEF DbInv
  <2>6. CASE b # a
    <3>1. db'.accounts[b] = db.accounts[b]
      BY Zenon, <1>1, <2>6 DEF DbInv
    <3> QED BY Zenon, <2>2, <2>3, <2>4, <2>6, <3>1, ViewAt
  <2> QED BY Zenon, <2>5, <2>6
<1> QED BY Zenon, <1>5, <1>6 DEF View

(* load_account leaves a sound account, and nothing else is read after it. *)
LEMMA Loads ==
  ASSUME DbInv, NEW a \in Addresses
  PROVE  /\ Sound(Loaded(a), db.contracts)
         /\ Shown(Loaded(a), a) = View(db)[a]
         /\ load_account(db, a) = [accounts |-> [db.accounts EXCEPT ![a] = Loaded(a)],
                                   contracts |-> db.contracts]
<1>1. Remote[a] \in RemoteAccount
  BY RemoteType DEF DbInv
<1>2. CASE db.accounts[a] # None
  BY Zenon, <1>2, ViewAt DEF Loaded, load_account, DbInv, AccountsOK
<1>3. CASE db.accounts[a] = None
  <2>1. Loaded(a) = [info |-> ExtBasic(a), state |-> "None", storage |-> NoStorage]
    BY Zenon, <1>3 DEF Loaded
  <2>2. ExtBasic(a) \in Info
    BY Zenon, <1>1, DatabaseAssumption DEF ExtBasic, Info, RemoteAccount, Contracts
  <2>3. Found(ExtBasic(a), db.contracts)
    <3>1. CASE forked
      BY Zenon, <1>1, <3>1, DatabaseAssumption DEF Found, ExtBasic, RemoteAccount, Contracts
    <3>2. CASE ~forked
      BY Zenon, <3>2 DEF Found, ExtBasic, Remote, EmptyDB
    <3> QED BY Zenon, <3>1, <3>2
  <2>4. Sound(Loaded(a), db.contracts)
    BY <2>1, <2>2, <2>3, DefaultType DEF Sound, DbAccount, AccountState
  <2>5. Shown(Loaded(a), a) = [balance |-> Remote[a].balance, nonce |-> Remote[a].nonce,
                               code |-> Remote[a].code,
                               storage |-> [s \in Slots |-> Remote[a].storage[s]]]
    BY <2>1 DEF Shown, InfoOf, ExtBasic, NoStorage, ReadsZero
  <2>6. Shown(Loaded(a), a) = View(db)[a]
    BY Zenon, <1>1, <1>3, <2>5, ViewAt DEF RemoteAccount
  <2>7. load_account(db, a) = [accounts |-> [db.accounts EXCEPT ![a] = Loaded(a)],
                               contracts |-> db.contracts]
    BY Zenon, <1>3, <2>1 DEF load_account, With, DbInv
  <2> QED BY Zenon, <2>4, <2>6, <2>7
<1> QED BY Zenon, <1>2, <1>3

(* A slot of an account that is loaded first *)
LEMMA SlotLoaded ==
  ASSUME DbInv, NEW a \in Addresses, NEW s, NEW v
  PROVE  [load_account(db, a) EXCEPT !.accounts[a].storage[s] = v]
           = [accounts |-> [db.accounts EXCEPT ![a] = [Loaded(a) EXCEPT !.storage[s] = v]],
              contracts |-> db.contracts]
<1> DEFINE f == [db.accounts EXCEPT ![a] = Loaded(a)]
           e == [accounts |-> f, contracts |-> db.contracts]
           g == [f EXCEPT ![a].storage[s] = v]
<1>1. f[a] = Loaded(a) /\ DOMAIN f = Addresses /\ \A b \in Addresses : b # a => f[b] = db.accounts[b]
  BY Zenon DEF DbInv
<1>2. [e EXCEPT !.accounts[a].storage[s] = v] = [accounts |-> g, contracts |-> db.contracts]
  OBVIOUS
<1>3. g = [db.accounts EXCEPT ![a] = [Loaded(a) EXCEPT !.storage[s] = v]]
  <2>1. g = [f EXCEPT ![a] = [f[a] EXCEPT !.storage[s] = v]]
    BY Zenon
  <2> QED BY Zenon, <1>1, <2>1 DEF DbInv
<1> QED BY Zenon, <1>2, <1>3, Loads

(* The contracts after insert_contract *)
Known(info) == db.contracts \cup ({info.code} \ {None})

(* insert_account_info of an account that is loaded first *)
LEMMA InfoLoaded ==
  ASSUME DbInv, NEW a \in Addresses, NEW info
  PROVE  /\ LoadedInfo(a) = InfoOf(Loaded(a))
         /\ insert_account_info(load_account(db, a), a, info)
              = [accounts |-> [db.accounts EXCEPT ![a] = [Loaded(a) EXCEPT !.info = info]],
                 contracts |-> Known(info)]
<1> DEFINE f == [db.accounts EXCEPT ![a] = Loaded(a)]
<1>1. f[a] = Loaded(a) /\ DOMAIN f = Addresses /\ \A b \in Addresses : b # a => f[b] = db.accounts[b]
  BY DEF DbInv
<1>2. Loaded(a) # None
  BY Zenon, Loads, DatabaseAssumption DEF Sound
<1>3. load_account(db, a) = [accounts |-> f, contracts |-> db.contracts]
  BY Zenon, Loads
<1> HIDE DEF f
<1>4. LoadedInfo(a) = InfoOf(Loaded(a))
  BY <1>1, <1>2, <1>3 DEF LoadedInfo, ViewInfo
<1>5. insert_contract(load_account(db, a), info) = [accounts |-> f, contracts |-> Known(info)]
  BY SMTT(30), <1>3 DEF insert_contract, Known
<1>6. Entry([accounts |-> f, contracts |-> Known(info)], a) = Loaded(a)
  BY Zenon, <1>1, <1>2 DEF Entry
<1>7. insert_account_info(load_account(db, a), a, info)
        = [accounts |-> [f EXCEPT ![a] = [Loaded(a) EXCEPT !.info = info]],
           contracts |-> Known(info)]
  BY <1>5, <1>6 DEF insert_account_info, With
<1>8. [f EXCEPT ![a] = [Loaded(a) EXCEPT !.info = info]]
        = [db.accounts EXCEPT ![a] = [Loaded(a) EXCEPT !.info = info]]
  BY Zenon, <1>1 DEF f, DbInv
<1> QED BY Zenon, <1>4, <1>7, <1>8

(* What is read of an address is of the right form. *)
LEMMA ViewType ==
  ASSUME DbInv, NEW a \in Addresses
  PROVE  /\ View(db) = [b \in Addresses |-> View(db)[b]]
         /\ View(db)[a].storage \in [Slots -> Values]
<1>1. Remote[a] \in RemoteAccount
  BY RemoteType DEF DbInv
<1>2. Loaded(a) \in DbAccount
  BY Zenon, Loads DEF Sound
<1>3. Shown(Loaded(a), a).storage \in [Slots -> Values]
  BY Zenon, <1>1, <1>2, DatabaseAssumption DEF Shown, RemoteAccount, DbAccount
<1> QED BY Zenon, <1>3, Loads DEF View

(* A read leaves what is read. *)
LEMMA ReadStep ==
  ASSUME DbInv, NEW a \in Addresses, Read(a)
  PROVE  DbInv' /\ W!Read
<1>1. PICK account : /\ Stores(a, account, db.contracts)
                     /\ Sound(account, db.contracts)
                     /\ Shown(account, a) = View(db)[a]
  <2>1. CASE db' = load_account(db, a)
    BY Zenon, <2>1, Loads DEF Stores, Read, Is
  <2>2. ASSUME NEW s \in Slots, db' = storage(db, a, s), db' # load_account(db, a)
        PROVE  /\ Stores(a, [Loaded(a) EXCEPT !.storage[s] = Remote[a].storage[s]], db.contracts)
               /\ Sound([Loaded(a) EXCEPT !.storage[s] = Remote[a].storage[s]], db.contracts)
               /\ Shown([Loaded(a) EXCEPT !.storage[s] = Remote[a].storage[s]], a) = View(db)[a]
    <3>1. Remote[a] \in RemoteAccount
      BY Zenon, RemoteType DEF DbInv
    <3>2. load_account(db, a).accounts[a] = Loaded(a)
      BY Loads DEF DbInv
    <3>3. /\ Loaded(a).storage[s] = None /\ ~ReadsZero(Loaded(a))
          /\ db' = [load_account(db, a) EXCEPT !.accounts[a].storage[s] = Remote[a].storage[s]]
      BY Zenon, <2>2, <3>2 DEF storage
    <3>4. Stores(a, [Loaded(a) EXCEPT !.storage[s] = Remote[a].storage[s]], db.contracts)
      BY ZenonT(30), <3>3, SlotLoaded DEF Stores, Read, Is
    <3>5. Sound([Loaded(a) EXCEPT !.storage[s] = Remote[a].storage[s]], db.contracts)
      BY Zenon, <3>1, Loads DEF Sound, DbAccount, RemoteAccount
    <3>6. Shown([Loaded(a) EXCEPT !.storage[s] = Remote[a].storage[s]], a) = Shown(Loaded(a), a)
      BY Zenon, <3>1, <3>3, Loads DEF Shown, Sound, DbAccount, RemoteAccount, InfoOf, ReadsZero
    <3> QED BY Zenon, <3>4, <3>5, <3>6, Loads
  <2> QED BY Zenon, <2>1, <2>2 DEF Read
<1>2. DbInv' /\ View(db)' = [View(db) EXCEPT ![a] = View(db)[a]]
  BY Zenon, <1>1, Stored DEF DbInv
<1>3. View(db)' = View(db)
  BY Zenon, <1>2, ViewType
<1> QED BY Zenon, <1>2, <1>3 DEF Read, Is, W!Read, W!Is

(* An account that exists gets another info: what is read is that info.     *)
LEMMA InfoStep ==
  ASSUME DbInv, NEW a \in Addresses, ~NotExisting(a), NEW info \in Info,
         Found(info, Known(info)), forked' = forked,
         db' = insert_account_info(load_account(db, a), a, info)
  PROVE  /\ DbInv'
         /\ View(db)' = [View(db) EXCEPT ![a] =
                [balance |-> info.balance, nonce |-> info.nonce, code |-> info.hash,
                 storage |-> View(db)[a].storage]]
<1> DEFINE account == [Loaded(a) EXCEPT !.info = info]
<1>1. Sound(Loaded(a), db.contracts) /\ Shown(Loaded(a), a) = View(db)[a]
  BY Zenon, Loads
<1>2. Loaded(a).state # "NotExisting"
  BY Zenon DEF Loaded, NotExisting
<1>3. Sound(account, Known(info))
  BY Zenon, <1>1, <1>2 DEF Sound, DbAccount
<1>4. Stores(a, account, Known(info))
  BY Zenon, InfoLoaded DEF Stores
<1>5. Known(info) \in SUBSET Codes /\ db.contracts \subseteq Known(info)
  BY Zenon, DatabaseAssumption DEF Known, DbInv, Info
<1>6. Shown(account, a) = [balance |-> info.balance, nonce |-> info.nonce, code |-> info.hash,
                           storage |-> Shown(Loaded(a), a).storage]
  BY Zenon, <1>1, <1>2 DEF Shown, InfoOf, ReadsZero, Sound, DbAccount
<1> HIDE DEF account
<1> QED BY ZenonT(30), <1>1, <1>3, <1>4, <1>5, <1>6, Stored

(* The info of an account that exists, as it is read *)
LEMMA InfoRead ==
  ASSUME DbInv, NEW a \in Addresses, ~NotExisting(a)
  PROVE  /\ LoadedInfo(a) \in Info /\ Found(LoadedInfo(a), db.contracts)
         /\ View(db)[a] = [balance |-> LoadedInfo(a).balance, nonce |-> LoadedInfo(a).nonce,
                           code |-> LoadedInfo(a).hash, storage |-> View(db)[a].storage]
<1>1. Sound(Loaded(a), db.contracts) /\ Shown(Loaded(a), a) = View(db)[a]
  BY Zenon, Loads
<1>2. LoadedInfo(a) = InfoOf(Loaded(a))
  BY Zenon, InfoLoaded
<1>3. LoadedInfo(a) = Loaded(a).info
  BY Zenon, <1>2 DEF InfoOf, Loaded, NotExisting
<1>4. View(db)[a] = Shown(Loaded(a), a) /\ Shown(Loaded(a), a) =
        [balance |-> LoadedInfo(a).balance, nonce |-> LoadedInfo(a).nonce,
         code |-> LoadedInfo(a).hash, storage |-> Shown(Loaded(a), a).storage]
  BY Zenon, <1>1, <1>2 DEF Shown
<1> QED BY Zenon, <1>1, <1>3, <1>4 DEF Sound, DbAccount

(* Contracts that are added do not hide a code. *)
LEMMA FoundMore ==
  ASSUME NEW info, NEW C, NEW D, C \subseteq D, Found(info, C)
  PROVE  Found(info, D)
BY Zenon DEF Found

(* One slot of what is read *)
LEMMA SlotReplaced ==
  ASSUME NEW r, NEW x, NEW y, NEW z, NEW st, NEW s, NEW v,
         r = [balance |-> x, nonce |-> y, code |-> z, storage |-> st]
  PROVE  [r EXCEPT !.storage[s] = v]
           = [balance |-> x, nonce |-> y, code |-> z, storage |-> [st EXCEPT ![s] = v]]
OBVIOUS

(* Db::set_balance, set_nonce and set_code set what is read. *)
LEMMA BalanceStep ==
  ASSUME DbInv, NEW a \in Addresses, ~NotExisting(a), set_balance(a)
  PROVE  DbInv' /\ W!Cheat(a)
<1>1. PICK b \in Balances :
        /\ Is([do |-> "balance", at |-> a, to |-> b])
        /\ db' = insert_account_info(load_account(db, a), a, [LoadedInfo(a) EXCEPT !.balance = b])
  BY Zenon DEF set_balance
<1> DEFINE info == [LoadedInfo(a) EXCEPT !.balance = b]
<1>2. info \in Info /\ Found(info, db.contracts)
  BY Zenon, InfoRead DEF Info, Found
<1>3. info.balance = b /\ info.nonce = LoadedInfo(a).nonce /\ info.hash = LoadedInfo(a).hash
  BY Zenon, InfoRead DEF Info
<1> HIDE DEF info
<1>4. Found(info, Known(info)) /\ forked' = forked
  BY <1>1, <1>2, FoundMore DEF Known, Is
<1>5. /\ DbInv'
      /\ View(db)' = [View(db) EXCEPT ![a] =
            [balance |-> info.balance, nonce |-> info.nonce, code |-> info.hash,
             storage |-> View(db)[a].storage]]
  BY Zenon, <1>1, <1>2, <1>4, InfoStep DEF info
<1>6. [balance |-> info.balance, nonce |-> info.nonce, code |-> info.hash,
       storage |-> View(db)[a].storage] = [View(db)[a] EXCEPT !.balance = b]
  <2> DEFINE st == View(db)[a].storage
  <2>1. View(db)[a] = [balance |-> LoadedInfo(a).balance, nonce |-> LoadedInfo(a).nonce,
                       code |-> LoadedInfo(a).hash, storage |-> st]
    BY Zenon, InfoRead
  <2> HIDE DEF st
  <2>2. [View(db)[a] EXCEPT !.balance = b]
          = [balance |-> b, nonce |-> LoadedInfo(a).nonce,
             code |-> LoadedInfo(a).hash, storage |-> st]
    BY ONLY <2>1
  <2> QED BY Zenon, <1>3, <2>2 DEF st
<1> QED BY Zenon, <1>1, <1>5, <1>6 DEF Is, W!Cheat, W!Is, W!Put

LEMMA NonceStep ==
  ASSUME DbInv, NEW a \in Addresses, ~NotExisting(a), set_nonce(a)
  PROVE  DbInv' /\ W!Cheat(a)
<1>1. PICK n \in Nonces :
        /\ Is([do |-> "nonce", at |-> a, to |-> n])
        /\ db' = insert_account_info(load_account(db, a), a, [LoadedInfo(a) EXCEPT !.nonce = n])
  BY Zenon DEF set_nonce
<1> DEFINE info == [LoadedInfo(a) EXCEPT !.nonce = n]
<1>2. info \in Info /\ Found(info, db.contracts)
  BY Zenon, InfoRead DEF Info, Found
<1>3. info.nonce = n /\ info.balance = LoadedInfo(a).balance /\ info.hash = LoadedInfo(a).hash
  BY Zenon, InfoRead DEF Info
<1> HIDE DEF info
<1>4. Found(info, Known(info)) /\ forked' = forked
  BY <1>1, <1>2, FoundMore DEF Known, Is
<1>5. /\ DbInv'
      /\ View(db)' = [View(db) EXCEPT ![a] =
            [balance |-> info.balance, nonce |-> info.nonce, code |-> info.hash,
             storage |-> View(db)[a].storage]]
  BY Zenon, <1>1, <1>2, <1>4, InfoStep DEF info
<1>6. [balance |-> info.balance, nonce |-> info.nonce, code |-> info.hash,
       storage |-> View(db)[a].storage] = [View(db)[a] EXCEPT !.nonce = n]
  <2> DEFINE st == View(db)[a].storage
  <2>1. View(db)[a] = [balance |-> LoadedInfo(a).balance, nonce |-> LoadedInfo(a).nonce,
                       code |-> LoadedInfo(a).hash, storage |-> st]
    BY InfoRead
  <2> HIDE DEF st
  <2>2. [View(db)[a] EXCEPT !.nonce = n]
          = [balance |-> LoadedInfo(a).balance, nonce |-> n,
             code |-> LoadedInfo(a).hash, storage |-> st]
    BY ONLY <2>1
  <2> QED BY Zenon, <1>3, <2>2 DEF st
<1> QED BY Zenon, <1>1, <1>5, <1>6 DEF Is, W!Cheat, W!Is, W!Put

LEMMA CodeStep ==
  ASSUME DbInv, NEW a \in Addresses, ~NotExisting(a), set_code(a)
  PROVE  DbInv' /\ W!Cheat(a)
<1>1. PICK c \in Codes \cup {NoCode} :
        /\ Is([do |-> "code", at |-> a, to |-> c])
        /\ db' = insert_account_info(load_account(db, a), a,
                    [LoadedInfo(a) EXCEPT !.hash = c, !.code = IF c = NoCode THEN None ELSE c])
  BY Zenon DEF set_code
<1> DEFINE info == [LoadedInfo(a) EXCEPT !.hash = c, !.code = IF c = NoCode THEN None ELSE c]
<1>2. info \in Info /\ info.code = IF c = NoCode THEN None ELSE c
  BY Zenon, InfoRead DEF Info
<1>3. info.hash = c /\ info.balance = LoadedInfo(a).balance /\ info.nonce = LoadedInfo(a).nonce
  BY Zenon, InfoRead DEF Info
<1> HIDE DEF info
<1>4. Found(info, Known(info)) /\ forked' = forked
  BY Zenon, <1>1, <1>2, <1>3, DatabaseAssumption DEF Known, Is, Found
<1>5. /\ DbInv'
      /\ View(db)' = [View(db) EXCEPT ![a] =
            [balance |-> info.balance, nonce |-> info.nonce, code |-> info.hash,
             storage |-> View(db)[a].storage]]
  BY Zenon, <1>1, <1>2, <1>4, InfoStep DEF info
<1>6. [balance |-> info.balance, nonce |-> info.nonce, code |-> info.hash,
       storage |-> View(db)[a].storage] = [View(db)[a] EXCEPT !.code = c]
  <2> DEFINE st == View(db)[a].storage
  <2>1. View(db)[a] = [balance |-> LoadedInfo(a).balance, nonce |-> LoadedInfo(a).nonce,
                       code |-> LoadedInfo(a).hash, storage |-> st]
    BY Zenon, InfoRead
  <2> HIDE DEF st
  <2>2. [View(db)[a] EXCEPT !.code = c]
          = [balance |-> LoadedInfo(a).balance, nonce |-> LoadedInfo(a).nonce,
             code |-> c, storage |-> st]
    BY ONLY <2>1
  <2> QED BY Zenon, <1>3, <2>2 DEF st
<1> QED BY Zenon, <1>1, <1>5, <1>6 DEF Is, W!Cheat, W!Is, W!Put

(* Db::set_storage_at sets the slot that is read. *)
LEMMA SlotStep ==
  ASSUME DbInv, NEW a \in Addresses, set_storage_at(a)
  PROVE  DbInv' /\ W!Cheat(a)
<1>1. PICK s \in Slots, v \in Values :
        /\ Is([do |-> "slot", at |-> a, slot |-> s, to |-> v])
        /\ db' = insert_account_storage(db, a, s, v)
  BY Zenon DEF set_storage_at
<1> DEFINE account == [Loaded(a) EXCEPT !.storage[s] = v]
<1>2. Sound(Loaded(a), db.contracts) /\ Shown(Loaded(a), a) = View(db)[a]
  BY Zenon, Loads
<1>3. Sound(account, db.contracts)
  BY Zenon, <1>2 DEF Sound, DbAccount
<1>4. Stores(a, account, db.contracts)
  BY ZenonT(30), <1>1, SlotLoaded DEF insert_account_storage, Stores, Is
<1>5. Shown(account, a) = [Shown(Loaded(a), a) EXCEPT !.storage[s] = v]
  <2>1. account \in DbAccount /\ account.info = Loaded(a).info /\ account.state = Loaded(a).state
        /\ account.storage = [Loaded(a).storage EXCEPT ![s] = v]
    BY Zenon, <1>2, <1>3 DEF Sound, DbAccount
  <2>2. InfoOf(account) = InfoOf(Loaded(a)) /\ ReadsZero(account) = ReadsZero(Loaded(a))
    BY Zenon, <2>1 DEF InfoOf, ReadsZero
  <2>3. v # None
    BY Zenon, DatabaseAssumption
  <2>4. Shown(account, a).storage = [Shown(Loaded(a), a).storage EXCEPT ![s] = v]
    BY Zenon, <1>2, <2>1, <2>2, <2>3 DEF Shown, Sound, DbAccount
  <2> HIDE DEF account
  <2>5. \A x : Shown(x, a) = [balance |-> InfoOf(x).balance, nonce |-> InfoOf(x).nonce,
                             code |-> InfoOf(x).hash, storage |-> Shown(x, a).storage]
    BY Zenon DEF Shown
  <2> DEFINE st == Shown(Loaded(a), a).storage
  <2>6. Shown(Loaded(a), a) = [balance |-> InfoOf(account).balance,
            nonce |-> InfoOf(account).nonce, code |-> InfoOf(account).hash, storage |-> st]
    BY Zenon, <2>2, <2>5
  <2>7. Shown(account, a) = [balance |-> InfoOf(account).balance,
            nonce |-> InfoOf(account).nonce, code |-> InfoOf(account).hash,
            storage |-> [st EXCEPT ![s] = v]]
    BY Zenon, <2>4, <2>5
  <2> HIDE DEF st
  <2> QED BY <2>6, <2>7, SlotReplaced
<1>6. DbInv' /\ View(db)' = [View(db) EXCEPT ![a] = [View(db)[a] EXCEPT !.storage[s] = v]]
  BY <1>2, <1>3, <1>4, <1>5, Stored DEF DbInv
<1> QED BY Zenon, <1>1, <1>6 DEF Is, W!Cheat, W!Is, W!Put

(* A transaction that destroys an account leaves the empty one. *)
LEMMA DestroyStep ==
  ASSUME DbInv, NEW a \in Addresses, Destroy(a)
  PROVE  DbInv' /\ W!Transact(a)
<1> DEFINE account == [info |-> Default, state |-> "NotExisting", storage |-> NoStorage]
<1>1. Stores(a, account, db.contracts)
  BY Zenon DEF Destroy, Is, CommitOne, Change, With, Destroyed, Stores, DbInv
<1>2. Sound(account, db.contracts)
  BY Zenon, DefaultType DEF Sound, DbAccount, AccountState, Found, Default
<1>3. Shown(account, a) = W!EmptyAccount
  BY Zenon DEF Shown, InfoOf, ReadsZero, NoStorage, Default, W!EmptyAccount, W!Cleared
<1> HIDE DEF account
<1>4. DbInv' /\ View(db)' = [View(db) EXCEPT ![a] = W!EmptyAccount]
  BY Zenon, <1>1, <1>2, <1>3, Stored DEF DbInv
<1> QED BY Zenon, <1>4 DEF Destroy, Is, W!Transact, W!Is, W!Put

(* What a commit that does not destroy leaves *)
LEMMA CommitStores ==
  ASSUME DbInv, NEW a \in Addresses, NEW cleared, NEW info \in Info,
         NEW T \in SUBSET Slots, NEW w \in [T -> Values],
         Found(info, Known(info)), forked' = forked,
         db' = CommitOne(db, a, Change(FALSE, cleared, info, w))
  PROVE  /\ DbInv'
         /\ View(db)' = [View(db) EXCEPT ![a] =
                Shown(Committed(Entry(db, a), Change(FALSE, cleared, info, w)), a)]
<1> DEFINE change == Change(FALSE, cleared, info, w)
           account == Committed(Entry(db, a), change)
<1>1. /\ ~change.destroyed /\ change.info = info /\ change.cleared = cleared /\ change.storage = w
  BY Zenon DEF Change
<1>2. insert_contract(db, info) = [accounts |-> db.accounts, contracts |-> Known(info)]
  BY Zenon DEF insert_contract, Known, DbInv
<1>3. Entry([accounts |-> db.accounts, contracts |-> Known(info)], a) = Entry(db, a)
  BY Zenon DEF Entry
<1> HIDE DEF change
<1>4. db' = With([accounts |-> db.accounts, contracts |-> Known(info)], a, account)
  BY Zenon, <1>1, <1>2, <1>3 DEF CommitOne, change
<1>5. Stores(a, account, Known(info))
  BY Zenon, <1>4 DEF With, Stores
<1>6. Known(info) \in SUBSET Codes /\ db.contracts \subseteq Known(info)
  BY Zenon, DatabaseAssumption DEF Known, DbInv, Info
<1>7. Entry(db, a).storage \in [Slots -> Values \cup {None}]
  BY Zenon, DefaultType DEF Entry, DbInv, DbAccount
<1>8. Sound(account, Known(info))
  <2>1. account.info = info /\ account.state \in {"Touched", "StorageCleared"}
    BY Zenon, <1>1 DEF Committed, NextState
  <2>2. account.storage \in [Slots -> Values \cup {None}]
    BY Zenon, <1>1, <1>7, DefaultType DEF Committed
  <2>3. account = [info |-> account.info, state |-> account.state, storage |-> account.storage]
    BY Zenon DEF Committed
  <2> HIDE DEF account
  <2>4. account \in DbAccount
    BY Zenon, <2>1, <2>2, <2>3 DEF DbAccount, AccountState
  <2> QED BY Zenon, <2>1, <2>4 DEF Sound
<1> QED BY Zenon, <1>5, <1>6, <1>8, Stored DEF change

(* A transaction that creates a contract leaves the slots it writes. *)
LEMMA CreateStep ==
  ASSUME DbInv, NEW a \in Addresses, Create(a)
  PROVE  DbInv' /\ W!Transact(a)
<1>1. PICK T \in SUBSET Slots, b \in Balances, c \in Codes : \E w \in [T -> Values] :
         /\ Is([do |-> "create", at |-> a, balance |-> b, code |-> c, writes |-> w])
         /\ db' = CommitOne(db, a,
                     Change(FALSE, TRUE, [balance |-> b, nonce |-> 1, hash |-> c, code |-> c], w))
  BY Zenon DEF Create
<1>2. PICK w \in [T -> Values] :
         /\ Is([do |-> "create", at |-> a, balance |-> b, code |-> c, writes |-> w])
         /\ db' = CommitOne(db, a,
                     Change(FALSE, TRUE, [balance |-> b, nonce |-> 1, hash |-> c, code |-> c], w))
  BY Zenon, <1>1
<1> DEFINE info == [balance |-> b, nonce |-> 1, hash |-> c, code |-> c]
           account == Committed(Entry(db, a), Change(FALSE, TRUE, info, w))
<1>3. info \in Info /\ Found(info, Known(info))
  BY Zenon, DatabaseAssumption DEF Info, Found, Known
<1>4. forked' = forked
  BY Zenon, <1>2 DEF Is
<1>5. DbInv' /\ View(db)' = [View(db) EXCEPT ![a] = Shown(account, a)]
  <2>1. db' = CommitOne(db, a, Change(FALSE, TRUE, info, w))
    BY Zenon, <1>2
  <2> HIDE DEF info
  <2> QED BY Zenon, <2>1, <1>3, <1>4, CommitStores
<1>6. /\ account.info = info /\ account.state = "StorageCleared"
      /\ account.storage = [s \in Slots |-> IF s \in T THEN w[s] ELSE None]
  BY Zenon DEF Committed, Change, NextState, NoStorage
<1>7. ASSUME NEW s \in Slots
      PROVE  (IF account.storage[s] # None THEN account.storage[s]
              ELSE IF ReadsZero(account) THEN 0 ELSE Remote[a].storage[s])
                = IF s \in DOMAIN w THEN w[s] ELSE 0
  <2> HIDE DEF account
  <2> QED BY <1>6, DatabaseAssumption DEF ReadsZero
<1>8. Shown(account, a) = [balance |-> b, nonce |-> 1, code |-> c,
                           storage |-> W!Written(W!Cleared, w)]
  <2> HIDE DEF account
  <2> QED BY <1>6, <1>7 DEF Shown, InfoOf, W!Written, W!Cleared
<1> HIDE DEF account
<1>9. W!Put(a, [balance |-> b, nonce |-> 1, code |-> c, storage |-> W!Written(W!Cleared, w)])
  BY Zenon, <1>5, <1>8 DEF W!Put
<1> QED BY Zenon, <1>2, <1>5, <1>9 DEF Is, W!Transact, W!Is, Create, CanCreate

(* The info that is read, cached or not *)
LEMMA InfoViewed ==
  ASSUME DbInv, NEW a \in Addresses
  PROVE  /\ ViewInfo(db, a) \in Info /\ Found(ViewInfo(db, a), db.contracts)
         /\ View(db)[a] = [balance |-> ViewInfo(db, a).balance, nonce |-> ViewInfo(db, a).nonce,
                           code |-> ViewInfo(db, a).hash, storage |-> View(db)[a].storage]
<1>1. Sound(Loaded(a), db.contracts) /\ Shown(Loaded(a), a) = View(db)[a]
  BY Zenon, Loads
<1>2. ViewInfo(db, a) = InfoOf(Loaded(a))
  BY Zenon DEF ViewInfo, Loaded, InfoOf
<1>3. InfoOf(Loaded(a)) = Loaded(a).info
  BY Zenon, <1>1 DEF InfoOf, Sound
<1>4. View(db)[a] = Shown(Loaded(a), a) /\ Shown(Loaded(a), a) =
        [balance |-> ViewInfo(db, a).balance, nonce |-> ViewInfo(db, a).nonce,
         code |-> ViewInfo(db, a).hash, storage |-> Shown(Loaded(a), a).storage]
  <2>1. Shown(Loaded(a), a) = [balance |-> InfoOf(Loaded(a)).balance,
            nonce |-> InfoOf(Loaded(a)).nonce, code |-> InfoOf(Loaded(a)).hash,
            storage |-> Shown(Loaded(a), a).storage]
    BY Zenon DEF Shown
  <2> QED BY Zenon, <1>1, <1>2, <2>1
<1> QED BY Zenon, <1>1, <1>2, <1>3, <1>4 DEF Sound, DbAccount

(* A transaction that leaves the code writes its slots over those that were *)
(* read before, unless a remote's account was destroyed.                    *)
LEMMA TouchStep ==
  ASSUME DbInv, NEW a \in Addresses, Touch(a), forked => ~NotExisting(a)
  PROVE  DbInv' /\ W!Transact(a)
<1> DEFINE Info1(b, n) == [ViewInfo(db, a) EXCEPT !.balance = b, !.nonce = n]
<1>1. PICK T \in SUBSET Slots, b \in Balances, n \in Nonces : \E w \in [T -> Values] :
         /\ View(db)[a].code = NoCode => T = {}
         /\ n \in {ViewInfo(db, a).nonce, ViewInfo(db, a).nonce + 1}
         /\ Is([do |-> "touch", at |-> a, balance |-> b, nonce |-> n, writes |-> w])
         /\ db' = CommitOne(db, a, Change(FALSE, FALSE, Info1(b, n), w))
  BY Zenon DEF Touch
<1>2. PICK w \in [T -> Values] :
         /\ View(db)[a].code = NoCode => T = {}
         /\ n \in {ViewInfo(db, a).nonce, ViewInfo(db, a).nonce + 1}
         /\ Is([do |-> "touch", at |-> a, balance |-> b, nonce |-> n, writes |-> w])
         /\ db' = CommitOne(db, a, Change(FALSE, FALSE, Info1(b, n), w))
  BY Zenon, <1>1
<1> DEFINE info == Info1(b, n)
           account == Committed(Entry(db, a), Change(FALSE, FALSE, info, w))
           st == View(db)[a].storage
<1>3. /\ info \in Info /\ Found(info, db.contracts)
      /\ info.balance = b /\ info.nonce = n /\ info.hash = ViewInfo(db, a).hash
  BY Zenon, InfoViewed DEF Info, Found
<1>4. forked' = forked /\ Found(info, Known(info))
  BY <1>2, <1>3, FoundMore DEF Is, Known
<1>5. DbInv' /\ View(db)' = [View(db) EXCEPT ![a] = Shown(account, a)]
  <2>1. db' = CommitOne(db, a, Change(FALSE, FALSE, info, w))
    BY Zenon, <1>2
  <2> HIDE DEF info
  <2>2. info \in Info /\ Found(info, Known(info)) /\ forked' = forked
    BY Zenon, <1>3, <1>4
  <2> QED BY Zenon, <2>1, <2>2, CommitStores
<1>6. /\ account.info = info /\ account.state = NextState(Entry(db, a), Change(FALSE, FALSE, info, w))
      /\ account.storage = [s \in Slots |-> IF s \in T THEN w[s] ELSE Entry(db, a).storage[s]]
  BY Zenon DEF Committed, Change
<1>7. account.state = IF Entry(db, a).state = "StorageCleared" THEN "StorageCleared" ELSE "Touched"
  BY Zenon, <1>6 DEF NextState, Change
<1> HIDE DEF account, info
<1>8. ASSUME NEW s \in Slots
      PROVE  (IF account.storage[s] # None THEN account.storage[s]
              ELSE IF ReadsZero(account) THEN 0 ELSE Remote[a].storage[s])
                = IF s \in DOMAIN w THEN w[s] ELSE st[s]
  <2>1. CASE s \in T
    BY <1>6, <2>1, DatabaseAssumption
  <2>2. CASE s \notin T /\ db.accounts[a] = None
    <3>1. Entry(db, a) = [info |-> Default, state |-> "None", storage |-> NoStorage]
      BY Zenon, <2>2 DEF Entry
    <3>2. Entry(db, a).storage[s] = None /\ Entry(db, a).state = "None"
      BY <3>1 DEF NoStorage
    <3>3. account.storage[s] = None
      BY Zenon, <1>6, <2>2, <3>2
    <3>4. account.state = "Touched"
      BY Zenon, <1>7, <3>2
    <3>5. ~ReadsZero(account)
      BY Zenon, <3>4 DEF ReadsZero
    <3> QED BY Zenon, <2>2, <3>3, <3>5, ViewAt
  <2>3. CASE s \notin T /\ db.accounts[a] # None
    <3>1. Entry(db, a) = db.accounts[a] /\ db.accounts[a] \in DbAccount
      BY Zenon, <2>3 DEF Entry, DbInv
    <3>2. st[s] = IF db.accounts[a].storage[s] # None THEN db.accounts[a].storage[s]
                  ELSE IF ReadsZero(db.accounts[a]) THEN 0 ELSE Remote[a].storage[s]
      <4>1. st = Shown(db.accounts[a], a).storage
        BY Zenon, <2>3, ViewAt
      <4> QED BY Zenon, <4>1 DEF Shown
    <3>3. account.storage[s] = db.accounts[a].storage[s]
      BY Zenon, <1>6, <2>3, <3>1
    <3>4. CASE db.accounts[a].state = "NotExisting"
      <4>1. ~forked
        BY Zenon, <2>3, <3>4 DEF NotExisting
      <4>2. Remote[a].storage[s] = 0
        BY Zenon, <4>1 DEF Remote, EmptyDB
      <4> QED BY Zenon, <2>3, <3>2, <3>3, <3>4, <4>2 DEF ReadsZero
    <3>5. CASE db.accounts[a].state # "NotExisting"
      <4>1. ReadsZero(account) = ReadsZero(db.accounts[a])
        BY <1>7, <3>1, <3>5 DEF ReadsZero, DbAccount, AccountState
      <4> QED BY Zenon, <2>3, <3>2, <3>3, <4>1
    <3> QED BY Zenon, <3>4, <3>5
  <2> QED BY Zenon, <2>1, <2>2, <2>3
<1>9. View(db)[a] = [balance |-> ViewInfo(db, a).balance, nonce |-> ViewInfo(db, a).nonce,
                     code |-> ViewInfo(db, a).hash, storage |-> st]
  BY Zenon, InfoViewed
<1> HIDE DEF st
<1>10. Shown(account, a) = [balance |-> b, nonce |-> n, code |-> ViewInfo(db, a).hash,
                            storage |-> W!Written(st, w)]
  <2>1. InfoOf(account) = info
    BY Zenon, <1>6, <1>7 DEF InfoOf
  <2> QED BY Zenon, <1>3, <1>8, <2>1 DEF Shown, W!Written
<1> DEFINE wr == W!Written(st, w)
<1> HIDE DEF wr
<1>11. [View(db)[a] EXCEPT !.balance = b, !.nonce = n, !.storage = wr]
         = [balance |-> b, nonce |-> n, code |-> ViewInfo(db, a).hash, storage |-> wr]
  <2> DEFINE r == [View(db)[a] EXCEPT !.balance = b, !.nonce = n, !.storage = wr]
  <2>1. DOMAIN r = {"balance", "nonce", "code", "storage"}
    BY ONLY Zenon, <1>9
  <2>2. /\ r.balance = b /\ r.nonce = n /\ r.storage = wr
        /\ r.code = ViewInfo(db, a).hash
    BY ONLY <1>9
  <2>3. r = [f \in {"balance", "nonce", "code", "storage"} |-> r[f]]
    BY ONLY Zenon, <1>9
  <2> HIDE DEF r
  <2>4. r = [balance |-> b, nonce |-> n, code |-> ViewInfo(db, a).hash, storage |-> wr]
    BY ONLY Zenon, <2>1, <2>2, <2>3
  <2> QED BY Zenon, <2>4 DEF r
<1>12. W!Put(a, [View(db)[a] EXCEPT !.balance = b, !.nonce = n,
                                    !.storage = W!Written(View(db)[a].storage, w)])
  BY Zenon, <1>5, <1>10, <1>11 DEF W!Put, st, wr
<1>13. n \in {View(db)[a].nonce, View(db)[a].nonce + 1} \cap Nonces
  BY <1>2, <1>9
<1> QED BY ZenonT(30), <1>2, <1>5, <1>12, <1>13 DEF Is, W!Transact, W!Is

(* The first database is empty: what is read is the remote's. *)
LEMMA InitWorld == Init => DbInv /\ W!WorldInit
<1> SUFFICES ASSUME Init PROVE DbInv /\ W!WorldInit
  BY Zenon
<1>1. /\ forked \in BOOLEAN /\ db.contracts = {} /\ \A a \in Addresses : db.accounts[a] = None
      /\ db \in [accounts : [Addresses -> DbAccount \cup {None}], contracts : SUBSET Codes]
  BY Zenon DEF Init, NewCacheDB
<1>2. DbInv
  BY Zenon, <1>1 DEF DbInv, AccountsOK
<1>3. Remote \in [Addresses -> RemoteAccount]
  BY Zenon, <1>1, RemoteType
<1>4. \A a \in Addresses : View(db)[a] = Remote[a]
  BY Zenon, <1>1, <1>2, ViewAt
<1>5. View(db) = Remote
  <2>1. View(db) = [a \in Addresses |-> View(db)[a]]
    BY Zenon DEF View
  <2> QED BY Zenon, <1>3, <1>4, <2>1
<1> QED BY Zenon, <1>2, <1>5 DEF Init, Remote, W!WorldInit

(* Every step is the one of a plain map. *)
LEMMA NextWorld ==
  ASSUME DbInv, [DestroyedIsLeft]_vars
  PROVE  DbInv' /\ [W!WorldNext]_<<View(db), op>>
<1>1. CASE UNCHANGED vars
  <2>1. db' = db /\ forked' = forked /\ op' = op
    BY Zenon, <1>1 DEF vars
  <2>2. DbInv'
    BY Zenon, <2>1 DEF DbInv, AccountsOK, Sound, Found
  <2>3. View(db)' = View(db)
    <3>1. Remote' = Remote
      BY Zenon, <2>1 DEF Remote
    <3>2. \A a \in Addresses : ViewInfo(db, a)' = ViewInfo(db, a)
      BY Zenon, <2>1, <3>1 DEF ViewInfo, ExtBasic
    <3>3. \A x : ViewCode(db, x)' = ViewCode(db, x)
      BY Zenon, <2>1 DEF ViewCode
    <3>4. \A a \in Addresses, s \in Slots : ViewSlot(db, a, s)' = ViewSlot(db, a, s)
      BY Zenon, <2>1, <3>1 DEF ViewSlot
    <3> QED BY Zenon, <3>2, <3>3, <3>4 DEF View
  <2> QED BY Zenon, <2>1, <2>2, <2>3
<1>2. CASE DestroyedIsLeft
  <2>1. PICK a \in Addresses :
        \/ Read(a) \/ Destroy(a) \/ Create(a)
        \/ (forked => ~NotExisting(a)) /\ Touch(a)
        \/ ~NotExisting(a) /\ set_balance(a)
        \/ ~NotExisting(a) /\ set_nonce(a)
        \/ ~NotExisting(a) /\ set_code(a)
        \/ ~NotExisting(a) /\ set_storage_at(a)
    BY Zenon, <1>2 DEF DestroyedIsLeft
  <2>2. DbInv' /\ (W!Read \/ W!Cheat(a) \/ W!Transact(a))
    BY Zenon, <2>1, ReadStep, DestroyStep, CreateStep, TouchStep, BalanceStep, NonceStep, CodeStep, SlotStep
  <2> QED BY Zenon, <2>2 DEF W!WorldNext
<1> QED BY Zenon, <1>1, <1>2

(* While destroyed accounts are left alone, the database is a plain map     *)
(* from addresses to accounts that holds the last value written, whatever   *)
(* was cached, cleared and loaded before (revm's CacheDB and anvil's Db).   *)
THEOREM DatabaseIsWorld == WorldsSpec => IsWorld
<1>1. Init => DbInv /\ W!WorldInit
  BY Zenon, InitWorld
<1>2. DbInv /\ [DestroyedIsLeft]_vars => DbInv' /\ [W!WorldNext]_<<View(db), op>>
  BY Zenon, NextWorld
<1> QED BY <1>1, <1>2, PTL DEF WorldsSpec, IsWorld, W!WorldSpec

(* Every code that an account names can be found. *)
LEMMA CodesAreFound == WorldsSpec => []DbInv
<1>1. Init => DbInv
  BY Zenon, InitWorld
<1>2. DbInv /\ [DestroyedIsLeft]_vars => DbInv'
  BY Zenon, NextWorld
<1> QED BY <1>1, <1>2, PTL DEF WorldsSpec

-----------------------------------------------------------------------------
(* A database that was written and read again: the accounts have the state  *)
(* None, and their codes are found.                                         *)
RestoredAt(d, a) ==
    IF db.accounts[a] = None THEN d.accounts[a] = None
    ELSE /\ d.accounts[a] # None
         /\ d.accounts[a].state = "None"
         /\ d.accounts[a].storage = db.accounts[a].storage
         /\ d.accounts[a].info.balance = db.accounts[a].info.balance
         /\ d.accounts[a].info.nonce = db.accounts[a].info.nonce
         /\ ViewCode(d, d.accounts[a].info) = db.accounts[a].info.hash

(* Without a fork, what is read of it is what was read before. *)
LEMMA Restored ==
  ASSUME DbInv, ~forked, NEW d, \A a \in Addresses : RestoredAt(d, a)
  PROVE  View(d) = View(db)
<1>1. ASSUME NEW a \in Addresses PROVE View(d)[a] = View(db)[a]
  <2>1. RestoredAt(d, a)
    BY Zenon
  <2>2. View(d)[a] = [balance |-> ViewInfo(d, a).balance, nonce |-> ViewInfo(d, a).nonce,
                      code |-> ViewCode(d, ViewInfo(d, a)),
                      storage |-> [s \in Slots |-> ViewSlot(d, a, s)]]
    BY Zenon DEF View
  <2>3. CASE db.accounts[a] = None
    <3>1. d.accounts[a] = None
      BY Zenon, <2>1, <2>3 DEF RestoredAt
    <3>2. ViewInfo(d, a) = ExtBasic(a) /\ \A s \in Slots : ViewSlot(d, a, s) = Remote[a].storage[s]
      BY Zenon, <3>1 DEF ViewInfo, ViewSlot
    <3>3. ViewCode(d, ExtBasic(a)) = Remote[a].code
      BY Zenon DEF ViewCode, ExtBasic, Remote, EmptyDB
    <3>4. Remote[a] = [balance |-> Remote[a].balance, nonce |-> Remote[a].nonce,
                       code |-> Remote[a].code, storage |-> [s \in Slots |-> Remote[a].storage[s]]]
      BY Zenon DEF Remote, EmptyDB
    <3>5. View(d)[a] = [balance |-> Remote[a].balance, nonce |-> Remote[a].nonce,
                        code |-> Remote[a].code, storage |-> [s \in Slots |-> Remote[a].storage[s]]]
      BY SMTT(30), <2>2, <3>2, <3>3 DEF ExtBasic
    <3> QED BY Zenon, <2>3, <3>4, <3>5, ViewAt
  <2>4. CASE db.accounts[a] # None
    <3> DEFINE old == db.accounts[a]
               new == d.accounts[a]
    <3>1. /\ new # None /\ new.state = "None" /\ new.storage = old.storage
          /\ new.info.balance = old.info.balance /\ new.info.nonce = old.info.nonce
          /\ ViewCode(d, new.info) = old.info.hash
      BY Zenon, <2>1, <2>4 DEF RestoredAt
    <3>2. Sound(old, db.contracts)
      BY Zenon, <2>4 DEF DbInv, AccountsOK
    <3>3. InfoOf(old) = old.info
      BY Zenon, <3>2 DEF InfoOf, Sound
    <3>4. ViewInfo(d, a) = new.info
      BY Zenon, <3>1 DEF ViewInfo, InfoOf
    <3>5. \A s \in Slots : Remote[a].storage[s] = 0
      BY Zenon DEF Remote, EmptyDB
    <3>6. \A s \in Slots : ViewSlot(d, a, s) = IF old.storage[s] # None THEN old.storage[s] ELSE 0
      BY Zenon, <3>1, <3>5 DEF ViewSlot, ReadsZero
    <3>7. Shown(old, a) = [balance |-> old.info.balance, nonce |-> old.info.nonce,
                           code |-> old.info.hash,
                           storage |-> [s \in Slots |->
                                IF old.storage[s] # None THEN old.storage[s] ELSE 0]]
      BY Zenon, <3>3, <3>5 DEF Shown
    <3>8. View(d)[a] = [balance |-> old.info.balance, nonce |-> old.info.nonce,
                        code |-> old.info.hash,
                        storage |-> [s \in Slots |->
                                IF old.storage[s] # None THEN old.storage[s] ELSE 0]]
      BY Zenon, <2>2, <3>1, <3>4, <3>6
    <3> QED BY Zenon, <2>4, <3>7, <3>8, ViewAt
  <2> QED BY Zenon, <2>3, <2>4
<1> QED BY Zenon, <1>1 DEF View

(* A state that went to disk keeps every code: each is among the contracts. *)
LEMMA DiskSame == DbInv => HistorySame
<1> SUFFICES ASSUME DbInv PROVE View(BackFromDisk(db)) = View(db)
  BY Zenon DEF HistorySame
<1>1. CASE forked
  BY Zenon, <1>1 DEF BackFromDisk
<1>2. CASE ~forked
  <2> DEFINE d == BackFromDisk(db)
  <2>1. d.contracts = db.contracts \cap HasCode(db)
    BY Zenon, <1>2 DEF BackFromDisk
  <2>2. ASSUME NEW a \in Addresses PROVE RestoredAt(d, a)
    <3>1. CASE db.accounts[a] = None
      BY Zenon, <1>2, <3>1 DEF RestoredAt, BackFromDisk
    <3>2. CASE db.accounts[a] # None
      <4>1. Sound(db.accounts[a], db.contracts)
        BY <3>2 DEF DbInv, AccountsOK
      <4>2. d.accounts[a] = [info |-> [db.accounts[a].info EXCEPT !.code = None], state |-> "None",
                             storage |-> db.accounts[a].storage]
        BY Zenon, <1>2, <3>2 DEF BackFromDisk, Taken
      <4>3. db.accounts[a].info.hash \in HasCode(db)
        BY Zenon, <3>2 DEF HasCode
      <4> DEFINE info == d.accounts[a].info
      <4>4. /\ info.balance = db.accounts[a].info.balance /\ info.nonce = db.accounts[a].info.nonce
            /\ info.hash = db.accounts[a].info.hash
        BY SMTT(30), <4>1, <4>2 DEF Sound, DbAccount, Info
      <4>5. ViewCode(d, info) = db.accounts[a].info.hash
        BY Zenon, <1>2, <2>1, <4>1, <4>3, <4>4 DEF ViewCode, Sound, Found
      <4>6. d.accounts[a] # None /\ d.accounts[a].state = "None"
            /\ d.accounts[a].storage = db.accounts[a].storage
        <5>1. d.accounts[a] \in DbAccount
          BY <4>1, <4>2 DEF Sound, DbAccount, Info, AccountState
        <5> QED BY SMTT(30), <4>2, <5>1, DatabaseAssumption
      <4> HIDE DEF d
      <4> QED BY Zenon, <3>2, <4>4, <4>5, <4>6 DEF RestoredAt
    <3> QED BY Zenon, <3>1, <3>2
  <2> HIDE DEF d
  <2>3. View(d) = View(db)
    BY Zenon, <1>2, <2>2, Restored
  <2> QED BY Zenon, <2>3 DEF d
<1> QED BY Zenon, <1>1, <1>2

(* What a dump holds of an account of the database *)
LEMMA Dumped ==
  ASSUME DbInv, NEW a \in Addresses
  PROVE  /\ db.accounts[a] = None => dump_state(db)[a] = None
         /\ db.accounts[a] # None =>
              /\ dump_state(db)[a] # None
              /\ dump_state(db)[a] =
                   [balance |-> db.accounts[a].info.balance, nonce |-> db.accounts[a].info.nonce,
                    code |-> db.accounts[a].info.hash, storage |-> db.accounts[a].storage]
<1>1. db.accounts[a] = None => dump_state(db)[a] = None
  BY Zenon DEF dump_state
<1>2. ASSUME db.accounts[a] # None
      PROVE  /\ dump_state(db)[a] # None
             /\ dump_state(db)[a] =
                  [balance |-> db.accounts[a].info.balance, nonce |-> db.accounts[a].info.nonce,
                   code |-> db.accounts[a].info.hash, storage |-> db.accounts[a].storage]
  <2> DEFINE info == db.accounts[a].info
  <2>1. Sound(db.accounts[a], db.contracts)
    BY Zenon, <1>2 DEF DbInv, AccountsOK
  <2>2. info \in Info /\ ViewCode(db, info) = info.hash
    BY Zenon, <2>1, FoundCode DEF Sound, DbAccount
  <2>3. dump_state(db)[a] = [balance |-> info.balance, nonce |-> info.nonce, code |-> info.hash,
                             storage |-> db.accounts[a].storage]
    BY Zenon, <1>2, <2>2 DEF dump_state
  <2>4. dump_state(db)[a] \in SerializableAccountRecord
    BY SMTT(30), <2>1, <2>2, <2>3 DEF SerializableAccountRecord, Sound, DbAccount, Info
  <2> QED BY Zenon, <2>3, <2>4, DatabaseAssumption
<1> QED BY Zenon, <1>1, <1>2

(* An account of the dump that is loaded where its nonce is not exceeded and *)
(* its slots are not known, or known to be the same, is read as before.      *)
LEMMA ImportedAccount ==
  ASSUME DbInv, NEW a \in Addresses, db.accounts[a] # None, NEW d, Entry(d, a) \in DbAccount,
         ViewInfo(d, a).nonce \in Nat, ViewInfo(d, a).nonce <= db.accounts[a].info.nonce,
         Entry(d, a).storage \in {NoStorage, db.accounts[a].storage}
  PROVE  LET new == load_state(d, dump_state(db)).accounts[a]
         IN  /\ new \in DbAccount
             /\ new.info.balance = db.accounts[a].info.balance
             /\ new.info.nonce = db.accounts[a].info.nonce
             /\ new.info.hash = db.accounts[a].info.hash
             /\ new.info.code = IF new.info.hash = NoCode THEN None ELSE new.info.hash
             /\ new.state = Entry(d, a).state
             /\ new.storage = db.accounts[a].storage
<1> DEFINE info == db.accounts[a].info
           record == dump_state(db)[a]
           new == load_state(d, dump_state(db)).accounts[a]
           n == IF record.nonce > ViewInfo(d, a).nonce THEN record.nonce ELSE ViewInfo(d, a).nonce
           slots == [s \in Slots |-> IF record.storage[s] # None THEN record.storage[s]
                                     ELSE Entry(d, a).storage[s]]
<1>1. Sound(db.accounts[a], db.contracts)
  BY Zenon DEF DbInv, AccountsOK
<1>2. /\ info \in Info /\ info.nonce \in Nat
      /\ db.accounts[a].storage \in [Slots -> Values \cup {None}]
      /\ Entry(d, a).state \in AccountState
  BY Zenon, <1>1, DatabaseAssumption DEF Sound, DbAccount, Info
<1>3. record # None
  BY Zenon, Dumped
<1>4. record = [balance |-> info.balance, nonce |-> info.nonce, code |-> info.hash,
                storage |-> db.accounts[a].storage]
  BY Zenon, Dumped
<1>5. /\ record.balance = info.balance /\ record.nonce = info.nonce /\ record.code = info.hash
      /\ record.storage = db.accounts[a].storage
  BY ONLY <1>4
<1>6. n = info.nonce
  BY <1>2, <1>5
<1>7. slots = db.accounts[a].storage
  <2>1. ASSUME NEW s \in Slots PROVE slots[s] = db.accounts[a].storage[s]
    BY Zenon, <1>5 DEF NoStorage
  <2> QED BY Zenon, <1>2, <2>1
<1>8. new = [info |-> [balance |-> record.balance, nonce |-> n, hash |-> record.code,
                       code |-> CodeIn(record)],
             state |-> Entry(d, a).state, storage |-> slots]
  BY Zenon, <1>3 DEF load_state, Imported
<1> HIDE DEF n, slots, new, record
<1>9. /\ new.info.balance = record.balance /\ new.info.nonce = n /\ new.info.hash = record.code
      /\ new.info.code = CodeIn(record) /\ new.state = Entry(d, a).state /\ new.storage = slots
      /\ new.info = [balance |-> record.balance, nonce |-> n, hash |-> record.code,
                     code |-> CodeIn(record)]
  BY ONLY <1>8
<1>10. new.info \in Info
  BY <1>2, <1>5, <1>6, <1>9 DEF Info, CodeIn
<1>11. new \in DbAccount
  BY <1>2, <1>7, <1>8, <1>9, <1>10 DEF DbAccount
<1> QED BY Zenon, <1>5, <1>6, <1>7, <1>9, <1>11 DEF new, CodeIn

(* A dump that is loaded into a new database has every code that was read. *)
LEMMA DumpSame ==
  ASSUME DbInv, ~forked
  PROVE  View(load_state(NewCacheDB, dump_state(db))) = View(db)
<1> DEFINE d == load_state(NewCacheDB, dump_state(db))
<1>1. ASSUME NEW a \in Addresses PROVE RestoredAt(d, a)
  <2>0. NewCacheDB.accounts[a] = None
    BY Zenon DEF NewCacheDB
  <2>1. CASE db.accounts[a] = None
    <3>1. dump_state(db)[a] = None
      BY Zenon, <2>1, Dumped
    <3> QED BY Zenon, <2>0, <2>1, <3>1 DEF RestoredAt, load_state
  <2>2. CASE db.accounts[a] # None
    <3>1. /\ Entry(NewCacheDB, a) \in DbAccount /\ Entry(NewCacheDB, a).state = "None"
          /\ Entry(NewCacheDB, a).storage = NoStorage
      <4>1. Entry(NewCacheDB, a) = [info |-> Default, state |-> "None", storage |-> NoStorage]
        BY Zenon, <2>0 DEF Entry
      <4>2. Default \in Info /\ NoStorage \in [Slots -> Values \cup {None}]
        BY Zenon, DefaultType
      <4> QED BY <4>1, <4>2 DEF DbAccount, AccountState
    <3>2. ViewInfo(NewCacheDB, a).nonce = 0 /\ db.accounts[a].info.nonce \in Nat
      <4>1. Sound(db.accounts[a], db.contracts)
        BY Zenon, <2>2 DEF DbInv, AccountsOK
      <4> QED BY Zenon, <2>0, <4>1, DatabaseAssumption
              DEF ViewInfo, ExtBasic, Remote, EmptyDB, Sound, DbAccount, Info
    <3>3. ViewInfo(NewCacheDB, a).nonce \in Nat
          /\ ViewInfo(NewCacheDB, a).nonce <= db.accounts[a].info.nonce
      BY <3>2
    <3>4. /\ d.accounts[a] \in DbAccount
          /\ d.accounts[a].info.balance = db.accounts[a].info.balance
          /\ d.accounts[a].info.nonce = db.accounts[a].info.nonce
          /\ d.accounts[a].info.hash = db.accounts[a].info.hash
          /\ d.accounts[a].info.code = IF d.accounts[a].info.hash = NoCode THEN None
                                       ELSE d.accounts[a].info.hash
          /\ d.accounts[a].state = "None" /\ d.accounts[a].storage = db.accounts[a].storage
      BY Zenon, <2>2, <3>1, <3>3, ImportedAccount
    <3> HIDE DEF d
    <3>5. ViewCode(d, d.accounts[a].info) = db.accounts[a].info.hash
      BY Zenon, <3>4, DatabaseAssumption DEF ViewCode, DbAccount, Info
    <3> QED BY Zenon, <2>2, <3>4, <3>5, DatabaseAssumption DEF RestoredAt
  <2> QED BY Zenon, <2>1, <2>2
<1> HIDE DEF d
<1>2. View(d) = View(db)
  BY Zenon, <1>1, Restored
<1> QED BY Zenon, <1>2 DEF d

(* A dump that is loaded where it came from changes nothing that is read. *)
LEMMA OwnDumpSame ==
  ASSUME DbInv
  PROVE  View(load_state(db, dump_state(db))) = View(db)
<1> DEFINE d == load_state(db, dump_state(db))
<1>1. ASSUME NEW a \in Addresses PROVE View(d)[a] = View(db)[a]
  <2>1. View(d)[a] = [balance |-> ViewInfo(d, a).balance, nonce |-> ViewInfo(d, a).nonce,
                      code |-> ViewCode(d, ViewInfo(d, a)),
                      storage |-> [s \in Slots |-> ViewSlot(d, a, s)]]
    BY Zenon DEF View
  <2>2. View(db)[a] = [balance |-> ViewInfo(db, a).balance, nonce |-> ViewInfo(db, a).nonce,
                       code |-> ViewCode(db, ViewInfo(db, a)),
                       storage |-> [s \in Slots |-> ViewSlot(db, a, s)]]
    BY Zenon DEF View
  <2>3. CASE db.accounts[a] = None
    <3>1. d.accounts[a] = None
      <4>1. dump_state(db)[a] = None
        BY Zenon, <2>3, Dumped
      <4> QED BY Zenon, <2>3, <4>1 DEF load_state
    <3>2. ViewInfo(d, a) = ExtBasic(a) /\ ViewInfo(db, a) = ExtBasic(a)
      BY Zenon, <2>3, <3>1 DEF ViewInfo
    <3>3. \A s \in Slots : ViewSlot(d, a, s) = ViewSlot(db, a, s)
      BY Zenon, <2>3, <3>1 DEF ViewSlot
    <3>4. ViewCode(d, ExtBasic(a)) = ViewCode(db, ExtBasic(a))
      <4>1. ExtBasic(a).code # None \/ ExtBasic(a).hash = NoCode
        <5>1. Remote[a] \in RemoteAccount
          BY Zenon, RemoteType DEF DbInv
        <5>2. Remote[a].code # None
          BY Zenon, <5>1, DatabaseAssumption DEF RemoteAccount, Contracts
        <5>3. /\ ExtBasic(a).hash = Remote[a].code
              /\ ExtBasic(a).code = IF Remote[a].code = NoCode THEN None ELSE Remote[a].code
          BY Zenon DEF ExtBasic
        <5> QED BY Zenon, <5>2, <5>3
      <4> QED BY Zenon, <4>1 DEF ViewCode
    <3> HIDE DEF d
    <3> QED BY Zenon, <2>1, <2>2, <3>2, <3>3, <3>4
  <2>4. CASE db.accounts[a] # None
    <3> DEFINE old == db.accounts[a]
               new == d.accounts[a]
    <3>1. Sound(old, db.contracts) /\ Entry(db, a) = old
      BY Zenon, <2>4 DEF DbInv, AccountsOK, Entry
    <3>2. old \in DbAccount /\ old.info \in Info /\ old.info.nonce \in Nat
      BY Zenon, <3>1, DatabaseAssumption DEF Sound, DbAccount, Info
    <3>3. ViewInfo(db, a).nonce \in Nat /\ ViewInfo(db, a).nonce <= old.info.nonce
      <4>1. ViewInfo(db, a) = InfoOf(old)
        BY Zenon, <2>4 DEF ViewInfo
      <4>2. InfoOf(old) \in {old.info, Default} /\ Default.nonce = 0
        BY Zenon DEF InfoOf, Default
      <4> QED BY <3>2, <4>1, <4>2
    <3>4. /\ new \in DbAccount
          /\ new.info.balance = old.info.balance /\ new.info.nonce = old.info.nonce
          /\ new.info.hash = old.info.hash
          /\ new.info.code = IF new.info.hash = NoCode THEN None ELSE new.info.hash
          /\ new.state = old.state /\ new.storage = old.storage
      BY Zenon, <2>4, <3>1, <3>2, <3>3, ImportedAccount
    <3> HIDE DEF d
    <3>5. new # None
      BY Zenon, <3>4, DatabaseAssumption
    <3>6. \A s \in Slots : ViewSlot(d, a, s) = ViewSlot(db, a, s)
      BY Zenon, <2>4, <3>4, <3>5 DEF ViewSlot, ReadsZero
    <3>7. /\ ViewInfo(d, a).balance = ViewInfo(db, a).balance
          /\ ViewInfo(d, a).nonce = ViewInfo(db, a).nonce
          /\ ViewCode(d, ViewInfo(d, a)) = ViewCode(db, ViewInfo(db, a))
      <4>1. CASE old.state = "NotExisting"
        <5>1. ViewInfo(d, a) = Default /\ ViewInfo(db, a) = Default
          BY Zenon, <2>4, <3>4, <3>5, <4>1 DEF ViewInfo, InfoOf
        <5>2. Default.hash = NoCode
          BY Zenon DEF Default
        <5> QED BY Zenon, <5>1, <5>2 DEF ViewCode
      <4>2. CASE old.state # "NotExisting"
        <5>1. ViewInfo(d, a) = new.info /\ ViewInfo(db, a) = old.info
          BY Zenon, <2>4, <3>4, <3>5, <4>2 DEF ViewInfo, InfoOf
        <5>2. ViewCode(db, old.info) = old.info.hash
          BY Zenon, <3>1, <3>2, FoundCode DEF Sound
        <5>3. ViewCode(d, new.info) = new.info.hash
          BY Zenon, <3>2, <3>4, DatabaseAssumption DEF ViewCode, Info
        <5> QED BY Zenon, <3>4, <5>1, <5>2, <5>3
      <4> QED BY Zenon, <4>1, <4>2
    <3> QED BY Zenon, <2>1, <2>2, <3>6, <3>7
  <2> QED BY Zenon, <2>3, <2>4
<1> HIDE DEF d
<1>2. View(d) = [a \in Addresses |-> View(d)[a]] /\ View(db) = [a \in Addresses |-> View(db)[a]]
  BY Zenon DEF View
<1>3. View(d) = View(db)
  BY Zenon, <1>1, <1>2
<1> QED BY Zenon, <1>3 DEF d

(* What is read of a state of the history is what it was in memory, though  *)
(* on disk the accounts lose their state and their code (MemDb's            *)
(* clear_into_snapshot and init_from_snapshot).                             *)
THEOREM HistoryStaysSame == WorldsSpec => []HistorySame
BY CodesAreFound, DiskSame, PTL

(* A node that is started with the dump of a node without a fork has its    *)
(* accounts, though the dump loses the account states; and a dump that is   *)
(* loaded where it came from, forked or not, changes nothing that is read   *)
(* (dump_state and load_state).                                             *)
THEOREM DumpsReload == WorldsSpec => []DumpReloads
<1>1. DbInv => DumpReloads
  BY Zenon, DumpSame, OwnDumpSame DEF DumpReloads
<1> QED BY <1>1, CodesAreFound, PTL
=============================================================================
