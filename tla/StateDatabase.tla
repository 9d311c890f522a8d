--------------------------- MODULE StateDatabase ---------------------------
(***************************************************************************)
(* The account database of an anvil node: revm's CacheDB over an empty      *)
(* database (MemDb) or over the node that is forked (ForkedDatabase), with  *)
(* the cheat calls of anvil's Db trait, dump_state and load_state, and the  *)
(* way a state of the history goes to disk and back.                        *)
(***************************************************************************)
EXTENDS Naturals

CONSTANTS
    Addresses, Slots, Values, Balances, Nonces, Codes,
    NoCode,     \* the hash of the empty code
    None,
    Fork        \* the accounts of the node that may be forked

(* AccountInfo, and DbAccount with its AccountState *)
Info == [balance : Balances, nonce : Nonces, hash : Codes \cup {NoCode}, code : Codes \cup {None}]
AccountState == {"None", "Touched", "StorageCleared", "NotExisting"}
DbAccount == [info : Info, state : AccountState, storage : [Slots -> Values \cup {None}]]

(* An account of a dump *)
SerializableAccountRecord ==
    [balance : Balances, nonce : Nonces, code : Codes \cup {NoCode},
     storage : [Slots -> Values \cup {None}]]

ASSUME DatabaseAssumption ==
    /\ 0 \in Values /\ 0 \in Balances /\ {0, 1} \subseteq Nonces /\ Nonces \subseteq Nat
    /\ NoCode \notin Codes /\ None \notin Codes \cup {NoCode} \cup Values
    /\ None \notin DbAccount \cup SerializableAccountRecord
    /\ Fork \in [Addresses -> [balance : Balances, nonce : Nonces, code : Codes \cup {NoCode},
                               storage : [Slots -> Values]]]

VARIABLES
    forked,     \* whether the database below is that of a remote node
    db,         \* the CacheDB: accounts, and the hashes of contracts
    op          \* the last operation, with its arguments

vars == <<forked, db, op>>
Is(o) == op' = o /\ UNCHANGED forked

Default == [balance |-> 0, nonce |-> 0, hash |-> NoCode, code |-> None]
NoStorage == [s \in Slots |-> None]

(* The accounts of the database below: EmptyDB has one for every address.   *)
EmptyDB == [a \in Addresses |->
    [balance |-> 0, nonce |-> 0, code |-> NoCode, storage |-> [s \in Slots |-> 0]]]
Remote == IF forked THEN Fork ELSE EmptyDB

(* DatabaseRef of the database below, which has an account for every        *)
(* address. A remote's accounts come with their code.                       *)
ExtBasic(a) ==
    [balance |-> Remote[a].balance, nonce |-> Remote[a].nonce, hash |-> Remote[a].code,
     code |-> IF Remote[a].code = NoCode THEN None ELSE Remote[a].code]

NewCacheDB == [accounts |-> [a \in Addresses |-> None], contracts |-> {}]

With(d, a, account) == [d EXCEPT !.accounts[a] = account]

(* CacheDB::load_account, and Database::basic which does the same: an       *)
(* account is loaded with the state None.                                   *)
load_account(d, a) ==
    IF d.accounts[a] # None THEN d
    ELSE With(d, a, [info |-> ExtBasic(a), state |-> "None", storage |-> NoStorage])

(* DbAccount::info, and the unwrap_or_default of its callers *)
InfoOf(account) == IF account.state = "NotExisting" THEN Default ELSE account.info

(* or_default of an entry: account state None, nothing is loaded *)
Entry(d, a) ==
    IF d.accounts[a] # None THEN d.accounts[a]
    ELSE [info |-> Default, state |-> "None", storage |-> NoStorage]

insert_contract(d, info) ==
    IF info.code = None THEN d ELSE [d EXCEPT !.contracts = @ \cup {info.code}]

insert_account_info(d, a, info) ==
    LET e == insert_contract(d, info) IN With(e, a, [Entry(e, a) EXCEPT !.info = info])

insert_account_storage(d, a, s, v) ==
    LET e == load_account(d, a) IN [e EXCEPT !.accounts[a].storage[s] = v]

(* A slot that is not cached, by the state of its account *)
ReadsZero(account) == account.state \in {"StorageCleared", "NotExisting"}

(* Database::storage: a slot that comes from below is cached. *)
storage(d, a, s) ==
    LET e == load_account(d, a)
    IN  IF e.accounts[a].storage[s] # None \/ ReadsZero(e.accounts[a]) THEN e
        ELSE [e EXCEPT !.accounts[a].storage[s] = Remote[a].storage[s]]

-----------------------------------------------------------------------------
(* What a reader sees: DatabaseRef::basic, code_by_hash and storage *)
ViewInfo(d, a) == IF d.accounts[a] = None THEN ExtBasic(a) ELSE InfoOf(d.accounts[a])
ViewCode(d, info) ==
    IF info.code # None \/ info.hash \in d.contracts \cup {NoCode} THEN info.hash ELSE None
ViewSlot(d, a, s) ==
    LET account == d.accounts[a]
    IN  IF account = None THEN Remote[a].storage[s]
        ELSE IF account.storage[s] # None THEN account.storage[s]
        ELSE IF ReadsZero(account) THEN 0 ELSE Remote[a].storage[s]
View(d) ==
    [a \in Addresses |->
        [balance |-> ViewInfo(d, a).balance, nonce |-> ViewInfo(d, a).nonce,
         code |-> ViewCode(d, ViewInfo(d, a)),
         storage |-> [s \in Slots |-> ViewSlot(d, a, s)]]]

-----------------------------------------------------------------------------
(* Variant for mutation testing: a later transaction forgets the clearing. *)
NextStateForgets(account, change) == IF change.cleared THEN "StorageCleared" ELSE "Touched"

NextState(account, change) ==
    IF change.cleared \/ account.state = "StorageCleared" THEN "StorageCleared" ELSE "Touched"

(* commit: the change of one account by a transaction; a loop over accounts *)
(* that do not depend on each other. A change is                            *)
(* [destroyed, cleared, info, storage], storage on the slots it loaded.     *)
Committed(account, change) ==
    LET kept == IF change.cleared THEN NoStorage ELSE account.storage
    IN  [info |-> change.info, state |-> NextState(account, change),
         storage |-> [s \in Slots |-> IF s \in DOMAIN change.storage THEN change.storage[s]
                                      ELSE kept[s]]]

Destroyed(account) == [info |-> Default, state |-> "NotExisting", storage |-> NoStorage]

CommitOne(d, a, change) ==
    IF change.destroyed THEN With(d, a, Destroyed(Entry(d, a)))
    ELSE LET e == insert_contract(d, change.info)
         IN  With(e, a, Committed(Entry(e, a), change))

(* The changes that a transaction can make to an account: a creation needs  *)
(* an account without code and nonce.                                       *)
Change(destroyed, cleared, info, w) ==
    [destroyed |-> destroyed, cleared |-> cleared, info |-> info, storage |-> w]
CanCreate(a) == View(db)[a].code = NoCode /\ View(db)[a].nonce = 0

Destroy(a) ==
    /\ Is([do |-> "destroy", at |-> a])
    /\ db' = CommitOne(db, a, Change(TRUE, FALSE, Default, <<>>))
Create(a) ==
    /\ CanCreate(a)
    /\ \E T \in SUBSET Slots, b \in Balances, c \in Codes : \E w \in [T -> Values] :
         /\ Is([do |-> "create", at |-> a, balance |-> b, code |-> c, writes |-> w])
         /\ db' = CommitOne(db, a,
                     Change(FALSE, TRUE, [balance |-> b, nonce |-> 1, hash |-> c, code |-> c], w))
Touch(a) ==
    /\ \E T \in SUBSET Slots, b \in Balances, n \in Nonces : \E w \in [T -> Values] :
         /\ View(db)[a].code = NoCode => T = {}
         /\ n \in {ViewInfo(db, a).nonce, ViewInfo(db, a).nonce + 1}
         /\ Is([do |-> "touch", at |-> a, balance |-> b, nonce |-> n, writes |-> w])
         /\ db' = CommitOne(db, a,
                     Change(FALSE, FALSE, [ViewInfo(db, a) EXCEPT !.balance = b, !.nonce = n], w))

-----------------------------------------------------------------------------
(* Db::set_balance, set_nonce, set_code and set_storage_at *)
LoadedInfo(a) == ViewInfo(load_account(db, a), a)
set_balance(a) ==
    \E b \in Balances :
        /\ Is([do |-> "balance", at |-> a, to |-> b])
        /\ db' = insert_account_info(load_account(db, a), a, [LoadedInfo(a) EXCEPT !.balance = b])
set_nonce(a) ==
    \E n \in Nonces :
        /\ Is([do |-> "nonce", at |-> a, to |-> n])
        /\ db' = insert_account_info(load_account(db, a), a, [LoadedInfo(a) EXCEPT !.nonce = n])
set_code(a) ==
    \E c \in Codes \cup {NoCode} :
        /\ Is([do |-> "code", at |-> a, to |-> c])
        /\ db' = insert_account_info(load_account(db, a), a,
                    [LoadedInfo(a) EXCEPT !.hash = c, !.code = IF c = NoCode THEN None ELSE c])
set_storage_at(a) ==
    \E s \in Slots, v \in Values :
        /\ Is([do |-> "slot", at |-> a, slot |-> s, to |-> v])
        /\ db' = insert_account_storage(db, a, s, v)

Read(a) ==
    /\ Is([do |-> "read"])
    /\ \/ db' = load_account(db, a)
       \/ \E s \in Slots : db' = storage(db, a, s)

Init == forked \in BOOLEAN /\ db = NewCacheDB /\ op = [do |-> "read"]
Next ==
    \E a \in Addresses :
        \/ Read(a) \/ Destroy(a) \/ Create(a) \/ Touch(a)
        \/ set_balance(a) \/ set_nonce(a) \/ set_code(a) \/ set_storage_at(a)
Spec == Init /\ [][Next]_vars

(* A destroyed account is not set by cheat calls, and in a fork it is not   *)
(* touched either: the account state NotExisting then hides what is set, or *)
(* is lost and uncovers the remote's slots.                                 *)
NotExisting(a) == db.accounts[a] # None /\ db.accounts[a].state = "NotExisting"
DestroyedIsLeft ==
    \E a \in Addresses :
        \/ Read(a) \/ Destroy(a) \/ Create(a)
        \/ (forked => ~NotExisting(a)) /\ Touch(a)
        \/ ~NotExisting(a) /\ set_balance(a)
        \/ ~NotExisting(a) /\ set_nonce(a)
        \/ ~NotExisting(a) /\ set_code(a)
        \/ ~NotExisting(a) /\ set_storage_at(a)

WorldsSpec == Init /\ [][DestroyedIsLeft]_vars

-----------------------------------------------------------------------------
(* A state that leaves the memory: clear_into_snapshot takes the accounts   *)
(* and their code apart, init_from_snapshot puts them together. Accounts    *)
(* with the same code: the first takes it, the others keep the hash. The    *)
(* snapshot of a forked database keeps its CacheDB in memory.               *)
Taken(d) == [a \in Addresses |-> IF d.accounts[a] = None THEN None ELSE
    [info |-> d.accounts[a].info, storage |-> d.accounts[a].storage]]
HasCode(d) == {d.accounts[a].info.hash : a \in {b \in Addresses : d.accounts[b] # None}}

(* Variant for mutation testing: the code stays behind. *)
BackFromDiskBare(d) ==
    IF forked THEN d ELSE
    [accounts |-> [a \in Addresses |-> IF d.accounts[a] = None THEN None ELSE
        [info |-> [Taken(d)[a].info EXCEPT !.code = None], state |-> "None",
         storage |-> Taken(d)[a].storage]],
     contracts |-> {}]

BackFromDisk(d) ==
    IF forked THEN d ELSE
    [accounts |-> [a \in Addresses |-> IF d.accounts[a] = None THEN None ELSE
        [info |-> [Taken(d)[a].info EXCEPT !.code = None], state |-> "None",
         storage |-> Taken(d)[a].storage]],
     contracts |-> d.contracts \cap HasCode(d)]

(* Variant for mutation testing: the storage is not dumped. *)
dump_state_bare(d) ==
    [a \in Addresses |-> IF d.accounts[a] = None THEN None ELSE
        LET info == d.accounts[a].info
        IN  [balance |-> info.balance, nonce |-> info.nonce, code |-> ViewCode(d, info),
             storage |-> NoStorage]]

(* dump_state: the code goes along, the account state does not. *)
dump_state(d) ==
    [a \in Addresses |-> IF d.accounts[a] = None THEN None ELSE
        LET info == d.accounts[a].info
        IN  [balance |-> info.balance, nonce |-> info.nonce, code |-> ViewCode(d, info),
             storage |-> d.accounts[a].storage]]

(* load_state: each account of the dump replaces the info and the slots that *)
(* the database has, and leaves its account state and its other slots. The   *)
(* larger of the two nonces is taken, "to prevent collisions".               *)
CodeIn(record) == IF record.code = NoCode THEN None ELSE record.code

Imported(d, a, record) ==
    LET account == Entry(d, a)
        old_account_nonce == ViewInfo(d, a).nonce
    IN  [info |-> [balance |-> record.balance,
                   nonce |-> IF record.nonce > old_account_nonce THEN record.nonce
                             ELSE old_account_nonce,
                   hash |-> record.code, code |-> CodeIn(record)],
         state |-> account.state,
         storage |-> [s \in Slots |-> IF record.storage[s] # None THEN record.storage[s]
                                      ELSE account.storage[s]]]

load_state(d, dump) ==
    [accounts |-> [a \in Addresses |-> IF dump[a] = None THEN d.accounts[a]
                                       ELSE Imported(d, a, dump[a])],
     contracts |-> d.contracts \cup
        ({CodeIn(dump[a]) : a \in {b \in Addresses : dump[b] # None}} \ {None})]

-----------------------------------------------------------------------------
W == INSTANCE WorldState WITH Genesis <- {EmptyDB, Fork}, world <- View(db)
(* Every operation has the effect on what is read that it has on a plain    *)
(* map, whatever was cached, cleared and loaded before.                     *)
IsWorld == W!WorldSpec

(* What is read of a state of the history is what it was in memory. *)
HistorySame == View(BackFromDisk(db)) = View(db)

(* A node without a fork that is started with a dump has the accounts of    *)
(* the node that wrote it; and a node, forked or not, that loads its own    *)
(* dump reads what it read before, which takes the accounts that were       *)
(* destroyed and those whose storage was cleared as they are.               *)
DumpReloads ==
    /\ ~forked => View(load_state(NewCacheDB, dump_state(db))) = View(db)
    /\ View(load_state(db, dump_state(db))) = View(db)
=============================================================================
