--------------------------- MODULE JournaledState ---------------------------
(***************************************************************************)
(* The journaled state of the EVM: struct JournaledState of                 *)
(* revm/crates/revm/src/journaled_state.rs, as operators on a record        *)
(*                                                                         *)
(*   state    what is loaded of each account (State, a HashMap; a missing   *)
(*            key is Vacant, and a missing storage slot is Cold)            *)
(*   logs     how many logs have been emitted (Vec<Log>)                    *)
(*   depth    how deep we are in the call stack                             *)
(*   journal  every entry of journal: Vec<Vec<JournalEntry>>, flattened     *)
(*   sets     for each inner Vec, how many entries precede it               *)
(*                                                                         *)
(* Spurious Dragon is enabled (JournaledState::new), so is_not_existing is  *)
(* not kept. Code and code hash are one value, and original_value of a slot *)
(* is in EvmGas. Balances do not overflow: their sum is bounded.            *)
(***************************************************************************)
EXTENDS Integers, Sequences

CONSTANTS
    Addr, Key, Val,       \* addresses, storage keys, storage values
    Codes, NoCode,        \* bytecodes, and the empty one
    Precompiles,          \* addresses of the precompiles
    PRECOMPILE3,          \* the address that checkpoint_revert leaves warm
    Vacant, Cold,         \* missing keys of the two hash maps
    MaxNonce              \* u64::MAX

Account ==
    [balance : Nat, nonce : 0 .. MaxNonce, code : Codes,
     storage : [Key -> Val \cup {Cold}],
     storage_cleared : BOOLEAN, is_destroyed : BOOLEAN, is_touched : BOOLEAN]

ASSUME JournalAssumption ==
    /\ 0 \in Val /\ NoCode \in Codes /\ MaxNonce \in Nat
    /\ Precompiles \subseteq Addr
    /\ Vacant \notin Account /\ Cold \notin Val

(* What a database says of an account: Database::basic and ::storage. *)
DbAccount == [balance : Nat, nonce : 0 .. MaxNonce, code : Codes, storage : [Key -> Val]]

(* JournaledState::new *)
New ==
    [state |-> [a \in Addr |-> Vacant], logs |-> 0, depth |-> 0,
     journal |-> <<>>, sets |-> <<0>>]

IsLoaded(j, a) == j.state[a] # Vacant

(* The value sload returns for a slot. *)
SlotValue(acc, d, k) ==
    IF acc.storage[k] # Cold THEN acc.storage[k]
    ELSE IF acc.storage_cleared THEN 0
    ELSE d.storage[k]

(* The accounts as the running code finds them, loaded or not. *)
WorldOf(acc, d) ==
    IF acc = Vacant
    THEN [balance |-> d.balance, nonce |-> d.nonce, destroyed |-> FALSE,
          storage |-> d.storage]
    ELSE [balance |-> acc.balance, nonce |-> acc.nonce, destroyed |-> acc.is_destroyed,
          storage |-> [k \in Key |-> SlotValue(acc, d, k)]]
World(s, db) == [a \in Addr |-> WorldOf(s[a], db[a])]

-----------------------------------------------------------------------------
(* journal.last_mut().push(..) and the change of account a that goes with   *)
(* it. An entry also carries, for the properties alone, the accounts as     *)
(* they were before.                                                        *)
Journaled(j, db, kind, a, target, amount, had, acc) ==
    [j EXCEPT !.journal = Append(@, [kind |-> kind, address |-> a, target |-> target,
                                     amount |-> amount, had |-> had,
                                     was |-> World(j.state, db)]),
              !.state[a] = acc]

(* Variant for mutation testing: a hot account is journaled again. *)
load_accountAgain(j, db, a) ==
    Journaled(j, db, "AccountLoaded", a, a, 0, Cold,
              IF IsLoaded(j, a) THEN j.state[a]
              ELSE [balance |-> db[a].balance, nonce |-> db[a].nonce, code |-> db[a].code,
                    storage |-> [k \in Key |-> Cold], storage_cleared |-> FALSE,
                    is_destroyed |-> FALSE, is_touched |-> FALSE])

load_account(j, db, a) ==
    IF IsLoaded(j, a) THEN j
    ELSE Journaled(j, db, "AccountLoaded", a, a, 0, Cold,
                   [balance |-> db[a].balance, nonce |-> db[a].nonce, code |-> db[a].code,
                    storage |-> [k \in Key |-> Cold], storage_cleared |-> FALSE,
                    is_destroyed |-> FALSE, is_touched |-> FALSE])

(* Variant for mutation testing: a touched account is journaled again. *)
touch_accountAgain(j, db, a) ==
    Journaled(j, db, "AccountTouched", a, a, 0, Cold,
              [j.state[a] EXCEPT !.is_touched = TRUE])

touch_account(j, db, a) ==
    IF j.state[a].is_touched THEN j
    ELSE Journaled(j, db, "AccountTouched", a, a, 0, Cold,
                   [j.state[a] EXCEPT !.is_touched = TRUE])

touch(j, db, a) == IF IsLoaded(j, a) THEN touch_account(j, db, a) ELSE j

(* The caller has checked that the nonce is below u64::MAX. *)
inc_nonce(j, db, a) ==
    LET t == touch_account(j, db, a)
    IN  Journaled(t, db, "NonceChange", a, a, 0, Cold,
                  [t.state[a] EXCEPT !.nonce = @ + 1])

(* The balance of from is checked after both accounts are loaded and from   *)
(* is touched: OutOfFund leaves those entries to be reverted.               *)
HasFund(j, db, from, to, balance) ==
    touch_account(load_account(load_account(j, db, from), db, to), db, from)
        .state[from].balance >= balance

transfer(j, db, from, to, balance) ==
    LET f == touch_account(load_account(load_account(j, db, from), db, to), db, from)
        t == touch_account(f, db, to)
        paid == Journaled(t, db, "BalanceTransfer", from, to, balance, Cold,
                          [t.state[from] EXCEPT !.balance = @ - balance])
    IN  IF f.state[from].balance < balance THEN f
        ELSE [paid EXCEPT !.state[to].balance = @ + balance]

(* Collision: the account has code or a nonce, or is a precompile. *)
Collides(j, a) ==
    j.state[a].code # NoCode \/ j.state[a].nonce # 0 \/ a \in Precompiles

create_account(j, db, a) ==
    LET l == load_account(j, db, a)
        fresh == [l.state[a] EXCEPT
                    !.storage_cleared = TRUE,
                    !.storage = [k \in Key |-> IF @[k] = Cold THEN Cold ELSE 0],
                    !.code = NoCode]
    IN  IF Collides(l, a) THEN l
        ELSE touch_account([l EXCEPT !.state[a] = fresh], db, a)

(* set_code: had_code is the code that is being set. *)
set_code(j, db, a, code) ==
    LET t == touch_account(j, db, a)
    IN  Journaled(t, db, "CodeChange", a, a, 0, code,
                  [t.state[a] EXCEPT !.code = code])

sload(j, db, a, k) ==
    IF j.state[a].storage[k] # Cold THEN j
    ELSE Journaled(j, db, "StorageChange", a, k, 0, Cold,
                   [j.state[a] EXCEPT !.storage[k] = SlotValue(j.state[a], db[a], k)])

sstore(j, db, a, k, new) ==
    LET l == sload(j, db, a, k)
        present == l.state[a].storage[k]
    IN  IF present = new THEN l
        ELSE Journaled(l, db, "StorageChange", a, k, 0, present,
                       [l.state[a] EXCEPT !.storage[k] = new])

(* The balance moves to the target, or is lost when that is the account     *)
(* itself; the target's AccountTouched entry comes before AccountDestroyed. *)
(* had is was_destroyed: the account had been destroyed before this entry.  *)
selfdestruct(j, db, a, target) ==
    LET l == load_account(j, db, target)
        balance == l.state[a].balance
        t == IF a = target THEN l ELSE touch_account(l, db, target)
        gone == Journaled(t, db, "AccountDestroyed", a, target, balance,
                          l.state[a].is_destroyed,
                          [t.state[a] EXCEPT !.balance = 0, !.is_destroyed = TRUE])
    IN  IF a = target THEN gone
        ELSE [gone EXCEPT !.state[target].balance = @ + balance]

log(j) == [j EXCEPT !.logs = @ + 1]

-----------------------------------------------------------------------------
(* JournalCheckpoint: journal_i counts the inner Vecs. *)
CheckpointOf(j) == [log_i |-> j.logs, journal_i |-> Len(j.sets)]

checkpoint(j) ==
    [j EXCEPT !.depth = @ + 1, !.sets = Append(@, Len(j.journal))]

checkpoint_commit(j) == [j EXCEPT !.depth = @ - 1]

(* Variant for mutation testing: the target of a destruction keeps the      *)
(* balance it received.                                                     *)
UndoKeepsGift(s, e) ==
    LET a == e.address
    IN  CASE e.kind = "AccountLoaded" ->
               IF a = PRECOMPILE3 THEN s ELSE [s EXCEPT ![a] = Vacant]
          [] e.kind = "AccountTouched" ->
               IF a = PRECOMPILE3 THEN s ELSE [s EXCEPT ![a].is_touched = FALSE]
          [] e.kind = "AccountDestroyed" ->
               [s EXCEPT ![a].is_destroyed = e.had, ![a].balance = @ + e.amount]
          [] e.kind = "BalanceTransfer" ->
               [[s EXCEPT ![a].balance = @ + e.amount]
                   EXCEPT ![e.target].balance = @ - e.amount]
          [] e.kind = "NonceChange" -> [s EXCEPT ![a].nonce = @ - 1]
          [] e.kind = "StorageChange" -> [s EXCEPT ![a].storage[e.target] = e.had]
          [] e.kind = "CodeChange" -> [s EXCEPT ![a].code = e.had]

(* One iteration of the loop of journal_revert. *)
Undo(s, e) ==
    LET a == e.address
    IN  CASE e.kind = "AccountLoaded" ->
               IF a = PRECOMPILE3 THEN s ELSE [s EXCEPT ![a] = Vacant]
          [] e.kind = "AccountTouched" ->
               IF a = PRECOMPILE3 THEN s ELSE [s EXCEPT ![a].is_touched = FALSE]
          [] e.kind = "AccountDestroyed" ->
               LET back == [s EXCEPT ![a].is_destroyed = e.had, ![a].balance = @ + e.amount]
               IN  IF a = e.target THEN back
                   ELSE [back EXCEPT ![e.target].balance = @ - e.amount]
          [] e.kind = "BalanceTransfer" ->
               [[s EXCEPT ![a].balance = @ + e.amount]
                   EXCEPT ![e.target].balance = @ - e.amount]
          [] e.kind = "NonceChange" -> [s EXCEPT ![a].nonce = @ - 1]
          [] e.kind = "StorageChange" -> [s EXCEPT ![a].storage[e.target] = e.had]
          [] e.kind = "CodeChange" -> [s EXCEPT ![a].code = e.had]

(* The first entry that checkpoint_revert undoes is the one after this. *)
RevertsTo(j, cp) == j.sets[cp.journal_i + 1]

(* Variant for mutation testing: the logs of a failed call stay. *)
TruncatedKeepsLogs(j, cp) ==
    [j EXCEPT !.journal = SubSeq(@, 1, RevertsTo(j, cp)),
              !.sets = SubSeq(@, 1, cp.journal_i)]

(* The truncations that end checkpoint_revert. *)
Truncated(j, cp) ==
    [j EXCEPT !.logs = cp.log_i,
              !.journal = SubSeq(@, 1, RevertsTo(j, cp)),
              !.sets = SubSeq(@, 1, cp.journal_i)]

-----------------------------------------------------------------------------
(* JournaledState::finalize, and CacheDB::commit of what it returns (the    *)
(* accounts that were touched) into the database.                           *)
Committed(acc, d) ==
    IF acc = Vacant THEN d
    ELSE IF ~acc.is_touched THEN d
    ELSE IF acc.is_destroyed
    THEN [balance |-> 0, nonce |-> 0, code |-> NoCode, storage |-> [k \in Key |-> 0]]
    ELSE [balance |-> acc.balance, nonce |-> acc.nonce, code |-> acc.code,
          storage |-> [k \in Key |-> SlotValue(acc, d, k)]]
=============================================================================
