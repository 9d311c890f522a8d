-------------------------------- MODULE Evm --------------------------------
(***************************************************************************)
(* A sequence of transactions executed by the EVM: transact, call_inner,    *)
(* create_inner and finalize of revm/crates/revm/src/evm_impl.rs, the       *)
(* instructions of interpreter/src/instructions/host.rs that reach them,    *)
(* and the commit of each result into the database.                         *)
(*                                                                         *)
(* What a contract's code does is arbitrary: any instruction may come next, *)
(* and any frame may stop, revert or run out of gas after any of them. How  *)
(* much gas each takes is the subject of EvmGas; here a transaction buys    *)
(* GasLimit units and uses some of them. The loop of checkpoint_revert is   *)
(* taken one entry at a time (Unwind), and nothing else happens meanwhile.  *)
(***************************************************************************)
EXTENDS JournaledState, FiniteSetsExt

CONSTANTS
    Coinbase,             \* env.block.coinbase
    GasLimit,             \* gas_limit of every transaction
    BaseFee, Tip,         \* the two parts of effective_gas_price
    Values,               \* amounts that calls and creates transfer
    AccessLists, Nothing, \* access lists: Nothing, or one slot of one account
    Genesis,              \* the database before the first transaction
    CALL_STACK_LIMIT,
    MaxTxs, MaxSteps      \* bounds: transactions, and instructions of each

ASSUME EvmAssumption ==
    /\ Coinbase \in Addr /\ Genesis \in [Addr -> DbAccount]
    /\ GasLimit \in Nat /\ BaseFee \in Nat /\ Tip \in Nat /\ Values \subseteq Nat
    /\ AccessLists \subseteq ((Addr \X Key) \cup {Nothing}) /\ Nothing \notin Addr \X Key
    /\ CALL_STACK_LIMIT \in Nat /\ MaxTxs \in Nat /\ MaxSteps \in Nat

VARIABLES
    db,        \* the database the EVM runs on
    js,        \* journaled_state
    frames,    \* the call stack: one record per open checkpoint
    phase,     \* what the EVM is doing
    cursor,    \* entries of the journal that are still in force
    fatal,     \* a FatalExternalError is on its way to the first frame
    caller,    \* env.tx.caller
    txs,       \* ghost: transactions so far
    steps,     \* ghost: instructions of this transaction so far
    recoded    \* ghost: accounts whose CodeChange this transaction has undone

vars == <<db, js, frames, phase, cursor, fatal, caller, txs, steps, recoded>>

Price == BaseFee + Tip
Top == frames[Len(frames)]
Running == phase = "run" /\ frames # <<>> /\ ~fatal /\ Top.live /\ steps < MaxSteps

(* Everything a contract can observe of account a, gas included. *)
Seen(j, a) ==
    LET acc == j.state[a]
    IN  [world |-> WorldOf(acc, db[a]),
         code |-> IF acc = Vacant THEN db[a].code ELSE acc.code,
         hot |-> acc # Vacant,
         keys |-> IF acc = Vacant THEN {} ELSE {k \in Key : acc.storage[k] # Cold},
         touched |-> IF acc = Vacant THEN FALSE ELSE acc.is_touched]

(* The frame of a call or create, opened on journaled state j before its    *)
(* checkpoint. Code that is empty, or a precompile, only ends.              *)
Open(j, addr, live, static, creates) ==
    [addr |-> addr, live |-> live, static |-> static, creates |-> creates,
     cp |-> CheckpointOf(j), saved |-> [a \in Addr |-> Seen(j, a)]]

Goto(j, p) == js' = j /\ phase' = p /\ cursor' = Len(j.journal)

Init ==
    /\ db = Genesis /\ js = New /\ frames = <<>> /\ phase = "idle" /\ cursor = 0
    /\ fatal = FALSE /\ caller = Coinbase /\ txs = 0 /\ steps = 0 /\ recoded = {}

-----------------------------------------------------------------------------
(* call_inner, from the checkpoint on: contract is the code's address, ctx  *)
(* the address it runs as. Without the funds the frame is reverted at once. *)
call_inner(j0, contract, ctx, source, target, value, static) ==
    LET j == load_account(j0, db, contract)
        c == checkpoint(j)
        t == IF value = 0 THEN touch(load_account(c, db, ctx), db, ctx) ELSE c
        live == j.state[contract].code # NoCode /\ contract \notin Precompiles
    IN  IF j.depth > CALL_STACK_LIMIT
        THEN Goto(j, "run") /\ UNCHANGED frames
        ELSE /\ frames' = Append(frames, Open(j, ctx, live, static, FALSE))
             /\ Goto(transfer(t, db, source, target, value),
                     IF HasFund(t, db, source, target, value) THEN "run" ELSE "unwind")

(* create_inner. The address comes from a hash of the caller and its nonce, *)
(* or for CREATE2 of the caller, a salt and the code: any address is taken. *)
(* Too deep, too poor or with no nonce left the caller goes on as it was.   *)
create_inner(j0, from, created, value) ==
    LET j == load_account(inc_nonce(j0, db, from), db, created)
        c == create_account(checkpoint(j), db, created)
        t == transfer(c, db, from, created, value)
    IN  /\ j0.depth <= CALL_STACK_LIMIT
        /\ j0.state[from].balance >= value
        /\ j0.state[from].nonce < MaxNonce
        /\ frames' = Append(frames, Open(j, created, TRUE, FALSE, TRUE))
        /\ IF Collides(j, created) THEN Goto(c, "unwind")
           ELSE IF ~HasFund(c, db, from, created, value) THEN Goto(t, "unwind")
           ELSE IF t.state[created].nonce = MaxNonce THEN Goto(t, "unwind")
           ELSE Goto(inc_nonce(t, db, created), "run")

(* What transact does before the first frame. A transaction that fails the  *)
(* checks on its sender leaves nothing behind.                              *)
CanPay(from, value) ==
    db[from].code = NoCode /\ db[from].balance >= GasLimit * Price + value

Prepared(from, listed) ==
    LET j == load_account(New, db, from)
        paid == [j EXCEPT !.state[from].balance = @ - GasLimit * Price]
        l == IF listed = Nothing THEN paid
             ELSE sload(load_account(paid, db, listed[1]), db, listed[1], listed[2])
    IN  load_account(l, db, Coinbase)

BeginTx(from, value) ==
    /\ phase = "idle" /\ txs < MaxTxs /\ CanPay(from, value)
    /\ txs' = txs + 1 /\ steps' = 0 /\ caller' = from /\ recoded' = {}
    /\ UNCHANGED <<db, fatal>>

TransactCall(from, to, value, listed) ==
    /\ BeginTx(from, value)
    /\ LET j == Prepared(from, listed)
       IN  IF j.state[from].nonce = MaxNonce
           THEN Goto(j, "run") /\ UNCHANGED frames
           ELSE call_inner(inc_nonce(j, db, from), to, to, from, to, value, FALSE)

TransactCreate(from, created, value, listed) ==
    /\ BeginTx(from, value)
    /\ LET j == Prepared(from, listed)
       IN  IF j.state[from].nonce = MaxNonce
           THEN Goto(j, "run") /\ UNCHANGED frames
           ELSE create_inner(j, from, created, value)

-----------------------------------------------------------------------------
(* Instructions of the running frame. *)
Instruction == Running /\ steps' = steps + 1 /\ UNCHANGED <<db, caller, txs, recoded>>

(* BALANCE, EXTCODESIZE, EXTCODEHASH and EXTCODECOPY. *)
Access(a) ==
    /\ Instruction
    /\ Goto(load_account(js, db, a), "run")
    /\ UNCHANGED <<frames, fatal>>

Sload(k) ==
    /\ Instruction
    /\ Goto(sload(js, db, Top.addr, k), "run")
    /\ UNCHANGED <<frames, fatal>>

Sstore(k, v) ==
    /\ Instruction /\ ~Top.static
    /\ Goto(sstore(js, db, Top.addr, k, v), "run")
    /\ UNCHANGED <<frames, fatal>>

Log ==
    /\ Instruction /\ ~Top.static
    /\ Goto(log(js), "run")
    /\ UNCHANGED <<frames, fatal>>

(* SELFDESTRUCT ends its frame (or fails for gas, after all it did). *)
Selfdestruct(target) ==
    /\ Instruction /\ ~Top.static
    /\ Goto(selfdestruct(js, db, Top.addr, target), "run")
    /\ frames' = [frames EXCEPT ![Len(frames)].live = FALSE]
    /\ UNCHANGED fatal

(* Variant for mutation testing: is_static is not passed on. *)
CallForgetsStatic(scheme, to, value) ==
    /\ Instruction
    /\ scheme \in {"DelegateCall", "StaticCall"} => value = 0
    /\ scheme = "Call" /\ Top.static => value = 0
    /\ LET self == Top.addr
           runs == IF scheme \in {"Call", "StaticCall"} THEN to ELSE self
           payee == IF scheme = "Call" THEN to ELSE self
       IN  call_inner(load_account(js, db, to), to, runs, self, payee, value,
                      scheme = "StaticCall")
    /\ UNCHANGED fatal

(* CALL, CALLCODE, DELEGATECALL and STATICCALL: who runs, and who pays. *)
Call(scheme, to, value) ==
    /\ Instruction
    /\ scheme \in {"DelegateCall", "StaticCall"} => value = 0
    /\ scheme = "Call" /\ Top.static => value = 0
    /\ LET self == Top.addr
           runs == IF scheme \in {"Call", "StaticCall"} THEN to ELSE self
           payee == IF scheme = "Call" THEN to ELSE self
       IN  call_inner(load_account(js, db, to), to, runs, self, payee, value,
                      Top.static \/ scheme = "StaticCall")
    /\ UNCHANGED fatal

Create(created, value) ==
    /\ Instruction /\ ~Top.static
    /\ create_inner(js, Top.addr, created, value)
    /\ UNCHANGED fatal

(* A database that fails: the instruction, and then every frame, ends with  *)
(* FatalExternalError. When create_account meets the error its checkpoint   *)
(* is neither committed nor reverted.                                       *)
DbError ==
    /\ Instruction
    /\ \E a \in Addr : ~IsLoaded(js, a)
    /\ fatal' = TRUE
    /\ Goto(js, "run")
    /\ UNCHANGED frames

CreateDbError(created) ==
    /\ Instruction /\ ~Top.static
    /\ ~IsLoaded(js, created) /\ js.depth <= CALL_STACK_LIMIT
    /\ js.state[Top.addr].nonce < MaxNonce
    /\ fatal' = TRUE
    /\ Goto(checkpoint(inc_nonce(js, db, Top.addr)), "run")
    /\ UNCHANGED frames

-----------------------------------------------------------------------------
(* The frame ends well: STOP, RETURN or SELFDESTRUCT. A create commits, and *)
(* only then sets the code, in whatever Vec of the journal is the last one. *)
Return(code) ==
    /\ phase = "run" /\ frames # <<>> /\ ~fatal
    /\ IF Top.creates
       THEN Goto(set_code(checkpoint_commit(js), db, Top.addr, code), "run")
       ELSE code = NoCode /\ Goto(checkpoint_commit(js), "run")
    /\ frames' = SubSeq(frames, 1, Len(frames) - 1)
    /\ UNCHANGED <<db, fatal, caller, txs, steps, recoded>>

(* The frame ends in any other way: checkpoint_revert begins. *)
Fail ==
    /\ phase = "run" /\ frames # <<>>
    /\ phase' = "unwind"
    /\ UNCHANGED <<db, js, frames, cursor, fatal, caller, txs, steps, recoded>>

Unwind ==
    /\ phase = "unwind" /\ cursor > RevertsTo(js, Top.cp)
    /\ js' = [js EXCEPT !.state = Undo(@, js.journal[cursor])]
    /\ cursor' = cursor - 1
    /\ recoded' = IF js.journal[cursor].kind = "CodeChange"
                  THEN recoded \cup {js.journal[cursor].address} ELSE recoded
    /\ UNCHANGED <<db, frames, phase, fatal, caller, txs, steps>>

EndRevert ==
    /\ phase = "unwind" /\ cursor = RevertsTo(js, Top.cp)
    /\ js' = [Truncated(js, Top.cp) EXCEPT !.depth = @ - 1]
    /\ phase' = "run"
    /\ frames' = SubSeq(frames, 1, Len(frames) - 1)
    /\ UNCHANGED <<db, cursor, fatal, caller, txs, steps, recoded>>

(* Variant for mutation testing: the coinbase is paid but not touched. *)
FinalizedUntouched(used) ==
    LET back == [js EXCEPT !.state[caller].balance = @ + (GasLimit - used) * Price]
        t == load_account(back, db, Coinbase)
    IN  [t EXCEPT !.state[Coinbase].balance = @ + used * Tip]

(* finalize pays back the gas that was not used and pays the coinbase; then *)
(* the touched accounts are committed, unless the database failed.          *)
Finalized(used) ==
    LET back == [js EXCEPT !.state[caller].balance = @ + (GasLimit - used) * Price]
        t == touch(load_account(back, db, Coinbase), db, Coinbase)
    IN  [t EXCEPT !.state[Coinbase].balance = @ + used * Tip]

Finalize(used) ==
    /\ phase = "run" /\ frames = <<>>
    /\ db' = IF fatal THEN db
             ELSE [a \in Addr |-> Committed(Finalized(used).state[a], db[a])]
    /\ Goto(New, "idle") /\ fatal' = FALSE
    /\ UNCHANGED <<frames, caller, txs, steps, recoded>>

(* No further transaction comes. *)
Done == phase = "idle" /\ UNCHANGED vars

Next ==
    \/ \E from \in Addr, to \in Addr, v \in Values, l \in AccessLists :
           TransactCall(from, to, v, l) \/ TransactCreate(from, to, v, l)
    \/ \E a \in Addr : Access(a) \/ Selfdestruct(a) \/ CreateDbError(a)
    \/ \E k \in Key : Sload(k) \/ \E v \in Val : Sstore(k, v)
    \/ Log \/ DbError
    \/ \E s \in {"Call", "CallCode", "DelegateCall", "StaticCall"}, to \in Addr,
           v \in Values \cup {0} : Call(s, to, v)
    \/ \E a \in Addr, v \in Values \cup {0} : Create(a, v)
    \/ \E c \in Codes : Return(c)
    \/ Fail \/ Unwind \/ EndRevert
    \/ \E used \in 0 .. GasLimit : Finalize(used)
    \/ Done

Spec == Init /\ [][Next]_vars

-----------------------------------------------------------------------------
(* When checkpoint_revert is through, a contract finds everything as it was *)
(* at the checkpoint: balances, nonces, slots, destructions, and what is    *)
(* warm or touched. Two exceptions: the third precompile stays warm and     *)
(* touched, and an account whose CodeChange was undone keeps its new code.  *)
Rollback ==
    phase = "unwind" /\ cursor = RevertsTo(js, Top.cp) =>
        \A a \in Addr :
            /\ Seen(js, a).world = Top.saved[a].world
            /\ Seen(js, a).keys = Top.saved[a].keys
            /\ a # PRECOMPILE3 => /\ Seen(js, a).hot = Top.saved[a].hot
                                  /\ Seen(js, a).touched = Top.saved[a].touched
            /\ a \notin recoded => Seen(js, a).code = Top.saved[a].code

(* No unwrap of journal_revert meets a missing account or slot, and none of *)
(* its unchecked subtractions goes below zero.                              *)
UndoSafe ==
    phase = "unwind" /\ cursor > RevertsTo(js, Top.cp) =>
        LET e == js.journal[cursor]
            acc == js.state[e.address]
        IN  /\ acc # Vacant
            /\ e.kind = "NonceChange" => acc.nonce > 0
            /\ e.kind = "StorageChange" => acc.storage[e.target] # Cold
            /\ e.kind \in {"BalanceTransfer", "AccountDestroyed"} =>
                  /\ js.state[e.target] # Vacant
                  /\ e.target # e.address => js.state[e.target].balance >= e.amount

(* Nothing that runs under a STATICCALL, at any depth, changes an account   *)
(* or emits a log.                                                          *)
StaticChangesNothing ==
    phase = "run" => \A i \in DOMAIN frames : frames[i].static =>
        /\ js.logs = frames[i].cp.log_i
        /\ \A a \in Addr : /\ Seen(js, a).world = frames[i].saved[a].world
                           /\ Seen(js, a).code = frames[i].saved[a].code

Ether(d) == MapThenSumSet(LAMBDA a : d[a].balance, Addr)

(* Ether that self-destruction into oneself has taken out of circulation. *)
Burned ==
    MapThenSumSet(LAMBDA i : js.journal[i].amount,
                  {i \in 1 .. cursor : /\ js.journal[i].kind = "AccountDestroyed"
                                       /\ js.journal[i].address = js.journal[i].target})

(* Within a transaction no step makes or loses ether, not one entry of a    *)
(* revert either: what accounts hold, the gas paid for in advance and what  *)
(* was burned add up to what the database holds.                            *)
Conserved ==
    phase # "idle" =>
        Ether(World(js.state, db)) + GasLimit * Price + Burned = Ether(db)

(* A transaction takes from circulation exactly its base fee, what it       *)
(* burned, and what destroyed accounts still held. (A sender whose nonce is *)
(* u64::MAX is never touched: it is not charged, though the coinbase is     *)
(* paid.)                                                                   *)
Settled ==
    [][phase = "run" /\ phase' = "idle" /\ ~fatal
         /\ (js.state[caller].is_touched \/ caller = Coinbase)
       => \E used \in 0 .. GasLimit :
            LET end == Finalized(used).state
                dead == {a \in Addr : end[a] # Vacant /\ end[a].is_destroyed}
            IN  Ether(db') + used * BaseFee + Burned
                  + MapThenSumSet(LAMBDA a : end[a].balance, dead) = Ether(db)]_vars

(* Under a revert the abstract step has been taken when the revert begins. *)
SavedBy(f) == [world |-> [a \in Addr |-> f.saved[a].world], logs |-> f.cp.log_i]
Reverting == phase = "unwind"

Stack == INSTANCE CallStack WITH
    NoStorage <- [k \in Key |-> 0],
    world <- IF Reverting THEN SavedBy(Top).world ELSE World(js.state, db),
    logs <- IF Reverting THEN Top.cp.log_i ELSE js.logs,
    saved <- [i \in 1 .. (IF Reverting THEN Len(frames) - 1 ELSE Len(frames)) |->
                 SavedBy(frames[i])],
    active <- phase # "idle",
    payer <- caller,
    work <- steps,
    start <- World(New.state, db)

(* The journal implements a stack of saved worlds: a call that fails leaves *)
(* the world and the logs of before the call, one that succeeds what it     *)
(* did, and committing the touched accounts alone loses no change.          *)
ImplementsCallStack == Stack!StackSpec
=============================================================================
