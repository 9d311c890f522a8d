---------------------------- MODULE TimeManager ----------------------------
(***************************************************************************)
(* The clock that gives blocks their timestamps: TimeManager of             *)
(* anvil/src/eth/backend/time.rs and the requests that set it               *)
(* (anvil/src/eth/api.rs). Every field has a lock of its own, so the        *)
(* operations that read one and then write another are two steps.           *)
(***************************************************************************)
EXTENDS Integers, Sequences

CONSTANTS
    Miners,     \* callers of next_timestamp
    StartTime,  \* timestamp that the clock starts with
    Seconds,    \* arguments of evm_increaseTime and of the block interval
    Stamps,     \* arguments of evm_setNextBlockTimestamp
    Resets,     \* arguments of evm_setTime
    NoTime,     \* an Option that is None
    MaxWall,    \* bound on the system's clock
    MaxBlocks   \* bound on the blocks

ASSUME TimeAssumption ==
    /\ StartTime \in Nat /\ Seconds \subseteq Nat /\ Stamps \subseteq Nat /\ Resets \subseteq Nat
    /\ NoTime \notin Int /\ MaxWall \in Nat /\ MaxBlocks \in Nat

VARIABLES
    wall,       \* duration_since_unix_epoch
    offset, last_timestamp, next_exact_timestamp, interval,
    setting,    \* set_next_block_timestamp between its check and its write
    stamping,   \* what a miner has computed and not yet taken
    stamps      \* timestamps taken since the last reset, in order

timeVars == <<wall, offset, last_timestamp, next_exact_timestamp, interval, setting,
              stamping, stamps>>

(* compute_next_timestamp *)
Wanted ==
    IF next_exact_timestamp # NoTime THEN next_exact_timestamp
    ELSE IF interval # NoTime THEN last_timestamp + interval
    ELSE wall + offset

(* Variant for mutation testing: the last timestamp may come again. *)
compute_next_timestampAgain ==
    IF Wanted < last_timestamp THEN last_timestamp + 1 ELSE Wanted

compute_next_timestamp ==
    IF Wanted <= last_timestamp THEN last_timestamp + 1 ELSE Wanted

TimeInit ==
    /\ wall = StartTime /\ offset = 0 /\ last_timestamp = StartTime
    /\ next_exact_timestamp = NoTime /\ interval = NoTime
    /\ setting = NoTime /\ stamping = [m \in Miners |-> NoTime] /\ stamps = <<>>

Tick ==
    /\ wall < MaxWall /\ wall' = wall + 1
    /\ UNCHANGED <<offset, last_timestamp, next_exact_timestamp, interval, setting,
                   stamping, stamps>>

increase_time(s) ==
    /\ offset + s <= MaxWall
    /\ offset' = offset + s
    /\ UNCHANGED <<wall, last_timestamp, next_exact_timestamp, interval, setting,
                   stamping, stamps>>

(* set_next_block_timestamp: a timestamp that is not after the last is an   *)
(* error.                                                                   *)
CheckNext(ts) ==
    /\ setting = NoTime /\ ts > last_timestamp
    /\ setting' = ts
    /\ UNCHANGED <<wall, offset, last_timestamp, next_exact_timestamp, interval,
                   stamping, stamps>>

SetNext ==
    /\ setting # NoTime
    /\ next_exact_timestamp' = setting /\ setting' = NoTime
    /\ UNCHANGED <<wall, offset, last_timestamp, interval, stamping, stamps>>

set_block_timestamp_interval(s) ==
    /\ interval' = s
    /\ UNCHANGED <<wall, offset, last_timestamp, next_exact_timestamp, setting,
                   stamping, stamps>>

remove_block_timestamp_interval ==
    /\ interval # NoTime /\ interval' = NoTime
    /\ UNCHANGED <<wall, offset, last_timestamp, next_exact_timestamp, setting,
                   stamping, stamps>>

(* reset, for evm_setTime and evm_revert *)
reset(ts) ==
    /\ last_timestamp' = ts /\ offset' = ts - wall /\ next_exact_timestamp' = NoTime
    /\ stamps' = <<>>
    /\ UNCHANGED <<wall, interval, setting, stamping>>

(* next_timestamp: computed, and then taken. An exact timestamp also sets   *)
(* the offset.                                                              *)
Compute(m) ==
    /\ stamping[m] = NoTime /\ Len(stamps) < MaxBlocks
    /\ stamping' = [stamping EXCEPT ![m] =
          [next |-> compute_next_timestamp,
           offset |-> IF next_exact_timestamp = NoTime THEN NoTime
                      ELSE compute_next_timestamp - wall]]
    /\ UNCHANGED <<wall, offset, last_timestamp, next_exact_timestamp, interval, setting,
                   stamps>>

Take(m) ==
    /\ stamping[m] # NoTime
    /\ next_exact_timestamp' = NoTime
    /\ offset' = IF stamping[m].offset = NoTime THEN offset ELSE stamping[m].offset
    /\ last_timestamp' = stamping[m].next
    /\ stamps' = Append(stamps, stamping[m].next)
    /\ stamping' = [stamping EXCEPT ![m] = NoTime]
    /\ UNCHANGED <<wall, interval, setting>>

(* The system's clock, and the requests that set this one *)
ClockStep ==
    \/ Tick \/ SetNext \/ remove_block_timestamp_interval
    \/ \E s \in Seconds : increase_time(s) \/ set_block_timestamp_interval(s)
    \/ \E ts \in Stamps : CheckNext(ts)
    \/ \E ts \in Resets : reset(ts)

TimeNext == ClockStep \/ \E m \in Miners : Compute(m) \/ Take(m)

TimeSpec == TimeInit /\ [][TimeNext]_timeVars

-----------------------------------------------------------------------------
(* "Ensures that the timestamp is always increasing": until the clock is    *)
(* reset each block is later than the one before it, whatever is set        *)
(* between the two halves of next_timestamp.                                *)
Increasing == \A i \in 1 .. Len(stamps) - 1 : stamps[i] < stamps[i + 1]
=============================================================================
