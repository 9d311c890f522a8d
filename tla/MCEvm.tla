------------------------------- MODULE MCEvm -------------------------------
(* Small instances of Evm for TLC. *)
EXTENDS Evm, TLC

CONSTANTS eoa, con, new, p3, C

Accounts == {eoa, con, new, p3}

(* A sender, a contract with a stored value, and two unused addresses. *)
SmallGenesis ==
    [a \in Addr |->
        [balance |-> IF a = eoa THEN 4 ELSE IF a = con THEN 1 ELSE 0,
         nonce |-> IF a = con THEN 1 ELSE 0,
         code |-> IF a = con THEN C ELSE NoCode,
         storage |-> [k \in Key |-> IF a = con THEN 1 ELSE 0]]]

(* The contract may be listed in advance; the sender can pay three times. *)
SomeLists == {Nothing, <<con, 1>>}
RichGenesis == [SmallGenesis EXCEPT ![eoa].balance = 8]

(* A first transaction of several instructions and without a list; or three *)
(* short ones, of which the last is a bare call or create.                  *)
Listed(j) == \E a \in Addr : j.state[a] # Vacant /\ \E k \in Key : j.state[a].storage[k] # Cold
LongOrShort ==
    /\ txs' = 1 /\ steps' = 0 => ~Listed(js')
    /\ txs' > 1 => steps <= 1 /\ steps' <= 1
    /\ txs' = MaxTxs => steps' = 0
=============================================================================
