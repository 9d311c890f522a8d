-------------------------- MODULE MCStateDatabase --------------------------
(* A small instance of StateDatabase for TLC: the remote has one contract,  *)
(* with all its slots set.                                                  *)
EXTENDS StateDatabase

Contract ==
    [balance |-> 1, nonce |-> 1, code |-> CHOOSE c \in Codes : TRUE, storage |-> [s \in Slots |-> 1]]
RemoteContract == [EmptyDB EXCEPT ![CHOOSE a \in Addresses : TRUE] = Contract]

(* No action reads the last operation: states that differ in it alone have  *)
(* the same steps.                                                          *)
DatabaseView == <<forked, db>>
=============================================================================
