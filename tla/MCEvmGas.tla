------------------------------ MODULE MCEvmGas ------------------------------
(* Small instances of EvmGas for TLC: the prices are scaled down. *)
EXTENDS EvmGas
=============================================================================
