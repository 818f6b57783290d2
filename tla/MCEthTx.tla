------------------------------- MODULE MCEthTx -------------------------------
(* An activation and a root at once, for TLC. *)
EXTENDS EthTx
CONSTANTS activate, root
=============================================================================
