----------------------------- MODULE MCTxRadio ------------------------------
(* Small instances of TxRadio for TLC.                                     *)
EXTENDS TxRadio

MCDuringTx    == {"AssertDuringTxOnly"}
MCCallers     == {SmokeLoop, Deployment}
MCSmokeLoop   == {SmokeLoop}
MCTwoSpaced   == {[sameThread |-> FALSE, spaced |-> TRUE]}
=============================================================================
