------------------------------ MODULE LinuxHal ------------------------------
(***************************************************************************)
(* The TX-enable pin of LinuxSx1280Radio (Hal/LinuxSx1280Radio.cpp): what  *)
(* each hook of the driver does to it under a TxEnableBehavior.  The pin   *)
(* is TRUE when asserted; polarity (tx_enable_active_high) is left out     *)
(* because assertedLineValue maps it one to one.                           *)
(***************************************************************************)

TxEnableBehavior == {"None", "StaticAsserted", "StaticDeasserted", "AssertDuringTxOnly"}

(* requestGpioLines drives the pin deasserted; applyInitialTxEnableState   *)
(* then asserts it only in the static-asserted mode.                       *)
applyInitialTxEnableState(b) == b = "StaticAsserted"

HalPreTx(b, pin) == pin \/ b = "AssertDuringTxOnly"

HalPreRx(b, pin) == pin /\ b # "AssertDuringTxOnly"

HalPostTx(b, pin) == IF b = "None" THEN pin ELSE b = "StaticAsserted"

HalPostRx(b, pin) == IF b = "None" THEN pin ELSE b = "StaticAsserted"
=============================================================================
