------------------------------ MODULE MCSx128x ------------------------------
(* Small instances of Sx128x for TLC.                                      *)
EXTENDS Sx128x

MCBehaviors == {"AssertDuringTxOnly"}
MCTypeSets  == {{"LORA"}, {"FLRC"}, {"RANGING"}}
=============================================================================
