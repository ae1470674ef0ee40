------------------------------ MODULE MCRxPath ------------------------------
(* Small instances of RxPath for TLC.                                      *)
EXTENDS RxPath

MCUnpaced == {FALSE}
MCPacings == BOOLEAN
MCNonEmpty == {1}
MCAnyLength == {0, 1}
=============================================================================
