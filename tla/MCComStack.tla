----------------------------- MODULE MCComStack -----------------------------
(* Small instances of ComStack for TLC.                                    *)
EXTENDS ComStack

MCPacketSizes == {1, 2, 3}

(* The largest frame the node accepts, and the one ComCfg.fpp deploys.     *)
MCFrameSizes == {255, 1024}
MCDeployedFrame == {1024}
=============================================================================
