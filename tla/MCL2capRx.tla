----------------------------- MODULE MCL2capRx ------------------------------
(* Instances of the receive path for TLC; the constants are in the         *)
(* configuration files.                                                    *)
EXTENDS L2capRx
=============================================================================
