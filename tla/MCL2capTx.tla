----------------------------- MODULE MCL2capTx ------------------------------
(* Instances of the transmit path for TLC; the constants are in the        *)
(* configuration files.                                                    *)
EXTENDS L2capTx
=============================================================================
