------------------------------ MODULE MCRunJob ------------------------------
(* Instances of the retry loop for TLC; the constants are in the           *)
(* configuration files.                                                    *)
EXTENDS RunJob
=============================================================================
